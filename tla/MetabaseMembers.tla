-------------------------- MODULE MetabaseMembers ---------------------------
(***************************************************************************)
(* The members of one restricted dataset's permission group in Metabase.   *)
(*                                                                         *)
(* Membership follows access, but in calls of its own: a direct grant      *)
(* stores the access and then asks Metabase; a revocation asks Metabase    *)
(* before the access itself is looked at; the access ensurer revokes what  *)
(* has expired and then asks Metabase; the mapper adds those who had       *)
(* access when it made its list (handler_access.go, service_metabase.go,   *)
(* ensurer.go).  What a grant or a revocation does to BigQuery and to the  *)
(* rows is module AccessGrants; here it is one step.  How the group itself *)
(* comes and goes is module MetabaseMapping; here it is one step too.      *)
(***************************************************************************)
EXTENDS Naturals, FiniteSets

CONSTANTS
    People,         \* subjects of type user
    Known,          \* those with a user in Metabase
    AccessIds,      \* rows of dataset_access
    MemberCalls,    \* handlers that grant or revoke
    Nobody

ASSUME MembersAssumption == Known \subseteq People /\ Nobody \notin People \cup AccessIds

VARIABLES
    rights,     \* dataset_access: whose each row is, and its state
    lapsed,     \* rows that have expired
    mapping,    \* metabase_metadata: none, not synced yet, synced
    members,    \* Metabase: who is in the group
    adding,     \* the mapper: subjects of its list still to add, and is it at work
    request,    \* handlers
    sweep,      \* the ensurer: rows of its list, the one in hand, its next call
    overlooked, \* history: people whose membership was left to nobody
    joined      \* history: people who were told that they have access and kept it

membersVars == <<rights, lapsed, mapping, members, adding, request, sweep,
                 overlooked, joined>>

Right == [who : People, state : {"none", "active", "revoked"}]
Request == [step : {"idle", "metadata", "group", "add", "remove", "gone", "access"},
            op : {"grant", "revoke"}, who : People \cup {Nobody},
            id : AccessIds \cup {Nobody}, may : BOOLEAN]
Sweep == [left : SUBSET AccessIds, step : {"idle", "next", "metadata", "group", "remove", "gone"},
          who : People \cup {Nobody}]

NoRequest == [step |-> "idle", op |-> "grant", who |-> Nobody, id |-> Nobody, may |-> FALSE]
NoSweep == [left |-> {}, step |-> "idle", who |-> Nobody]

MembersInit ==
    /\ rights \in {[i \in AccessIds |-> [who |-> p, state |-> "none"]] : p \in People}
    /\ lapsed = {}
    /\ mapping = "none"
    /\ members = {}
    /\ adding = [work |-> FALSE, left |-> {}]
    /\ request = [c \in MemberCalls |-> NoRequest]
    /\ sweep = NoSweep
    /\ overlooked = {}
    /\ joined = {}

Active(p) == {i \in AccessIds : rights[i].who = p /\ rights[i].state = "active"}
HasAccess(p) == Active(p) # {}

\* Somebody is about to take the membership of p away, or has looked for it.
Leaving(p) ==
    \/ sweep.who = p
    \/ \E c \in MemberCalls : request[c].op = "revoke" /\ request[c].who = p

-----------------------------------------------------------------------------
(* Metabase.  Groups and memberships have numbers: who holds the number of   *)
(* one that is removed gets an error, even if there is a new one.            *)

\* getUserID: who has never logged in to Metabase has no user there.
HasUser(p) == p \in Known

Join(p) ==
    /\ members' = members \cup {p}
    /\ overlooked' = IF HasAccess(p) /\ ~ Leaving(p) THEN overlooked ELSE overlooked \cup {p}

Outdated(r, gone) == IF r.step = "remove" /\ r.who \in gone
                     THEN [r EXCEPT !.step = "gone"] ELSE r

RequestAt(c, op, step) == request[c].op = op /\ request[c].step = step
RequestGoto(c, step) == request' = [request EXCEPT ![c].step = step]
EndRequest(c) == request' = [request EXCEPT ![c] = NoRequest]

-----------------------------------------------------------------------------
(* GrantAccessToDataset, ApproveAccessRequest *)

\* The access of p that there is gives way to a new one.
GrantRight(p) == \E i \in AccessIds :
    /\ rights[i].state = "none"
    /\ rights' = [j \in AccessIds |->
         IF j = i THEN [who |-> p, state |-> "active"]
         ELSE IF j \in Active(p) THEN [rights[j] EXCEPT !.state = "revoked"] ELSE rights[j]]

GrantAccess(c, p) ==
    /\ request[c] = NoRequest
    /\ GrantRight(p)
    /\ request' = [request EXCEPT ![c] = [NoRequest EXCEPT !.step = "metadata", !.who = p]]
    /\ UNCHANGED <<lapsed, mapping, members, adding, sweep, overlooked, joined>>

\* A request that is approved gives access and asks nothing of Metabase.
ApproveAccess(p) ==
    /\ GrantRight(p)
    /\ UNCHANGED <<lapsed, mapping, members, adding, request, sweep, overlooked, joined>>

\* GrantMetabaseAccess.  Without a mapping there is nothing to do; while it is
\* being made the caller gets an error (RequestFails).
GrantMetabaseAccess(c) ==
    /\ RequestAt(c, "grant", "metadata")
    /\ mapping # "unsynced"
    /\ IF mapping = "none" THEN EndRequest(c) ELSE RequestGoto(c, "group")
    /\ UNCHANGED <<rights, lapsed, mapping, members, adding, sweep, overlooked, joined>>

\* mutant: any member will do
SomeMemberExists(p) == members # {}

memberExists(p) == p \in members

\* The grant is told that p is a member, and nobody has an older row of p.
Answered(p) ==
    IF HasAccess(p) /\ ~ Leaving(p) /\ \A i \in sweep.left : rights[i].who # p
    THEN joined \cup {p} ELSE joined

\* addMetabaseGroupMember reads the metadata again, and the group.
addMetabaseGroupMember(c) ==
    /\ RequestAt(c, "grant", "group")
    /\ IF mapping # "none" /\ ~ memberExists(request[c].who)
       THEN RequestGoto(c, "add") /\ UNCHANGED joined
       ELSE EndRequest(c) /\ joined' = IF mapping = "none" THEN joined ELSE Answered(request[c].who)
    /\ UNCHANGED <<rights, lapsed, mapping, members, adding, sweep, overlooked>>

\* Metabase refuses a user that it does not know, a group that is gone, and a
\* membership that there is already (RequestFails).
AddPermissionGroupMember(c) ==
    /\ RequestAt(c, "grant", "add")
    /\ mapping # "none"
    /\ HasUser(request[c].who) /\ ~ memberExists(request[c].who)
    /\ Join(request[c].who)
    /\ joined' = Answered(request[c].who)
    /\ EndRequest(c)
    /\ UNCHANGED <<rights, lapsed, mapping, adding, sweep>>

-----------------------------------------------------------------------------
(* RevokeAccessToDataset *)

\* The row is read whatever its state; who asks is not looked at before the
\* last step.
RevokeAccess(c, i, may) ==
    /\ request[c] = NoRequest
    /\ rights[i].state # "none"
    /\ request' = [request EXCEPT ![c] = [step |-> "metadata", op |-> "revoke",
                                          who |-> rights[i].who, id |-> i, may |-> may]]
    /\ joined' = joined \ {rights[i].who}
    /\ UNCHANGED <<rights, lapsed, mapping, members, adding, sweep, overlooked>>

RevokeMetabaseAccess(c) ==
    /\ RequestAt(c, "revoke", "metadata")
    /\ mapping # "unsynced"
    /\ RequestGoto(c, IF mapping = "none" THEN "access" ELSE "group")
    /\ UNCHANGED <<rights, lapsed, mapping, members, adding, sweep, overlooked, joined>>

removeMetabaseGroupMember(c) ==
    /\ RequestAt(c, "revoke", "group")
    /\ mapping # "none"
    /\ RequestGoto(c, IF memberExists(request[c].who) THEN "remove" ELSE "access")
    /\ UNCHANGED <<rights, lapsed, mapping, members, adding, sweep, overlooked, joined>>

RemovePermissionGroupMember(c) ==
    /\ RequestAt(c, "revoke", "remove")
    /\ members' = members \ {request[c].who}
    /\ request' = [x \in MemberCalls |->
         IF x = c THEN [request[c] EXCEPT !.step = "access"]
         ELSE Outdated(request[x], {request[c].who})]
    /\ sweep' = Outdated(sweep, {request[c].who})
    /\ UNCHANGED <<rights, lapsed, mapping, adding, overlooked, joined>>

\* The access service has the guard: the owner, or whose access it is.
RevokeRight(c) ==
    /\ RequestAt(c, "revoke", "access")
    /\ request[c].may
    /\ rights' = [rights EXCEPT ![request[c].id].state = "revoked"]
    /\ EndRequest(c)
    /\ UNCHANGED <<lapsed, mapping, members, adding, sweep, overlooked, joined>>

\* An error of any call, a refusal, a number that is no membership any more
RequestFails(c) ==
    /\ request[c] # NoRequest
    /\ EndRequest(c)
    /\ UNCHANGED <<rights, lapsed, mapping, members, adding, sweep, overlooked, joined>>

-----------------------------------------------------------------------------
(* The ensurer *)

Lapse(i) ==
    /\ rights[i].state = "active"
    /\ i \notin lapsed
    /\ lapsed' = lapsed \cup {i}
    /\ UNCHANGED <<rights, mapping, members, adding, request, sweep, overlooked, joined>>

GetUnrevokedExpiredAccess ==
    /\ sweep = NoSweep
    /\ LET found == {i \in lapsed : rights[i].state = "active"}
       IN /\ found # {}
          /\ sweep' = [left |-> found, step |-> "next", who |-> Nobody]
          /\ joined' = joined \ {rights[i].who : i \in found}
    /\ UNCHANGED <<rights, lapsed, mapping, members, adding, request, overlooked>>

\* IAM, then the row.  A row that fails is skipped, for the next pass.
EnsurerRevokes(i) ==
    /\ sweep.step = "next" /\ i \in sweep.left
    /\ \/ /\ rights' = [rights EXCEPT ![i].state = "revoked"]
          /\ sweep' = [left |-> sweep.left \ {i}, step |-> "metadata", who |-> rights[i].who]
       \/ /\ sweep' = [sweep EXCEPT !.left = @ \ {i}]
          /\ UNCHANGED rights
    /\ UNCHANGED <<lapsed, mapping, members, adding, request, overlooked, joined>>

NextRow == sweep' = [sweep EXCEPT !.step = "next", !.who = Nobody]

\* mutant: Metabase is not asked
EnsurerSkips ==
    /\ sweep.step = "metadata"
    /\ mapping = "synced"
    /\ NextRow
    /\ UNCHANGED <<rights, lapsed, mapping, members, adding, request, overlooked, joined>>

EnsurerReads ==
    /\ sweep.step = "metadata"
    /\ mapping # "unsynced"
    /\ IF mapping = "none" THEN NextRow ELSE sweep' = [sweep EXCEPT !.step = "group"]
    /\ UNCHANGED <<rights, lapsed, mapping, members, adding, request, overlooked, joined>>

EnsurerLooks ==
    /\ sweep.step = "group"
    /\ mapping # "none"
    /\ IF memberExists(sweep.who) THEN sweep' = [sweep EXCEPT !.step = "remove"] ELSE NextRow
    /\ UNCHANGED <<rights, lapsed, mapping, members, adding, request, overlooked, joined>>

EnsurerRemoves ==
    /\ sweep.step = "remove"
    /\ members' = members \ {sweep.who}
    /\ NextRow
    /\ request' = [x \in MemberCalls |-> Outdated(request[x], {sweep.who})]
    /\ UNCHANGED <<rights, lapsed, mapping, adding, overlooked, joined>>

\* The row is revoked: no later pass will list it.
EnsurerFails ==
    /\ sweep.who # Nobody
    /\ overlooked' = overlooked \cup {sweep.who}
    /\ NextRow
    /\ UNCHANGED <<rights, lapsed, mapping, members, adding, request, joined>>

\* The pass is over, or the pod stops.
EnsurerRests ==
    /\ sweep # NoSweep
    /\ overlooked' = overlooked \cup ({sweep.who} \ {Nobody})
    /\ sweep' = NoSweep
    /\ UNCHANGED <<rights, lapsed, mapping, members, adding, request, joined>>

-----------------------------------------------------------------------------
(* The mapper *)

\* The first mapping makes a group with nobody in it, whoever has access.
FirstMapping ==
    /\ mapping = "none"
    /\ mapping' = "unsynced"
    /\ UNCHANGED <<rights, lapsed, members, adding, request, sweep, overlooked, joined>>

\* grantAccessesOnCreation: a mapping that is asked for again, or whose last
\* step has failed
grantAccessesOnCreation ==
    /\ mapping # "none"
    /\ ~ adding.work
    /\ adding' = [work |-> TRUE, left |-> {p \in People : HasAccess(p)}]
    /\ UNCHANGED <<rights, lapsed, mapping, members, request, sweep, overlooked, joined>>

MapperAdds(p) ==
    /\ p \in adding.left
    /\ mapping # "none"
    /\ HasUser(p) \/ memberExists(p)
    /\ IF memberExists(p) THEN UNCHANGED <<members, overlooked>> ELSE Join(p)
    /\ adding' = [adding EXCEPT !.left = @ \ {p}]
    /\ UNCHANGED <<rights, lapsed, mapping, request, sweep, joined>>

MapperEnds ==
    /\ adding.work
    /\ adding' = [work |-> FALSE, left |-> {}]
    /\ UNCHANGED <<rights, lapsed, mapping, members, request, sweep, overlooked, joined>>

SetSyncCompleted ==
    /\ mapping = "unsynced"
    /\ mapping' = "synced"
    /\ UNCHANGED <<rights, lapsed, members, adding, request, sweep, overlooked, joined>>

\* deleteRestrictedDatabase, by another pod's mapper perhaps
RemoveMapping ==
    /\ mapping # "none"
    /\ mapping' = "none"
    /\ members' = {}
    /\ joined' = {}
    /\ request' = [x \in MemberCalls |->
         IF request[x].step = "add" THEN [request[x] EXCEPT !.step = "gone"]
         ELSE Outdated(request[x], members)]
    /\ sweep' = Outdated(sweep, members)
    /\ UNCHANGED <<rights, lapsed, adding, overlooked>>

MembersNext ==
    \/ \E p \in People : ApproveAccess(p) \/ MapperAdds(p)
    \/ \E c \in MemberCalls :
         \/ \E p \in People : GrantAccess(c, p)
         \/ GrantMetabaseAccess(c) \/ addMetabaseGroupMember(c) \/ AddPermissionGroupMember(c)
         \/ \E i \in AccessIds, may \in BOOLEAN : RevokeAccess(c, i, may)
         \/ RevokeMetabaseAccess(c) \/ removeMetabaseGroupMember(c)
         \/ RemovePermissionGroupMember(c) \/ RevokeRight(c) \/ RequestFails(c)
    \/ \E i \in AccessIds : Lapse(i) \/ EnsurerRevokes(i)
    \/ GetUnrevokedExpiredAccess \/ EnsurerReads \/ EnsurerLooks \/ EnsurerRemoves
    \/ EnsurerFails \/ EnsurerRests
    \/ FirstMapping \/ grantAccessesOnCreation \/ MapperEnds \/ SetSyncCompleted \/ RemoveMapping

MembersSpec == MembersInit /\ [][MembersNext]_membersVars

-----------------------------------------------------------------------------
(* Properties *)

\* Every variable has its type.
MembersTypeOK ==
    /\ rights \in [AccessIds -> Right]
    /\ lapsed \subseteq AccessIds
    /\ mapping \in {"none", "unsynced", "synced"}
    /\ members \subseteq Known
    /\ adding \in [work : BOOLEAN, left : SUBSET People]
    /\ request \in [MemberCalls -> Request]
    /\ sweep \in Sweep
    /\ overlooked \subseteq People
    /\ joined \subseteq People

\* Who is in the group has access to the dataset, unless a revocation is under
\* way, the ensurer has failed in Metabase after it had revoked the row, or
\* somebody added them on what an older list or row said: every other path
\* that takes access away takes the membership too.
MembersHaveAccess ==
    \A p \in members : HasAccess(p) \/ Leaving(p) \/ p \in overlooked

\* Who was granted access with success while the dataset is in Metabase stays
\* in the group, until the mapping goes, a revocation of theirs is asked for
\* (a refused one does it too) or the ensurer lists an access of theirs.
GrantedAreMembers == joined \subseteq members
=============================================================================
