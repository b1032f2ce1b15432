-------------------------- MODULE ServiceAccounts ---------------------------
(***************************************************************************)
(* The service accounts of restricted datasets (gcp_service_account.go,    *)
(* sa.go), as the mapper of Metabase uses them (service_metabase.go).      *)
(*                                                                         *)
(* Every account is bound to a role in the policy of one project, that all *)
(* mappers on all pods read, change and write back with the etag they      *)
(* read.  A mapper makes sure of account, binding and key, gives the key   *)
(* to a new database in Metabase and records the database; only a dataset  *)
(* whose database is recorded is left alone.                               *)
(***************************************************************************)
EXTENDS Naturals, FiniteSets

CONSTANTS
    Accounts,   \* one for each dataset
    Keys,       \* ids of keys
    Mappers,
    NoKey

ASSUME AccountsAssumption == NoKey \notin Keys \cup Accounts

VARIABLES
    exists,     \* Google: the accounts that there are
    bound,      \* Google: the accounts in the project's policy
    keys,       \* Google: the keys of each account
    credential, \* Metabase: the key that the database of each dataset was given
    recorded,   \* metabase_metadata: datasets whose database is recorded
    mapper,     \* what each mapper is at
    secured,    \* history: accounts that were bound, and nobody has set out to remove
    retried     \* history: datasets with more than one attempt at a database

accountsVars == <<exists, bound, keys, credential, recorded, mapper, secured, retried>>

MapperSteps == {"idle", "account", "getPolicy", "setPolicy", "listKeys", "deleteKeys",
                "createKey", "database", "record",
                "unbindRead", "unbind", "deleteAccount", "deleteDatabase"}

Mapper == [step : MapperSteps, on : Accounts \cup {NoKey}, read : SUBSET Accounts,
           etag : BOOLEAN, old : SUBSET Keys, key : Keys \cup {NoKey}]

NoMapper == [step |-> "idle", on |-> NoKey, read |-> {}, etag |-> FALSE,
             old |-> {}, key |-> NoKey]

AccountsInit ==
    /\ exists = {}
    /\ bound = {}
    /\ keys = [a \in Accounts |-> {}]
    /\ credential = [a \in Accounts |-> NoKey]
    /\ recorded = {}
    /\ mapper = [m \in Mappers |-> NoMapper]
    /\ secured = {}
    /\ retried = {}

BusyOnAccount(a) == {m \in Mappers : mapper[m].on = a}

\* Nobody can tell a new key's id from one that nobody holds any more.
FreshKeys == Keys \ (UNION {keys[a] \cup {credential[a]} : a \in Accounts}
                     \cup UNION {mapper[m].old \cup {mapper[m].key} : m \in Mappers})

MapperAt(m, step) == mapper[m].step = step
MapperGoto(m, step) == mapper' = [mapper EXCEPT ![m].step = step]
EndMapper(m) == mapper' = [mapper EXCEPT ![m] = NoMapper]

\* GetIamPolicy of the project
ReadPolicy(m, step) ==
    mapper' = [mapper EXCEPT ![m].step = step, ![m].read = bound, ![m].etag = TRUE]

\* mutant: the etag is not sent
OverwritePolicy(m, policy, step) ==
    /\ bound' = policy
    /\ mapper' = [mapper EXCEPT ![m].step = step, ![m].read = {}, ![m].etag = FALSE]

\* SetIamPolicy.  A policy that has been written since is refused
\* (MapperStops); Google merges bindings to the same role.
WritePolicy(m, policy, step) ==
    /\ mapper[m].etag
    /\ bound' = policy
    /\ mapper' = [x \in Mappers |->
         IF x = m THEN [mapper[m] EXCEPT !.step = step, !.read = {}, !.etag = FALSE]
         ELSE [mapper[x] EXCEPT !.etag = FALSE]]

-----------------------------------------------------------------------------
(* EnsureServiceAccountWithKeyAndBinding *)

\* mutant: whatever the row says
AlwaysEnsure(a) == TRUE

\* addRestrictedDatasetMapping: here be dragons
NeedsAccount(a) == a \notin recorded

EnsureServiceAccountWithKeyAndBinding(m, a) ==
    /\ mapper[m] = NoMapper
    /\ NeedsAccount(a)
    /\ mapper' = [mapper EXCEPT ![m] = [NoMapper EXCEPT !.step = "account", !.on = a]]
    /\ retried' = IF credential[a] # NoKey \/ BusyOnAccount(a) # {} THEN retried \cup {a}
                  ELSE retried
    /\ UNCHANGED <<exists, bound, keys, credential, recorded, secured>>

\* One that there is will do; one that another mapper creates first is an error.
CreateServiceAccount(a) == exists' = exists \cup {a}

ensureServiceAccountExists(m) ==
    /\ MapperAt(m, "account")
    /\ CreateServiceAccount(mapper[m].on)
    /\ MapperGoto(m, "getPolicy")
    /\ UNCHANGED <<bound, keys, credential, recorded, secured, retried>>

GetProjectPolicy(m) ==
    /\ MapperAt(m, "getPolicy")
    /\ ReadPolicy(m, "setPolicy")
    /\ UNCHANGED <<exists, bound, keys, credential, recorded, secured, retried>>

\* Google refuses a member that does not exist.
AddProjectServiceAccountPolicyBinding(m) ==
    /\ MapperAt(m, "setPolicy")
    /\ mapper[m].on \in exists
    /\ WritePolicy(m, mapper[m].read \cup {mapper[m].on}, "listKeys")
    /\ secured' = IF \E x \in BusyOnAccount(mapper[m].on) :
                         mapper[x].step \in {"unbindRead", "unbind", "deleteAccount"}
                  THEN secured ELSE secured \cup {mapper[m].on}
    /\ UNCHANGED <<exists, keys, credential, recorded, retried>>

ListServiceAccountKeys(m) ==
    /\ MapperAt(m, "listKeys")
    /\ mapper[m].on \in exists
    /\ mapper' = [mapper EXCEPT ![m].step = "deleteKeys", ![m].old = keys[mapper[m].on]]
    /\ UNCHANGED <<exists, bound, keys, credential, recorded, secured, retried>>

\* A key that somebody else has deleted is an error.
DeleteServiceAccountKey(m, k) ==
    /\ MapperAt(m, "deleteKeys")
    /\ k \in mapper[m].old \cap keys[mapper[m].on]
    /\ keys' = [keys EXCEPT ![mapper[m].on] = @ \ {k}]
    /\ mapper' = [mapper EXCEPT ![m].old = @ \ {k}]
    /\ UNCHANGED <<exists, bound, credential, recorded, secured, retried>>

CreateServiceAccountKey(m, k) ==
    /\ MapperAt(m, "deleteKeys")
    /\ mapper[m].old = {}
    /\ mapper[m].on \in exists
    /\ k \in FreshKeys
    /\ keys' = [keys EXCEPT ![mapper[m].on] = @ \cup {k}]
    /\ mapper' = [mapper EXCEPT ![m].step = "database", ![m].key = k]
    /\ UNCHANGED <<exists, bound, credential, recorded, secured, retried>>

\* CreateDatabase: a database of the dataset that there is keeps the key that
\* it has.
CreateDatabase(m) ==
    /\ MapperAt(m, "database")
    /\ credential' = [credential EXCEPT ![mapper[m].on] = IF @ = NoKey THEN mapper[m].key ELSE @]
    /\ MapperGoto(m, "record")
    /\ UNCHANGED <<exists, bound, keys, recorded, secured, retried>>

RecordDatabase(m) ==
    /\ MapperAt(m, "record")
    /\ recorded' = recorded \cup {mapper[m].on}
    /\ EndMapper(m)
    /\ UNCHANGED <<exists, bound, keys, credential, secured, retried>>

-----------------------------------------------------------------------------
(* DeleteServiceAccountAndBindings, and what the mapper does after it *)

DeleteServiceAccountAndBindings(m, a) ==
    /\ mapper[m] = NoMapper
    /\ mapper' = [mapper EXCEPT ![m] = [NoMapper EXCEPT !.step = "unbindRead", !.on = a]]
    /\ secured' = secured \ {a}
    /\ retried' = IF BusyOnAccount(a) # {} THEN retried \cup {a} ELSE retried
    /\ UNCHANGED <<exists, bound, keys, credential, recorded>>

UnbindRead(m) ==
    /\ MapperAt(m, "unbindRead")
    /\ ReadPolicy(m, "unbind")
    /\ UNCHANGED <<exists, bound, keys, credential, recorded, secured, retried>>

\* Bindings without members are dropped.
RemoveProjectServiceAccountPolicyBinding(m) ==
    /\ MapperAt(m, "unbind")
    /\ WritePolicy(m, mapper[m].read \ {mapper[m].on}, "deleteAccount")
    /\ UNCHANGED <<exists, keys, credential, recorded, secured, retried>>

\* One that does not exist will do.
DeleteServiceAccount(m) ==
    /\ MapperAt(m, "deleteAccount")
    /\ exists' = exists \ {mapper[m].on}
    /\ keys' = [keys EXCEPT ![mapper[m].on] = {}]
    /\ MapperGoto(m, "deleteDatabase")
    /\ UNCHANGED <<bound, credential, recorded, secured, retried>>

\* The database and the row go in this order, when nothing fails in between.
DropDatabaseOf(m) ==
    /\ MapperAt(m, "deleteDatabase")
    /\ credential' = [credential EXCEPT ![mapper[m].on] = NoKey]
    /\ \/ /\ recorded' = recorded \ {mapper[m].on}
          /\ retried' = IF BusyOnAccount(mapper[m].on) = {m} THEN retried \ {mapper[m].on}
                        ELSE retried
       \/ UNCHANGED <<recorded, retried>>
    /\ EndMapper(m)
    /\ UNCHANGED <<exists, bound, keys, secured>>

\* An error of any call, a timeout of the job, or the end of the pod
MapperStops(m) ==
    /\ mapper[m] # NoMapper
    /\ EndMapper(m)
    /\ UNCHANGED <<exists, bound, keys, credential, recorded, secured, retried>>

AccountsNext == \E m \in Mappers :
    \/ \E a \in Accounts : \/ EnsureServiceAccountWithKeyAndBinding(m, a)
                           \/ DeleteServiceAccountAndBindings(m, a)
    \/ ensureServiceAccountExists(m) \/ GetProjectPolicy(m)
    \/ AddProjectServiceAccountPolicyBinding(m) \/ ListServiceAccountKeys(m)
    \/ \E k \in Keys : DeleteServiceAccountKey(m, k) \/ CreateServiceAccountKey(m, k)
    \/ CreateDatabase(m) \/ RecordDatabase(m)
    \/ UnbindRead(m) \/ RemoveProjectServiceAccountPolicyBinding(m)
    \/ DeleteServiceAccount(m) \/ DropDatabaseOf(m)
    \/ MapperStops(m)

AccountsSpec == AccountsInit /\ [][AccountsNext]_accountsVars

-----------------------------------------------------------------------------
(* Properties *)

\* Every variable has its type.
AccountsTypeOK ==
    /\ exists \subseteq Accounts
    /\ bound \subseteq Accounts
    /\ keys \in [Accounts -> SUBSET Keys]
    /\ credential \in [Accounts -> Keys \cup {NoKey}]
    /\ recorded \subseteq Accounts
    /\ mapper \in [Mappers -> Mapper]
    /\ secured \subseteq Accounts
    /\ retried \subseteq Accounts

\* The binding of an account stays until somebody sets out to remove that
\* account, whatever mappers of other datasets write to the policy they share.
BindingsAreKept == secured \subseteq bound

\* A database that is recorded has a key that works, if one attempt has made it
\* and no removal is under way or has stopped half way.  A second attempt
\* deletes the key and finds the database of the first: retried is excused.
RecordedKeyWorks ==
    \A a \in recorded \ retried :
        credential[a] \in keys[a] \/ a \notin exists \/ BusyOnAccount(a) # {}
=============================================================================
