--------------------------- MODULE MetabaseProofs ----------------------------
(*****************************************************************************)
(* Theorems about the service accounts, the members of permission groups and *)
(* the collections of Metabase, for any number of each and of those at work  *)
(* on them.                                                                  *)
(*****************************************************************************)
EXTENDS ServiceAccounts, MetabaseMembers, MetabaseCollections, TLAPS

(* Service accounts *)

\* The steps of a mapper on its way to unbind an account
Unbinding == {"unbindRead", "unbind", "deleteAccount"}

\* A mapper at work is at work on an account.
AtWork == {x \in Mapper : x.step # "idle" => x.on \in Accounts}

MappersTyped == mapper \in [Mappers -> AtWork]

\* An etag that Google still takes was read with the policy that is there.
EtagIsCurrent == \A m \in Mappers : mapper[m].etag => mapper[m].read = bound

\* Nobody unbinds an account that is to stay bound.
NoneIsDoomed ==
  \A m \in Mappers : mapper[m].step \in Unbinding => mapper[m].on \notin secured

\* The other variables have their types.
RestTyped ==
  /\ exists \subseteq Accounts
  /\ bound \subseteq Accounts
  /\ keys \in [Accounts -> SUBSET Keys]
  /\ credential \in [Accounts -> Keys \cup {NoKey}]
  /\ recorded \subseteq Accounts
  /\ secured \subseteq Accounts
  /\ retried \subseteq Accounts

\* The inductive invariant
AccountsInv == MappersTyped /\ RestTyped /\ EtagIsCurrent /\ NoneIsDoomed /\ BindingsAreKept

-----------------------------------------------------------------------------
(* Records *)

\* A mapper that waits for work.
LEMMA NoMapperTyped == NoMapper \in AtWork
  BY DEF NoMapper, AtWork, Mapper, MapperSteps

\* A mapper that only goes on keeps all it holds.
LEMMA GotoTyped ==
  ASSUME NEW x \in AtWork, x.step # "idle", NEW s \in MapperSteps, NEW y,
         y = [x EXCEPT !.step = s]
  PROVE  y \in AtWork /\ y.step = s /\ y.on = x.on /\ y.etag = x.etag /\ y.read = x.read
  BY DEF AtWork, Mapper

\* A mapper that has deleted a key has fewer to delete.
LEMMA ForgetTyped ==
  ASSUME NEW x \in AtWork, NEW y, NEW old \in SUBSET Keys,
         y = [x EXCEPT !.old = old]
  PROVE  y \in AtWork /\ y.step = x.step /\ y.on = x.on /\ y.etag = x.etag /\ y.read = x.read
  BY DEF AtWork, Mapper

\* The etag of an idle mapper may be lost, too.
LEMMA EtagTyped ==
  ASSUME NEW x \in AtWork
  PROVE  [x EXCEPT !.etag = FALSE] \in AtWork
  BY DEF AtWork, Mapper

\* A mapper that begins has an account to work on.
LEMMA BeginTyped ==
  ASSUME NEW a \in Accounts, NEW s \in MapperSteps
  PROVE  [NoMapper EXCEPT !.step = s, !.on = a] \in AtWork
  BY DEF NoMapper, AtWork, Mapper, MapperSteps

-----------------------------------------------------------------------------
(* What a step may do to what mappers and the policy have to do with each  *)
(* other                                                                   *)

\* The mapper m is now x; the others are what they were.
Becomes(m, x) == mapper' = [mapper EXCEPT ![m] = x]

\* A step of one mapper that leaves the policy alone keeps the invariants, if
\* it neither takes an etag nor turns to unbinding.
LEMMA PolicyLeftAlone ==
  ASSUME AccountsInv, NEW m \in Mappers, NEW x \in AtWork, Becomes(m, x),
         UNCHANGED <<bound, secured>>,
         x.etag => x.read = bound,
         x.step \in Unbinding => x.on \notin secured
  PROVE  MappersTyped' /\ EtagIsCurrent' /\ NoneIsDoomed' /\ BindingsAreKept'
  BY DEF AccountsInv, Becomes, MappersTyped, EtagIsCurrent, NoneIsDoomed, BindingsAreKept

\* Before the first mapping the invariant holds.
LEMMA AccountsStart == AccountsInit => AccountsInv
<1> SUFFICES ASSUME AccountsInit PROVE AccountsInv
  OBVIOUS
<1>1. MappersTyped
  BY NoMapperTyped DEF AccountsInit, MappersTyped
<1>2. RestTyped
  BY DEF AccountsInit, RestTyped
<1>3. EtagIsCurrent /\ NoneIsDoomed /\ BindingsAreKept
  BY DEF AccountsInit, EtagIsCurrent, NoneIsDoomed, BindingsAreKept, NoMapper, Unbinding
<1> QED BY <1>1, <1>2, <1>3 DEF AccountsInv

-----------------------------------------------------------------------------
(* The writes of the policy *)

\* A write takes every etag, and what it was made from was there.
LEMMA WriteKeeps ==
  ASSUME AccountsInv, NEW m \in Mappers, mapper[m].step # "idle",
         NEW policy, NEW s \in MapperSteps, WritePolicy(m, policy, s)
  PROVE  /\ MappersTyped'
         /\ EtagIsCurrent'
         /\ mapper[m].read = bound
         /\ bound' = policy
         /\ \A x \in Mappers : mapper'[x].on = mapper[x].on
         /\ \A x \in Mappers \ {m} : mapper'[x].step = mapper[x].step
         /\ mapper'[m].step = s
<1>1. mapper \in [Mappers -> AtWork]
  BY DEF AccountsInv, MappersTyped
<1>2. \A x \in Mappers : mapper'[x] \in AtWork
  <2>1. mapper'[m] = [mapper[m] EXCEPT !.step = s, !.read = {}, !.etag = FALSE]
    BY DEF WritePolicy
  <2>2. mapper'[m] \in AtWork
    <3>1. mapper[m] \in AtWork /\ {} \in SUBSET Accounts /\ FALSE \in BOOLEAN
      BY <1>1
    <3> QED BY <2>1, <3>1 DEF AtWork, Mapper
  <2>3. \A x \in Mappers \ {m} : mapper'[x] \in AtWork
    BY <1>1, EtagTyped DEF WritePolicy
  <2> QED BY <2>2, <2>3
<1>3. \A x \in Mappers : mapper'[x].etag = FALSE
  BY <1>1 DEF WritePolicy, AtWork, Mapper
<1>4. MappersTyped'
  BY <1>2 DEF WritePolicy, MappersTyped
<1>5. EtagIsCurrent'
  BY <1>3 DEF EtagIsCurrent
<1>6. mapper[m].read = bound /\ bound' = policy
  BY DEF AccountsInv, EtagIsCurrent, WritePolicy
<1>7. /\ \A x \in Mappers : mapper'[x].on = mapper[x].on
      /\ \A x \in Mappers \ {m} : mapper'[x].step = mapper[x].step
      /\ mapper'[m].step = s
  BY <1>1 DEF WritePolicy, AtWork, Mapper
<1> QED BY <1>4, <1>5, <1>6, <1>7

\* A write of the policy that takes out nobody who is to stay, and after which
\* nobody else is, keeps the invariant.
LEMMA PolicyWritten ==
  ASSUME AccountsInv, NEW m \in Mappers, mapper[m].step # "idle",
         NEW policy, NEW s \in MapperSteps, WritePolicy(m, policy, s),
         secured' \subseteq policy,
         \A x \in Mappers \ {m} : mapper[x].step \in Unbinding => mapper[x].on \notin secured',
         s \in Unbinding => mapper[m].on \notin secured'
  PROVE  MappersTyped' /\ EtagIsCurrent' /\ NoneIsDoomed' /\ BindingsAreKept'
<1>1. NoneIsDoomed'
  BY WriteKeeps DEF NoneIsDoomed
<1>2. BindingsAreKept'
  BY WriteKeeps DEF BindingsAreKept
<1> QED BY <1>1, <1>2, WriteKeeps

-----------------------------------------------------------------------------
(* Every step *)

\* Every step of every mapper keeps the invariant.
LEMMA AccountsStep ==
  ASSUME AccountsInv, AccountsNext \/ UNCHANGED accountsVars
  PROVE  AccountsInv'
<1> DEFINE Kept == MappersTyped' /\ EtagIsCurrent' /\ NoneIsDoomed' /\ BindingsAreKept'
<1>a. /\ mapper \in [Mappers -> AtWork]
      /\ RestTyped
      /\ \A m \in Mappers : mapper[m].etag => mapper[m].read = bound
      /\ \A m \in Mappers : mapper[m].step \in Unbinding => mapper[m].on \notin secured
      /\ secured \subseteq bound
  BY DEF AccountsInv, MappersTyped, EtagIsCurrent, NoneIsDoomed, BindingsAreKept
<1>b. \A m \in Mappers : mapper[m].step # "idle" => mapper[m].on \in Accounts
  BY <1>a DEF AtWork
<1>c. /\ NoMapper.etag = FALSE
      /\ NoMapper.step \notin Unbinding
  BY DEF NoMapper, Unbinding
<1>d. ASSUME NEW m \in Mappers, EndMapper(m), UNCHANGED <<bound, secured>>
      PROVE  Kept
  BY <1>c, <1>d, NoMapperTyped, PolicyLeftAlone DEF EndMapper, Becomes
<1>e. ASSUME NEW m \in Mappers, mapper[m].step # "idle", NEW s \in MapperSteps,
             s \in Unbinding => mapper[m].step \in Unbinding,
             MapperGoto(m, s), UNCHANGED <<bound, secured>>
      PROVE  Kept
  <2> DEFINE x == [mapper[m] EXCEPT !.step = s]
  <2>1. x \in AtWork /\ x.etag = mapper[m].etag /\ x.read = mapper[m].read
        /\ x.step = s /\ x.on = mapper[m].on
    BY <1>a, <1>e, GotoTyped
  <2>2. Becomes(m, x)
    BY <1>e DEF MapperGoto, Becomes
  <2> HIDE DEF x
  <2> QED BY <1>a, <1>e, <2>1, <2>2, PolicyLeftAlone
<1>f. ASSUME NEW m \in Mappers, mapper[m].step # "idle", NEW s \in MapperSteps,
             s \in Unbinding => mapper[m].step \in Unbinding,
             ReadPolicy(m, s), UNCHANGED <<bound, secured>>
      PROVE  Kept
  <2> DEFINE x == [mapper[m] EXCEPT !.step = s, !.read = bound, !.etag = TRUE]
  <2>1. x \in AtWork /\ x.read = bound /\ x.step = s /\ x.on = mapper[m].on
    <3>1. mapper[m] \in AtWork /\ bound \in SUBSET Accounts /\ TRUE \in BOOLEAN
      BY <1>a DEF RestTyped
    <3> QED BY <1>f, <3>1 DEF AtWork, Mapper
  <2>2. Becomes(m, x)
    BY <1>f DEF ReadPolicy, Becomes
  <2> HIDE DEF x
  <2> QED BY <1>a, <1>f, <2>1, <2>2, PolicyLeftAlone
<1>1. CASE UNCHANGED accountsVars
  BY <1>1 DEF accountsVars, AccountsInv, MappersTyped, RestTyped, EtagIsCurrent,
              NoneIsDoomed, BindingsAreKept
<1>2. ASSUME NEW m \in Mappers, NEW a \in Accounts,
             EnsureServiceAccountWithKeyAndBinding(m, a)
      PROVE  AccountsInv'
  <2> DEFINE x == [NoMapper EXCEPT !.step = "account", !.on = a]
  <2>1. x \in AtWork /\ x.etag = FALSE /\ x.step \notin Unbinding
    BY BeginTyped DEF NoMapper, MapperSteps, Unbinding
  <2>2. Becomes(m, x) /\ UNCHANGED <<bound, secured>>
    BY <1>2 DEF EnsureServiceAccountWithKeyAndBinding, Becomes
  <2> HIDE DEF x
  <2>3. Kept
    BY <2>1, <2>2, PolicyLeftAlone
  <2>4. RestTyped'
    BY <1>a, <1>2 DEF EnsureServiceAccountWithKeyAndBinding, RestTyped
  <2> QED BY <2>3, <2>4 DEF AccountsInv
<1>3. ASSUME NEW m \in Mappers, NEW a \in Accounts,
             DeleteServiceAccountAndBindings(m, a)
      PROVE  AccountsInv'
  <2> DEFINE x == [NoMapper EXCEPT !.step = "unbindRead", !.on = a]
  <2>1. x \in AtWork /\ x.etag = FALSE /\ x.on = a
    BY BeginTyped DEF NoMapper, MapperSteps
  <2>2. mapper' = [mapper EXCEPT ![m] = x] /\ secured' = secured \ {a} /\ bound' = bound
    BY <1>3 DEF DeleteServiceAccountAndBindings
  <2> HIDE DEF x
  <2>3. MappersTyped' /\ EtagIsCurrent' /\ NoneIsDoomed' /\ BindingsAreKept'
    BY <1>a, <2>1, <2>2 DEF MappersTyped, EtagIsCurrent, NoneIsDoomed, BindingsAreKept
  <2>4. RestTyped'
    BY <1>a, <1>3 DEF DeleteServiceAccountAndBindings, RestTyped
  <2> QED BY <2>3, <2>4 DEF AccountsInv
<1>4. ASSUME NEW m \in Mappers, ensureServiceAccountExists(m)
      PROVE  AccountsInv'
  <2>1. Kept
    BY <1>4, <1>e DEF ensureServiceAccountExists, MapperAt, MapperSteps, Unbinding
  <2>2. RestTyped'
    BY <1>a, <1>b, <1>4 DEF ensureServiceAccountExists, MapperAt, CreateServiceAccount, RestTyped
  <2> QED BY <2>1, <2>2 DEF AccountsInv
<1>5. ASSUME NEW m \in Mappers, GetProjectPolicy(m)
      PROVE  AccountsInv'
  <2>1. Kept
    BY <1>5, <1>f DEF GetProjectPolicy, MapperAt, MapperSteps, Unbinding
  <2>2. RestTyped'
    BY <1>a, <1>5 DEF GetProjectPolicy, RestTyped
  <2> QED BY <2>1, <2>2 DEF AccountsInv
<1>6. ASSUME NEW m \in Mappers, AddProjectServiceAccountPolicyBinding(m)
      PROVE  AccountsInv'
  <2> DEFINE a == mapper[m].on
             busy == \E x \in BusyOnAccount(a) :
                       mapper[x].step \in {"unbindRead", "unbind", "deleteAccount"}
  <2>1. /\ mapper[m].step = "setPolicy" /\ a \in Accounts /\ mapper[m].read = bound
        /\ WritePolicy(m, bound \cup {a}, "listKeys")
        /\ secured' = IF busy THEN secured ELSE secured \cup {a}
    BY <1>a, <1>b, <1>6 DEF AddProjectServiceAccountPolicyBinding, MapperAt, WritePolicy
  <2>2. \A x \in Mappers : mapper[x].step \in Unbinding => busy \/ mapper[x].on # a
    BY DEF BusyOnAccount, Unbinding
  <2> HIDE DEF a, busy
  <2>3. \A x \in Mappers \ {m} : mapper[x].step \in Unbinding => mapper[x].on \notin secured'
    BY <1>a, <2>1, <2>2
  <2>4. Kept
    BY <1>a, <2>1, <2>3, PolicyWritten DEF MapperSteps, Unbinding
  <2>5. RestTyped'
    BY <1>a, <1>6, <2>1 DEF AddProjectServiceAccountPolicyBinding, WritePolicy, RestTyped
  <2> QED BY <2>4, <2>5 DEF AccountsInv
<1>7. ASSUME NEW m \in Mappers, ListServiceAccountKeys(m)
      PROVE  AccountsInv'
  <2> DEFINE x == [mapper[m] EXCEPT !.step = "deleteKeys", !.old = keys[mapper[m].on]]
  <2>1. mapper[m].step = "listKeys" /\ keys[mapper[m].on] \in SUBSET Keys
    BY <1>a, <1>b, <1>7 DEF ListServiceAccountKeys, MapperAt, RestTyped
  <2>2. x \in AtWork /\ x.etag = mapper[m].etag /\ x.read = mapper[m].read
        /\ x.step \notin Unbinding
    <3>1. "deleteKeys" \in MapperSteps \ Unbinding /\ mapper[m] \in AtWork
          /\ mapper[m].step # "idle"
      BY <1>a, <2>1 DEF MapperSteps, Unbinding
    <3> QED BY <2>1, <3>1 DEF AtWork, Mapper
  <2>3. Becomes(m, x) /\ UNCHANGED <<bound, secured>>
    BY <1>7 DEF ListServiceAccountKeys, Becomes
  <2> HIDE DEF x
  <2>4. Kept
    BY <1>a, <2>2, <2>3, PolicyLeftAlone
  <2>5. RestTyped'
    BY <1>a, <1>7 DEF ListServiceAccountKeys, RestTyped
  <2> QED BY <2>4, <2>5 DEF AccountsInv
<1>8. ASSUME NEW m \in Mappers, NEW k \in Keys, DeleteServiceAccountKey(m, k)
      PROVE  AccountsInv'
  <2> DEFINE x == [mapper[m] EXCEPT !.old = mapper[m].old \ {k}]
  <2>1. mapper[m].step = "deleteKeys" /\ mapper[m].old \in SUBSET Keys
    BY <1>a, <1>8 DEF DeleteServiceAccountKey, MapperAt, AtWork, Mapper
  <2>2. x \in AtWork /\ x.etag = mapper[m].etag /\ x.read = mapper[m].read
        /\ x.step \notin Unbinding
    BY <1>a, <2>1, ForgetTyped DEF Unbinding
  <2>3. Becomes(m, x) /\ UNCHANGED <<bound, secured>>
    BY <1>8 DEF DeleteServiceAccountKey, Becomes
  <2> HIDE DEF x
  <2>4. Kept
    BY <1>a, <2>2, <2>3, PolicyLeftAlone
  <2>5. RestTyped'
    BY <1>a, <1>8 DEF DeleteServiceAccountKey, RestTyped
  <2> QED BY <2>4, <2>5 DEF AccountsInv
<1>9. ASSUME NEW m \in Mappers, NEW k \in Keys, CreateServiceAccountKey(m, k)
      PROVE  AccountsInv'
  <2> DEFINE x == [mapper[m] EXCEPT !.step = "database", !.key = k]
  <2>1. x \in AtWork /\ x.etag = mapper[m].etag /\ x.read = mapper[m].read
        /\ x.step \notin Unbinding
    <3>1. "database" \in MapperSteps \ Unbinding /\ mapper[m] \in AtWork
          /\ mapper[m].step # "idle" /\ k \in Keys \cup {NoKey}
      BY <1>a, <1>9 DEF CreateServiceAccountKey, MapperAt, MapperSteps, Unbinding
    <3> QED BY <3>1 DEF AtWork, Mapper
  <2>2. Becomes(m, x) /\ UNCHANGED <<bound, secured>>
    BY <1>9 DEF CreateServiceAccountKey, Becomes
  <2> HIDE DEF x
  <2>3. Kept
    BY <1>a, <2>1, <2>2, PolicyLeftAlone
  <2>4. RestTyped'
    BY <1>a, <1>9 DEF CreateServiceAccountKey, RestTyped
  <2> QED BY <2>3, <2>4 DEF AccountsInv
<1>10. ASSUME NEW m \in Mappers, CreateDatabase(m)
       PROVE  AccountsInv'
  <2>1. Kept
    BY <1>10, <1>e DEF CreateDatabase, MapperAt, MapperSteps, Unbinding
  <2>2. mapper[m].key \in Keys \cup {NoKey}
    BY <1>a DEF AtWork, Mapper
  <2>3. RestTyped'
    BY <1>a, <1>10, <2>2 DEF CreateDatabase, RestTyped
  <2> QED BY <2>1, <2>3 DEF AccountsInv
<1>11. ASSUME NEW m \in Mappers, RecordDatabase(m)
       PROVE  AccountsInv'
  <2>1. Kept
    BY <1>11, <1>d DEF RecordDatabase
  <2>2. RestTyped'
    BY <1>a, <1>b, <1>11 DEF RecordDatabase, MapperAt, RestTyped
  <2> QED BY <2>1, <2>2 DEF AccountsInv
<1>12. ASSUME NEW m \in Mappers, UnbindRead(m)
       PROVE  AccountsInv'
  <2>1. Kept
    BY <1>12, <1>f DEF UnbindRead, MapperAt, MapperSteps, Unbinding
  <2>2. RestTyped'
    BY <1>a, <1>12 DEF UnbindRead, RestTyped
  <2> QED BY <2>1, <2>2 DEF AccountsInv
<1>13. ASSUME NEW m \in Mappers, RemoveProjectServiceAccountPolicyBinding(m)
       PROVE  AccountsInv'
  <2>1. /\ mapper[m].step = "unbind" /\ mapper[m].read = bound
        /\ WritePolicy(m, bound \ {mapper[m].on}, "deleteAccount")
        /\ secured' = secured
    BY <1>a, <1>13 DEF RemoveProjectServiceAccountPolicyBinding, MapperAt, WritePolicy
  <2>2. mapper[m].on \notin secured
    BY <1>a, <2>1 DEF Unbinding
  <2>3. Kept
    BY <1>a, <2>1, <2>2, PolicyWritten DEF MapperSteps
  <2>4. RestTyped'
    BY <1>a, <1>13, <2>1 DEF RemoveProjectServiceAccountPolicyBinding, WritePolicy, RestTyped
  <2> QED BY <2>3, <2>4 DEF AccountsInv
<1>14. ASSUME NEW m \in Mappers, DeleteServiceAccount(m)
       PROVE  AccountsInv'
  <2>1. Kept
    BY <1>14, <1>e DEF DeleteServiceAccount, MapperAt, MapperSteps, Unbinding
  <2>2. RestTyped'
    BY <1>a, <1>14 DEF DeleteServiceAccount, RestTyped
  <2> QED BY <2>1, <2>2 DEF AccountsInv
<1>15. ASSUME NEW m \in Mappers, DropDatabaseOf(m)
       PROVE  AccountsInv'
  <2>1. Kept
    BY <1>15, <1>d DEF DropDatabaseOf
  <2>2. RestTyped'
    BY <1>a, <1>15 DEF DropDatabaseOf, RestTyped
  <2> QED BY <2>1, <2>2 DEF AccountsInv
<1>16. ASSUME NEW m \in Mappers, MapperStops(m)
       PROVE  AccountsInv'
  <2>1. Kept
    BY <1>16, <1>d DEF MapperStops
  <2>2. RestTyped'
    BY <1>a, <1>16 DEF MapperStops, RestTyped
  <2> QED BY <2>1, <2>2 DEF AccountsInv
<1> QED
  BY <1>1, <1>2, <1>3, <1>4, <1>5, <1>6, <1>7, <1>8, <1>9, <1>10, <1>11, <1>12,
     <1>13, <1>14, <1>15, <1>16 DEF AccountsNext

\* Every reachable state has the right types.
THEOREM AccountsTypeCorrect == AccountsSpec => []AccountsTypeOK
<1>1. AccountsInv => AccountsTypeOK
  BY DEF AccountsInv, AccountsTypeOK, MappersTyped, RestTyped, AtWork
<1> QED BY <1>1, AccountsStart, AccountsStep, PTL DEF AccountsSpec

\* A binding in the policy of the project stays until somebody sets out to
\* remove its account: no mapper of another dataset overwrites it.
THEOREM BindingsStay == AccountsSpec => []BindingsAreKept
<1>1. AccountsInv => BindingsAreKept
  BY DEF AccountsInv
<1> QED BY <1>1, AccountsStart, AccountsStep, PTL DEF AccountsSpec

-----------------------------------------------------------------------------
(* The keys of recorded databases *)

\* The steps of a mapper that has not given a database its key yet
Making == {"account", "getPolicy", "setPolicy", "listKeys", "deleteKeys", "createKey", "database"}

\* What is true of an account that one attempt made a database for
KeyInv(a) == a \notin retried =>
  /\ \A m, x \in Mappers : mapper[m].on = a /\ mapper[x].on = a => m = x
  /\ a \in recorded => credential[a] \in keys[a] \/ a \notin exists
  /\ \A m \in Mappers : mapper[m].on = a =>
       /\ mapper[m].step \in Making => a \notin recorded /\ credential[a] = NoKey
       /\ mapper[m].step = "database" => mapper[m].key \in keys[a]
       /\ mapper[m].step = "record" => credential[a] \in keys[a]
       /\ mapper[m].step = "deleteDatabase" => a \notin exists

\* The mapper m goes on with its account, or ends; the others are what they were.
Moves(m, s, k) ==
  /\ mapper'[m].on = mapper[m].on /\ mapper'[m].step = s /\ mapper'[m].key = k
  /\ \A x \in Mappers \ {m} : /\ mapper'[x].on = mapper[x].on
                              /\ mapper'[x].step = mapper[x].step
                              /\ mapper'[x].key = mapper[x].key

Ends(m) ==
  /\ mapper'[m].on = NoKey
  /\ \A x \in Mappers \ {m} : mapper'[x] = mapper[x]

\* A step of a mapper says nothing of the accounts of others.
LEMMA OtherAccounts ==
  ASSUME NEW b \in Accounts, KeyInv(b), NEW m \in Mappers, mapper[m].on # b,
         (\E s, k : Moves(m, s, k)) \/ Ends(m),
         b \in retried' <=> b \in retried,
         b \in recorded' <=> b \in recorded,
         b \in exists' <=> b \in exists,
         credential'[b] = credential[b], keys'[b] = keys[b]
  PROVE  KeyInv(b)'
<1>1. \A x \in Mappers : mapper'[x].on = b =>
         /\ mapper[x].on = b /\ mapper'[x].step = mapper[x].step
         /\ mapper'[x].key = mapper[x].key
  BY AccountsAssumption DEF Moves, Ends
<1> QED BY <1>1 DEF KeyInv

\* A mapper that only goes on
LEMMA GoesOn ==
  ASSUME AccountsInv, NEW m \in Mappers, NEW s, MapperGoto(m, s)
  PROVE  Moves(m, s, mapper[m].key)
<1>1. mapper \in [Mappers -> AtWork]
  BY DEF AccountsInv, MappersTyped
<1> QED BY <1>1 DEF MapperGoto, Moves, AtWork, Mapper

LEMMA ReadsOn ==
  ASSUME AccountsInv, NEW m \in Mappers, NEW s, ReadPolicy(m, s)
  PROVE  Moves(m, s, mapper[m].key)
<1>1. mapper \in [Mappers -> AtWork]
  BY DEF AccountsInv, MappersTyped
<1> QED BY <1>1 DEF ReadPolicy, Moves, AtWork, Mapper

LEMMA WritesOn ==
  ASSUME AccountsInv, NEW m \in Mappers, NEW s, NEW policy, WritePolicy(m, policy, s)
  PROVE  Moves(m, s, mapper[m].key)
<1>1. mapper \in [Mappers -> AtWork]
  BY DEF AccountsInv, MappersTyped
<1>2. mapper'[m] = [mapper[m] EXCEPT !.step = s, !.read = {}, !.etag = FALSE]
  BY DEF WritePolicy
<1>3. \A x \in Mappers \ {m} : mapper'[x] = [mapper[x] EXCEPT !.etag = FALSE]
  BY DEF WritePolicy
<1>4. mapper'[m].on = mapper[m].on /\ mapper'[m].step = s /\ mapper'[m].key = mapper[m].key
  BY <1>1, <1>2 DEF AtWork, Mapper
<1>5. \A x \in Mappers \ {m} : /\ mapper'[x].on = mapper[x].on
                               /\ mapper'[x].step = mapper[x].step
                               /\ mapper'[x].key = mapper[x].key
  BY <1>1, <1>3 DEF AtWork, Mapper
<1> QED BY <1>4, <1>5 DEF Moves

LEMMA EndsSo ==
  ASSUME AccountsInv, NEW m \in Mappers, EndMapper(m)
  PROVE  Ends(m)
<1>1. mapper \in [Mappers -> AtWork] /\ NoMapper.on = NoKey
  BY DEF AccountsInv, MappersTyped, NoMapper
<1> QED BY <1>1 DEF EndMapper, Ends

\* A mapper with an account does something to it, and to no other.
LEMMA StepsKeepKeys ==
  ASSUME AccountsInv, \A a \in Accounts : KeyInv(a), NEW m \in Mappers, mapper[m].on \in Accounts,
         mapper[m].step # "idle",
         \/ ensureServiceAccountExists(m) \/ GetProjectPolicy(m)
         \/ AddProjectServiceAccountPolicyBinding(m) \/ ListServiceAccountKeys(m)
         \/ \E k \in Keys : DeleteServiceAccountKey(m, k) \/ CreateServiceAccountKey(m, k)
         \/ CreateDatabase(m) \/ RecordDatabase(m)
         \/ UnbindRead(m) \/ RemoveProjectServiceAccountPolicyBinding(m)
         \/ DeleteServiceAccount(m) \/ DropDatabaseOf(m)
         \/ MapperStops(m)
  PROVE  \A b \in Accounts : KeyInv(b)'
<1> DEFINE a == mapper[m].on
           Goal == \A b \in Accounts : KeyInv(b)'
<1>a. KeyInv(a) /\ RestTyped /\ mapper \in [Mappers -> AtWork]
  BY DEF AccountsInv, MappersTyped
\* where only the account itself can be disturbed
<1>b. ASSUME NEW s, NEW k, Moves(m, s, k), retried' = retried, recorded' = recorded,
             \A b \in Accounts : b # a => b \in exists' <=> b \in exists,
             \A b \in Accounts : b # a => credential'[b] = credential[b] /\ keys'[b] = keys[b],
             a \notin retried =>
               /\ a \in recorded => credential'[a] \in keys'[a] \/ a \notin exists'
               /\ s \in Making => a \notin recorded /\ credential'[a] = NoKey
               /\ s = "database" => k \in keys'[a]
               /\ s = "record" => credential'[a] \in keys'[a]
               /\ s = "deleteDatabase" => a \notin exists'
      PROVE  Goal
  <2>1. ASSUME NEW b \in Accounts, b # a
        PROVE  KeyInv(b)'
    BY <1>b, <2>1, OtherAccounts
  <2>2. ASSUME NEW b \in Accounts, b = a
        PROVE  KeyInv(b)'
    BY <1>a, <1>b, <2>2 DEF KeyInv, Moves
  <2> QED BY <2>1, <2>2
<1>c. ASSUME Ends(m), UNCHANGED <<exists, keys, credential, recorded, retried>>
      PROVE  Goal
  <2>1. ASSUME NEW b \in Accounts, b # a
        PROVE  KeyInv(b)'
    BY <1>c, <2>1, OtherAccounts
  <2>2. ASSUME NEW b \in Accounts, b = a
        PROVE  KeyInv(b)'
    <3>1. \A x \in Mappers : mapper'[x].on = b => a \in retried
      BY <1>a, <1>c, <2>2, AccountsAssumption DEF KeyInv, Ends
    <3> QED BY <1>a, <1>c, <2>2, <3>1 DEF KeyInv
  <2> QED BY <2>1, <2>2
<1>1. ASSUME ensureServiceAccountExists(m)
      PROVE  Goal
  <2>1. Moves(m, "getPolicy", mapper[m].key) /\ mapper[m].step = "account"
    BY <1>1, GoesOn DEF ensureServiceAccountExists, MapperAt
  <2>2. UNCHANGED <<keys, credential, recorded, retried>> /\ exists' = exists \cup {a}
    BY <1>1 DEF ensureServiceAccountExists, CreateServiceAccount
  <2>3. a \notin retried => a \notin recorded /\ credential[a] = NoKey
    BY <1>a, <2>1 DEF KeyInv, Making
  <2> HIDE DEF a, Goal
  <2> QED BY <1>b, <2>1, <2>2, <2>3
<1>2. ASSUME GetProjectPolicy(m)
      PROVE  Goal
  <2>1. Moves(m, "setPolicy", mapper[m].key) /\ mapper[m].step = "getPolicy"
    BY <1>2, ReadsOn DEF GetProjectPolicy, MapperAt
  <2>2. UNCHANGED <<exists, keys, credential, recorded, retried>>
    BY <1>2 DEF GetProjectPolicy
  <2>3. a \notin retried => a \notin recorded /\ credential[a] = NoKey
    BY <1>a, <2>1 DEF KeyInv, Making
  <2> HIDE DEF a, Goal
  <2> QED BY <1>b, <2>1, <2>2, <2>3
<1>3. ASSUME AddProjectServiceAccountPolicyBinding(m)
      PROVE  Goal
  <2>1. Moves(m, "listKeys", mapper[m].key) /\ mapper[m].step = "setPolicy"
    BY <1>3, WritesOn DEF AddProjectServiceAccountPolicyBinding, MapperAt
  <2>2. UNCHANGED <<exists, keys, credential, recorded, retried>>
    BY <1>3 DEF AddProjectServiceAccountPolicyBinding
  <2>3. a \notin retried => a \notin recorded /\ credential[a] = NoKey
    BY <1>a, <2>1 DEF KeyInv, Making
  <2> HIDE DEF a, Goal
  <2> QED BY <1>b, <2>1, <2>2, <2>3
<1>4. ASSUME ListServiceAccountKeys(m)
      PROVE  Goal
  <2>1. Moves(m, "deleteKeys", mapper[m].key) /\ mapper[m].step = "listKeys"
    BY <1>a, <1>4 DEF ListServiceAccountKeys, MapperAt, Moves, AtWork, Mapper
  <2>2. UNCHANGED <<exists, keys, credential, recorded, retried>>
    BY <1>4 DEF ListServiceAccountKeys
  <2>3. a \notin retried => a \notin recorded /\ credential[a] = NoKey
    BY <1>a, <2>1 DEF KeyInv, Making
  <2> HIDE DEF a, Goal
  <2> QED BY <1>b, <2>1, <2>2, <2>3
<1>5. ASSUME NEW k \in Keys, DeleteServiceAccountKey(m, k)
      PROVE  Goal
  <2>1. Moves(m, "deleteKeys", mapper[m].key) /\ mapper[m].step = "deleteKeys"
    BY <1>a, <1>5 DEF DeleteServiceAccountKey, MapperAt, Moves, AtWork, Mapper
  <2>2. /\ UNCHANGED <<exists, credential, recorded, retried>>
        /\ \A b \in Accounts : b # a => keys'[b] = keys[b]
    BY <1>a, <1>5 DEF DeleteServiceAccountKey, RestTyped
  <2>3. a \notin retried => a \notin recorded /\ credential[a] = NoKey
    BY <1>a, <2>1 DEF KeyInv, Making
  <2> HIDE DEF a, Goal
  <2> QED BY <1>b, <2>1, <2>2, <2>3
<1>6. ASSUME NEW k \in Keys, CreateServiceAccountKey(m, k)
      PROVE  Goal
  <2>1. Moves(m, "database", k) /\ mapper[m].step = "deleteKeys"
    BY <1>a, <1>6 DEF CreateServiceAccountKey, MapperAt, Moves, AtWork, Mapper
  <2>2. /\ UNCHANGED <<exists, credential, recorded, retried>>
        /\ k \in keys'[a]
        /\ \A b \in Accounts : b # a => keys'[b] = keys[b]
    BY <1>a, <1>6 DEF CreateServiceAccountKey, RestTyped
  <2>3. a \notin retried => a \notin recorded /\ credential[a] = NoKey
    BY <1>a, <2>1 DEF KeyInv, Making
  <2> HIDE DEF a, Goal
  <2> QED BY <1>b, <2>1, <2>2, <2>3
<1>7. ASSUME CreateDatabase(m)
      PROVE  Goal
  <2>1. Moves(m, "record", mapper[m].key) /\ mapper[m].step = "database"
    BY <1>7, GoesOn DEF CreateDatabase, MapperAt
  <2>2. /\ UNCHANGED <<exists, keys, recorded, retried>>
        /\ credential'[a] = IF credential[a] = NoKey THEN mapper[m].key ELSE credential[a]
        /\ \A b \in Accounts : b # a => credential'[b] = credential[b]
    BY <1>a, <1>7 DEF CreateDatabase, RestTyped
  <2>3. a \notin retried => a \notin recorded /\ credential[a] = NoKey /\ mapper[m].key \in keys[a]
    BY <1>a, <2>1 DEF KeyInv, Making
  <2>4. "record" \notin Making
    BY DEF Making
  <2> HIDE DEF a, Goal
  <2> QED BY <1>b, <2>1, <2>2, <2>3, <2>4
<1>8. ASSUME RecordDatabase(m)
      PROVE  Goal
  <2>1. /\ Ends(m) /\ mapper[m].step = "record" /\ recorded' = recorded \cup {a}
        /\ UNCHANGED <<exists, keys, credential, retried>>
    BY <1>8, EndsSo DEF RecordDatabase, MapperAt
  <2>2. ASSUME NEW b \in Accounts, b # a
        PROVE  KeyInv(b)'
    BY <2>1, <2>2, OtherAccounts
  <2>3. ASSUME NEW b \in Accounts, b = a
        PROVE  KeyInv(b)'
    <3>1. \A x \in Mappers : mapper'[x].on = b => a \in retried
      BY <1>a, <2>1, <2>3, AccountsAssumption DEF KeyInv, Ends
    <3> QED BY <1>a, <2>1, <2>3, <3>1 DEF KeyInv
  <2> QED BY <2>2, <2>3
<1>9. ASSUME UnbindRead(m)
      PROVE  Goal
  <2>1. Moves(m, "unbind", mapper[m].key)
    BY <1>9, ReadsOn DEF UnbindRead
  <2>2. UNCHANGED <<exists, keys, credential, recorded, retried>>
    BY <1>9 DEF UnbindRead
  <2>3. a \notin retried => (a \in recorded => credential[a] \in keys[a] \/ a \notin exists)
    BY <1>a DEF KeyInv
  <2>4. "unbind" \notin Making
    BY DEF Making
  <2> HIDE DEF a, Goal
  <2> QED BY <1>b, <2>1, <2>2, <2>3, <2>4
<1>10. ASSUME RemoveProjectServiceAccountPolicyBinding(m)
       PROVE  Goal
  <2>1. Moves(m, "deleteAccount", mapper[m].key)
    BY <1>10, WritesOn DEF RemoveProjectServiceAccountPolicyBinding
  <2>2. UNCHANGED <<exists, keys, credential, recorded, retried>>
    BY <1>10 DEF RemoveProjectServiceAccountPolicyBinding
  <2>3. a \notin retried => (a \in recorded => credential[a] \in keys[a] \/ a \notin exists)
    BY <1>a DEF KeyInv
  <2>4. "deleteAccount" \notin Making
    BY DEF Making
  <2> HIDE DEF a, Goal
  <2> QED BY <1>b, <2>1, <2>2, <2>3, <2>4
<1>11. ASSUME DeleteServiceAccount(m)
       PROVE  Goal
  <2>1. Moves(m, "deleteDatabase", mapper[m].key)
    BY <1>11, GoesOn DEF DeleteServiceAccount
  <2>2. /\ UNCHANGED <<credential, recorded, retried>> /\ exists' = exists \ {a}
        /\ \A b \in Accounts : b # a => keys'[b] = keys[b]
    BY <1>a, <1>11 DEF DeleteServiceAccount, RestTyped
  <2>3. "deleteDatabase" \notin Making
    BY DEF Making
  <2> HIDE DEF a, Goal
  <2> QED BY <1>b, <2>1, <2>2, <2>3
<1>12. ASSUME DropDatabaseOf(m)
       PROVE  Goal
  <2>1. /\ Ends(m) /\ mapper[m].step = "deleteDatabase"
        /\ UNCHANGED <<exists, keys>>
        /\ credential'[a] = NoKey
        /\ \A b \in Accounts : b # a => credential'[b] = credential[b]
    BY <1>a, <1>12, EndsSo DEF DropDatabaseOf, MapperAt, RestTyped
  <2>2. \/ recorded' = recorded /\ retried' = retried
        \/ recorded' = recorded \ {a} /\ retried' = retried
        \/ recorded' = recorded \ {a} /\ retried' = retried \ {a} /\ BusyOnAccount(a) = {m}
    BY <1>12 DEF DropDatabaseOf
  <2>3. ASSUME NEW b \in Accounts, b # a
        PROVE  KeyInv(b)'
    BY <2>1, <2>2, <2>3, OtherAccounts
  <2>4. ASSUME NEW b \in Accounts, b = a, a \notin retried'
        PROVE  KeyInv(b)'
    <3>1. \A x \in Mappers : mapper'[x].on # b
      BY <1>a, <2>1, <2>2, <2>4, AccountsAssumption DEF KeyInv, Ends, BusyOnAccount
    <3>2. b \in recorded' => b \notin exists'
      BY <1>a, <2>1, <2>2, <2>4 DEF KeyInv
    <3> QED BY <3>1, <3>2 DEF KeyInv
  <2>5. ASSUME NEW b \in Accounts, b = a, a \in retried'
        PROVE  KeyInv(b)'
    BY <2>5 DEF KeyInv
  <2> QED BY <2>3, <2>4, <2>5
<1>13. ASSUME MapperStops(m)
       PROVE  Goal
  BY <1>c, <1>13, EndsSo DEF MapperStops
<1> QED
  BY <1>1, <1>2, <1>3, <1>4, <1>5, <1>6, <1>7, <1>8, <1>9, <1>10, <1>11, <1>12, <1>13

\* A mapper begins on an account that it is alone with, or that is retried.
LEMMA BeginsKeepKeys ==
  ASSUME AccountsInv, \A a \in Accounts : KeyInv(a), NEW m \in Mappers, NEW a \in Accounts,
         EnsureServiceAccountWithKeyAndBinding(m, a) \/ DeleteServiceAccountAndBindings(m, a)
  PROVE  \A b \in Accounts : KeyInv(b)'
<1>1. mapper \in [Mappers -> AtWork] /\ NoMapper.on = NoKey
  BY DEF AccountsInv, MappersTyped, NoMapper
<1>2. PICK s \in {"account", "unbindRead"} :
        /\ mapper[m] = NoMapper
        /\ mapper' = [mapper EXCEPT ![m] = [NoMapper EXCEPT !.step = s, !.on = a]]
        /\ UNCHANGED <<exists, bound, keys, credential, recorded>>
        /\ retried \subseteq retried' /\ retried' \subseteq retried \cup {a}
        /\ BusyOnAccount(a) # {} => a \in retried'
        /\ s = "account" => a \notin recorded /\ (credential[a] = NoKey \/ a \in retried')
  BY DEF EnsureServiceAccountWithKeyAndBinding, DeleteServiceAccountAndBindings, NeedsAccount
<1>3. /\ mapper[m].on = NoKey /\ mapper'[m].on = a /\ mapper'[m].step = s
      /\ \A x \in Mappers \ {m} : mapper'[x] = mapper[x]
  BY <1>1, <1>2 DEF NoMapper
<1>4. ASSUME NEW b \in Accounts, b # a
      PROVE  KeyInv(b)'
  <2>1. \A x \in Mappers : mapper'[x].on = b => mapper[x].on = b /\ mapper'[x] = mapper[x]
    BY <1>3, <1>4
  <2> QED BY <1>2, <1>4, <2>1 DEF KeyInv
<1>5. KeyInv(a)'
  <2>1. SUFFICES ASSUME a \notin retried'
                 PROVE  KeyInv(a)'
    BY DEF KeyInv
  <2>2. \A x \in Mappers : mapper'[x].on = a => x = m
    BY <1>2, <1>3, <2>1 DEF BusyOnAccount
  <2>3. s \notin {"database", "record", "deleteDatabase"} /\ (s \in Making => s = "account")
    BY DEF Making
  <2> QED BY <1>2, <1>3, <2>1, <2>2, <2>3 DEF KeyInv
<1> QED BY <1>4, <1>5

\* Where one attempt has made a database, its key and its account are known.
LEMMA KeysInvariant == AccountsSpec => [](\A a \in Accounts : KeyInv(a))
<1>1. AccountsInit => \A a \in Accounts : KeyInv(a)
  BY AccountsAssumption DEF AccountsInit, KeyInv, NoMapper
<1>2. ASSUME AccountsInv, \A a \in Accounts : KeyInv(a), [AccountsNext]_accountsVars
      PROVE  (\A a \in Accounts : KeyInv(a))'
  <2>1. \A m \in Mappers : mapper[m].step # "idle" => mapper[m].on \in Accounts
    BY <1>2 DEF AccountsInv, MappersTyped, AtWork
  <2>2. CASE UNCHANGED accountsVars
    BY <1>2, <2>2 DEF accountsVars, KeyInv
  <2>3. CASE AccountsNext
    <3>1. PICK m \in Mappers :
            \/ \E a \in Accounts : \/ EnsureServiceAccountWithKeyAndBinding(m, a)
                                   \/ DeleteServiceAccountAndBindings(m, a)
            \/ ensureServiceAccountExists(m) \/ GetProjectPolicy(m)
            \/ AddProjectServiceAccountPolicyBinding(m) \/ ListServiceAccountKeys(m)
            \/ \E k \in Keys : DeleteServiceAccountKey(m, k) \/ CreateServiceAccountKey(m, k)
            \/ CreateDatabase(m) \/ RecordDatabase(m)
            \/ UnbindRead(m) \/ RemoveProjectServiceAccountPolicyBinding(m)
            \/ DeleteServiceAccount(m) \/ DropDatabaseOf(m)
            \/ MapperStops(m)
      BY <2>3 DEF AccountsNext
    <3>2. CASE \E a \in Accounts : \/ EnsureServiceAccountWithKeyAndBinding(m, a)
                                   \/ DeleteServiceAccountAndBindings(m, a)
      BY <1>2, <3>2, BeginsKeepKeys
    <3>3. CASE mapper[m].step # "idle"
      BY <1>2, <2>1, <3>1, <3>2, <3>3, StepsKeepKeys
    <3>4. CASE mapper[m].step = "idle" /\ MapperStops(m)
      <4>1. Ends(m) /\ UNCHANGED <<exists, keys, credential, recorded, retried>>
        BY <1>2, <3>4, EndsSo DEF MapperStops
      <4>2. \A b \in Accounts : \A x \in Mappers : mapper'[x].on = b =>
               mapper[x].on = b /\ mapper'[x] = mapper[x]
        BY <4>1, AccountsAssumption DEF Ends
      <4> QED BY <1>2, <4>1, <4>2 DEF KeyInv
    <3>5. mapper[m].step # "idle" \/ MapperStops(m) \/ \E a \in Accounts :
             EnsureServiceAccountWithKeyAndBinding(m, a) \/ DeleteServiceAccountAndBindings(m, a)
      BY <3>1 DEF MapperAt, ensureServiceAccountExists, GetProjectPolicy,
         AddProjectServiceAccountPolicyBinding, ListServiceAccountKeys, DeleteServiceAccountKey,
         CreateServiceAccountKey, CreateDatabase, RecordDatabase, UnbindRead,
         RemoveProjectServiceAccountPolicyBinding, DeleteServiceAccount, DropDatabaseOf
    <3> QED BY <3>2, <3>3, <3>4, <3>5
  <2> QED BY <1>2, <2>2, <2>3
<1> QED BY <1>1, <1>2, AccountsStart, AccountsStep, PTL DEF AccountsSpec

\* A recorded database has a key that works, where one attempt made it and nobody
\* is at work on it or took its account away.
THEOREM RecordedKeysWork == AccountsSpec => []RecordedKeyWorks
<1>1. AccountsInv /\ (\A a \in Accounts : KeyInv(a)) => RecordedKeyWorks
  BY DEF AccountsInv, RestTyped, KeyInv, RecordedKeyWorks
<1>2. AccountsSpec => []AccountsInv
  BY AccountsStart, AccountsStep, PTL DEF AccountsSpec
<1> QED BY <1>1, <1>2, KeysInvariant, PTL

-----------------------------------------------------------------------------
(* The members of a permission group *)

\* Who asks to revoke holds a row that exists, and knows whose it is.
RevocationsHoldRows ==
    \A c \in MemberCalls : request[c].op = "revoke" =>
        /\ request[c].id \in AccessIds
        /\ rights[request[c].id].state # "none"
        /\ rights[request[c].id].who = request[c].who

\* The rows of the ensurer's list exist, and it has somebody in hand just when
\* it is on its way to Metabase.
SweepHoldsRows ==
    /\ \A i \in sweep.left : rights[i].state # "none"
    /\ sweep.step \in {"idle", "next"} => sweep.who = Nobody

\* A group without a mapping is gone.
GroupHasMapping == mapping = "none" => members = {}

\* Who is in the group has access, or the ensurer has them in hand: handlers
\* that revoke are no excuse.
StandingMembers ==
    \A p \in members : HasAccess(p) \/ sweep.who = p \/ p \in overlooked

\* A revocation gets to the row when the group is rid of the member.
Withdrawn ==
    \A c \in MemberCalls : RequestAt(c, "revoke", "access") =>
        request[c].who \notin members \/ request[c].who \in overlooked

\* Nobody is about to take out who was told to be in.
PromisesKept ==
    \A p \in joined : ~ Leaving(p) /\ \A i \in sweep.left : rights[i].who # p

\* What is shown to stay true
MembersInv ==
    /\ MembersTypeOK
    /\ RevocationsHoldRows /\ SweepHoldsRows
    /\ GroupHasMapping /\ StandingMembers /\ Withdrawn
    /\ PromisesKept /\ GrantedAreMembers

LEMMA MembersStart == MembersInit => MembersInv
<1> SUFFICES ASSUME MembersInit PROVE MembersInv
    OBVIOUS
<1>1. PICK p \in People : rights = [i \in AccessIds |-> [who |-> p, state |-> "none"]]
    BY DEF MembersInit
<1>2. rights \in [AccessIds -> Right]
    BY <1>1 DEF Right
<1>3. NoRequest \in Request /\ NoSweep \in Sweep
    BY DEF NoRequest, NoSweep, Request, Sweep
<1>4. MembersTypeOK
    BY <1>2, <1>3 DEF MembersInit, MembersTypeOK
<1>5. /\ RevocationsHoldRows /\ SweepHoldsRows /\ GroupHasMapping /\ StandingMembers
      /\ Withdrawn /\ PromisesKept /\ GrantedAreMembers
    BY DEF MembersInit, RevocationsHoldRows, SweepHoldsRows, GroupHasMapping, StandingMembers,
           Withdrawn, PromisesKept, GrantedAreMembers, RequestAt, NoRequest, NoSweep
<1> QED BY <1>4, <1>5 DEF MembersInv

-----------------------------------------------------------------------------
(* Records *)

\* A request whose number is out of date stops before it takes anybody out.
LEMMA OutdatedRequest ==
    ASSUME NEW r \in Request, NEW gone
    PROVE  /\ Outdated(r, gone) \in Request
           /\ Outdated(r, gone).op = r.op /\ Outdated(r, gone).who = r.who
           /\ Outdated(r, gone).id = r.id
           /\ Outdated(r, gone).step = "access" <=> r.step = "access"
BY DEF Outdated, Request

\* So does a sweep.
LEMMA OutdatedSweep ==
    ASSUME NEW gone, sweep \in Sweep
    PROVE  /\ Outdated(sweep, gone) \in Sweep
           /\ Outdated(sweep, gone).left = sweep.left /\ Outdated(sweep, gone).who = sweep.who
           /\ Outdated(sweep, gone).step \in {"idle", "next"} <=> sweep.step \in {"idle", "next"}
BY DEF Outdated, Sweep

\* The next row.
LEMMA NextRowOf ==
    ASSUME sweep \in Sweep, NextRow
    PROVE  /\ sweep' \in Sweep
           /\ sweep'.left = sweep.left /\ sweep'.who = Nobody
BY DEF NextRow, Sweep

\* A step of the handler.
LEMMA RequestGoes ==
    ASSUME request \in [MemberCalls -> Request], NEW c \in MemberCalls,
           NEW s \in {"group", "add", "remove", "access"}, RequestGoto(c, s)
    PROVE  /\ request' \in [MemberCalls -> Request]
           /\ \A x \in MemberCalls \ {c} : request'[x] = request[x]
           /\ request'[c].op = request[c].op /\ request'[c].who = request[c].who
           /\ request'[c].id = request[c].id /\ request'[c].step = s
<1> DEFINE r == [request[c] EXCEPT !.step = s]
<1>1. r \in Request /\ r.op = request[c].op /\ r.who = request[c].who
      /\ r.id = request[c].id /\ r.step = s
    BY DEF Request
<1>2. request' = [request EXCEPT ![c] = r]
    BY DEF RequestGoto
<1> HIDE DEF r
<1> QED BY <1>1, <1>2

-----------------------------------------------------------------------------
(* How rows change *)

\* A row that has been given out keeps its owner, and access ends by the two
\* steps that revoke.
RowsMoveOn ==
    /\ rights' \in [AccessIds -> Right]
    /\ \A i \in AccessIds : rights[i].state # "none" =>
          rights'[i].state # "none" /\ rights'[i].who = rights[i].who
    /\ \A p \in People : HasAccess(p) => HasAccess(p)'

LEMMA GrantKeeps ==
    ASSUME MembersTypeOK, NEW p \in People, GrantRight(p)
    PROVE  RowsMoveOn
<1>1. PICK n \in AccessIds :
        /\ rights[n].state = "none"
        /\ rights' = [j \in AccessIds |->
             IF j = n THEN [who |-> p, state |-> "active"]
             ELSE IF j \in Active(p) THEN [rights[j] EXCEPT !.state = "revoked"] ELSE rights[j]]
    BY DEF GrantRight
<1>t. rights \in [AccessIds -> Right]
    BY DEF MembersTypeOK
<1>2. \A j \in AccessIds :
        /\ rights'[j] \in Right
        /\ rights[j].state # "none" => rights'[j].state # "none" /\ rights'[j].who = rights[j].who
        /\ j # n /\ j \notin Active(p) => rights'[j] = rights[j]
  <2> TAKE j \in AccessIds
  <2>1. CASE j = n
      BY <1>1, <2>1 DEF Right
  <2>2. CASE j # n /\ j \in Active(p)
    <3>1. rights'[j] = [rights[j] EXCEPT !.state = "revoked"]
        BY <1>1, <2>2
    <3> QED BY <1>t, <2>2, <3>1 DEF Right
  <2>3. CASE j # n /\ j \notin Active(p)
      BY <1>1, <1>t, <2>3
  <2> QED BY <2>1, <2>2, <2>3
<1>3. rights' \in [AccessIds -> Right]
    BY <1>1, <1>2
<1>4. ASSUME NEW q \in People, HasAccess(q)
      PROVE  HasAccess(q)'
  <2>1. CASE q = p
    <3>1. n \in Active(p)'
        BY <1>1 DEF Active
    <3> QED BY <2>1, <3>1 DEF HasAccess
  <2>2. CASE q # p
    <3>1. PICK i \in Active(q) : TRUE
        BY <1>4 DEF HasAccess
    <3>2. i \in AccessIds /\ i # n /\ i \notin Active(p)
        BY <1>1, <2>2, <3>1 DEF Active
    <3>3. i \in Active(q)'
        BY <1>2, <3>1, <3>2 DEF Active
    <3> QED BY <3>3 DEF HasAccess
  <2> QED BY <2>1, <2>2
<1> QED BY <1>2, <1>3, <1>4 DEF RowsMoveOn

\* A row that is revoked ends the access of its owner at most.
LEMMA RevokedRow ==
    ASSUME MembersTypeOK, NEW i \in AccessIds, rights[i].state # "none",
           rights' = [rights EXCEPT ![i].state = "revoked"]
    PROVE  /\ rights' \in [AccessIds -> Right]
           /\ \A j \in AccessIds : rights[j].state # "none" =>
                 rights'[j].state # "none" /\ rights'[j].who = rights[j].who
           /\ \A p \in People : HasAccess(p) /\ p # rights[i].who => HasAccess(p)'
<1>t. rights \in [AccessIds -> Right]
    BY DEF MembersTypeOK
<1> DEFINE r == [rights[i] EXCEPT !.state = "revoked"]
<1>1. r \in Right /\ r.who = rights[i].who /\ r.state = "revoked"
    BY <1>t DEF Right
<1>2. rights' = [rights EXCEPT ![i] = r]
    BY <1>t
<1> HIDE DEF r
<1>3. /\ rights' \in [AccessIds -> Right]
      /\ rights'[i] = r /\ \A j \in AccessIds \ {i} : rights'[j] = rights[j]
    BY <1>1, <1>2, <1>t
<1>4. ASSUME NEW p \in People, HasAccess(p), p # rights[i].who
      PROVE  HasAccess(p)'
    BY <1>3, <1>4 DEF HasAccess, Active
<1> QED BY <1>1, <1>3, <1>4

\* Whose access ends, and how.
RowsMoveSo ==
    /\ rights' \in [AccessIds -> Right]
    /\ \A i \in AccessIds : rights[i].state # "none" =>
          rights'[i].state # "none" /\ rights'[i].who = rights[i].who
    /\ \A p \in People : HasAccess(p) =>
          \/ HasAccess(p)'
          \/ \E c \in MemberCalls : RevokeRight(c) /\ request[c].who = p
          \/ \E i \in AccessIds : EnsurerRevokes(i) /\ sweep'.who = p

LEMMA RowsMove ==
    ASSUME MembersInv, [MembersNext]_membersVars
    PROVE  RowsMoveSo
<1>t. MembersTypeOK /\ RevocationsHoldRows /\ SweepHoldsRows
    BY DEF MembersInv
<1>1. ASSUME NEW p \in People, GrantRight(p)
      PROVE  RowsMoveSo
    BY <1>t, <1>1, GrantKeeps DEF RowsMoveOn, RowsMoveSo
<1>2. ASSUME NEW c \in MemberCalls, RevokeRight(c)
      PROVE  RowsMoveSo
  <2>1. /\ request[c].id \in AccessIds /\ rights[request[c].id].state # "none"
        /\ rights[request[c].id].who = request[c].who
      BY <1>t, <1>2 DEF RevokeRight, RequestAt, RevocationsHoldRows
  <2>2. rights' = [rights EXCEPT ![request[c].id].state = "revoked"]
      BY <1>2 DEF RevokeRight
  <2>3. /\ rights' \in [AccessIds -> Right]
        /\ \A i \in AccessIds : rights[i].state # "none" =>
              rights'[i].state # "none" /\ rights'[i].who = rights[i].who
        /\ \A p \in People : HasAccess(p) /\ p # request[c].who => HasAccess(p)'
      BY <1>t, <2>1, <2>2, RevokedRow
  <2> QED BY <1>2, <2>3 DEF RowsMoveSo
<1>3. ASSUME NEW i \in AccessIds, EnsurerRevokes(i), rights' # rights
      PROVE  RowsMoveSo
  <2>1. /\ rights' = [rights EXCEPT ![i].state = "revoked"]
        /\ sweep'.who = rights[i].who /\ rights[i].state # "none"
      BY <1>t, <1>3 DEF EnsurerRevokes, SweepHoldsRows
  <2>2. /\ rights' \in [AccessIds -> Right]
        /\ \A j \in AccessIds : rights[j].state # "none" =>
              rights'[j].state # "none" /\ rights'[j].who = rights[j].who
        /\ \A p \in People : HasAccess(p) /\ p # sweep'.who => HasAccess(p)'
      BY <1>t, <2>1, RevokedRow
  <2> QED BY <1>3, <2>2 DEF RowsMoveSo
<1>4. CASE UNCHANGED rights
    BY <1>t, <1>4 DEF MembersTypeOK, HasAccess, Active, RowsMoveSo
<1>5. \/ \E p \in People : GrantRight(p)
      \/ \E c \in MemberCalls : RevokeRight(c)
      \/ \E i \in AccessIds : EnsurerRevokes(i) /\ rights' # rights
      \/ UNCHANGED rights
    BY DEF MembersNext, membersVars, ApproveAccess, MapperAdds, GrantAccess, GrantMetabaseAccess,
        addMetabaseGroupMember, AddPermissionGroupMember, RevokeAccess, RevokeMetabaseAccess,
        removeMetabaseGroupMember, RemovePermissionGroupMember, RequestFails, Lapse,
        GetUnrevokedExpiredAccess, EnsurerReads, EnsurerLooks, EnsurerRemoves, EnsurerFails,
        EnsurerRests, FirstMapping, grantAccessesOnCreation, MapperEnds, SetSyncCompleted,
        RemoveMapping
<1> QED BY <1>1, <1>2, <1>3, <1>4, <1>5

-----------------------------------------------------------------------------
(* How requests move *)

\* A request keeps what it holds; it comes to revoke the row only when the
\* group is rid of the member.
RequestsMoveSo ==
    /\ request' \in [MemberCalls -> Request]
    /\ \A c \in MemberCalls : request'[c].op = "revoke" =>
          \/ /\ request[c].op = "revoke"
             /\ request'[c].who = request[c].who /\ request'[c].id = request[c].id
             /\ request'[c].step = "access" =>
                   request[c].step = "access" \/ request[c].who \notin members'
          \/ \E i \in AccessIds :
                /\ rights[i].state # "none" /\ UNCHANGED <<rights, members, sweep>>
                /\ request'[c].id = i /\ request'[c].who = rights[i].who
                /\ request'[c].step = "metadata"
                /\ joined' = joined \ {rights[i].who}

LEMMA RequestsMove ==
    ASSUME MembersInv, [MembersNext]_membersVars
    PROVE  RequestsMoveSo
<1>t. /\ request \in [MemberCalls -> Request] /\ rights \in [AccessIds -> Right]
      /\ \A c \in MemberCalls : request[c] \in Request
      /\ \A i \in AccessIds : rights[i].who \in People
      /\ GroupHasMapping
    BY DEF MembersInv, MembersTypeOK, Right
<1>n. NoRequest \in Request /\ NoRequest.op = "grant"
    BY DEF NoRequest, Request
<1>1. ASSUME NEW c \in MemberCalls, NEW p \in People, GrantAccess(c, p)
      PROVE  RequestsMoveSo
  <2> DEFINE r == [NoRequest EXCEPT !.step = "metadata", !.who = p]
  <2>1. r \in Request /\ r.op = "grant"
      BY DEF NoRequest, Request
  <2>2. request' = [request EXCEPT ![c] = r]
      BY <1>1 DEF GrantAccess
  <2> HIDE DEF r
  <2> QED BY <1>t, <2>1, <2>2 DEF RequestsMoveSo
<1>2. ASSUME NEW c \in MemberCalls, EndRequest(c)
      PROVE  RequestsMoveSo
    BY <1>t, <1>n, <1>2 DEF EndRequest, RequestsMoveSo
<1>3. ASSUME NEW c \in MemberCalls, NEW s \in {"group", "add", "remove", "access"},
             RequestGoto(c, s),
             request[c].op = "revoke" /\ s = "access" => request[c].who \notin members'
      PROVE  RequestsMoveSo
  <2>1. /\ request' \in [MemberCalls -> Request]
        /\ \A x \in MemberCalls \ {c} : request'[x] = request[x]
        /\ request'[c].op = request[c].op /\ request'[c].who = request[c].who
        /\ request'[c].id = request[c].id /\ request'[c].step = s
      BY <1>t, <1>3, RequestGoes
  <2> QED BY <1>3, <2>1 DEF RequestsMoveSo
<1>4. ASSUME NEW c \in MemberCalls, GrantMetabaseAccess(c)
      PROVE  RequestsMoveSo
    BY <1>2, <1>3, <1>4 DEF GrantMetabaseAccess, RequestAt
<1>5. ASSUME NEW c \in MemberCalls, addMetabaseGroupMember(c)
      PROVE  RequestsMoveSo
    BY <1>2, <1>3, <1>5 DEF addMetabaseGroupMember, RequestAt
<1>6. ASSUME NEW c \in MemberCalls,
             AddPermissionGroupMember(c) \/ RevokeRight(c) \/ RequestFails(c)
      PROVE  RequestsMoveSo
    BY <1>2, <1>6 DEF AddPermissionGroupMember, RevokeRight, RequestFails
<1>7. ASSUME NEW c \in MemberCalls, NEW i \in AccessIds, NEW may \in BOOLEAN,
             RevokeAccess(c, i, may)
      PROVE  RequestsMoveSo
  <2> DEFINE r == [step |-> "metadata", op |-> "revoke", who |-> rights[i].who,
                   id |-> i, may |-> may]
  <2>1. r \in Request /\ r.op = "revoke" /\ r.who = rights[i].who /\ r.id = i
        /\ r.step = "metadata"
      BY <1>t DEF Request
  <2>2. /\ request' = [request EXCEPT ![c] = r]
        /\ rights[i].state # "none" /\ UNCHANGED <<rights, members, sweep>>
        /\ joined' = joined \ {rights[i].who}
      BY <1>7 DEF RevokeAccess
  <2> HIDE DEF r
  <2> QED BY <1>t, <2>1, <2>2 DEF RequestsMoveSo
<1>8. ASSUME NEW c \in MemberCalls, RevokeMetabaseAccess(c)
      PROVE  RequestsMoveSo
  <2>1. mapping = "none" => request[c].who \notin members'
      BY <1>t, <1>8 DEF RevokeMetabaseAccess, GroupHasMapping
  <2> QED BY <1>3, <1>8, <2>1 DEF RevokeMetabaseAccess
<1>9. ASSUME NEW c \in MemberCalls, removeMetabaseGroupMember(c)
      PROVE  RequestsMoveSo
    BY <1>3, <1>9 DEF removeMetabaseGroupMember, memberExists
<1>10. ASSUME NEW c \in MemberCalls, RemovePermissionGroupMember(c)
       PROVE  RequestsMoveSo
  <2> DEFINE r == [request[c] EXCEPT !.step = "access"]
  <2>1. /\ r \in Request /\ r.op = request[c].op /\ r.who = request[c].who
        /\ r.id = request[c].id
      BY <1>t DEF Request
  <2>2. /\ request' = [x \in MemberCalls |-> IF x = c THEN r
                         ELSE Outdated(request[x], {request[c].who})]
        /\ request[c].who \notin members'
      BY <1>10 DEF RemovePermissionGroupMember
  <2>3. \A x \in MemberCalls :
          LET o == Outdated(request[x], {request[c].who})
          IN o \in Request /\ o.op = request[x].op /\ o.who = request[x].who
             /\ o.id = request[x].id /\ (o.step = "access" <=> request[x].step = "access")
      BY <1>t, OutdatedRequest
  <2> HIDE DEF r
  <2> QED BY <2>1, <2>2, <2>3 DEF RequestsMoveSo
<1>11. CASE EnsurerRemoves
  <2>1. request' = [x \in MemberCalls |-> Outdated(request[x], {sweep.who})]
      BY <1>11 DEF EnsurerRemoves
  <2>2. \A x \in MemberCalls :
          LET o == Outdated(request[x], {sweep.who})
          IN o \in Request /\ o.op = request[x].op /\ o.who = request[x].who
             /\ o.id = request[x].id /\ (o.step = "access" <=> request[x].step = "access")
      BY <1>t, OutdatedRequest
  <2> QED BY <2>1, <2>2 DEF RequestsMoveSo
<1>12. CASE RemoveMapping
  <2> DEFINE o(x) == IF request[x].step = "add" THEN [request[x] EXCEPT !.step = "gone"]
                     ELSE Outdated(request[x], members)
  <2>1. request' = [x \in MemberCalls |-> o(x)]
      BY <1>12 DEF RemoveMapping
  <2>2. \A x \in MemberCalls :
          /\ o(x) \in Request /\ o(x).op = request[x].op /\ o(x).who = request[x].who
          /\ o(x).id = request[x].id /\ (o(x).step = "access" => request[x].step = "access")
    <3> TAKE x \in MemberCalls
    <3>1. CASE request[x].step = "add"
        BY <1>t, <3>1 DEF Request
    <3>2. CASE request[x].step # "add"
        BY <1>t, <3>2, OutdatedRequest
    <3> QED BY <3>1, <3>2
  <2> HIDE DEF o
  <2> QED BY <2>1, <2>2 DEF RequestsMoveSo
<1>13. CASE UNCHANGED request
    BY <1>t, <1>13 DEF RequestsMoveSo
<1>14. MembersNext \/ UNCHANGED request
    BY DEF membersVars
<1>15. \/ UNCHANGED request \/ EnsurerRemoves \/ RemoveMapping
       \/ \E c \in MemberCalls :
            \/ \E p \in People : GrantAccess(c, p)
            \/ GrantMetabaseAccess(c) \/ addMetabaseGroupMember(c) \/ AddPermissionGroupMember(c)
            \/ \E i \in AccessIds, may \in BOOLEAN : RevokeAccess(c, i, may)
            \/ RevokeMetabaseAccess(c) \/ removeMetabaseGroupMember(c)
            \/ RemovePermissionGroupMember(c) \/ RevokeRight(c) \/ RequestFails(c)
    BY <1>14 DEF MembersNext, ApproveAccess, MapperAdds, Lapse, EnsurerRevokes,
        GetUnrevokedExpiredAccess, EnsurerReads, EnsurerLooks, EnsurerFails,
        EnsurerRests, FirstMapping, grantAccessesOnCreation, MapperEnds, SetSyncCompleted
<1> QED BY <1>1, <1>4, <1>5, <1>6, <1>7, <1>8, <1>9, <1>10, <1>11, <1>12, <1>13, <1>15

-----------------------------------------------------------------------------
(* How the group and the sweep move *)

\* Who joins has access and is about to lose it to nobody, or is on record;
\* nobody else gets in, and no record is lost.
GroupMovesSo ==
    /\ members' \subseteq Known /\ overlooked' \subseteq People
    /\ overlooked \subseteq overlooked'
    /\ mapping' = "none" => members' = {}
    /\ \A p \in members' \ members :
          /\ UNCHANGED <<rights, sweep>>
          /\ p \in overlooked' \/ (HasAccess(p) /\ ~ Leaving(p))

LEMMA GroupMoves ==
    ASSUME MembersInv, [MembersNext]_membersVars
    PROVE  GroupMovesSo
<1> USE MembersAssumption
<1>t. /\ members \subseteq Known /\ overlooked \subseteq People /\ GroupHasMapping
      /\ sweep.who \in People \cup {Nobody}
    BY DEF MembersInv, MembersTypeOK, Sweep
<1>1. ASSUME NEW c \in MemberCalls, AddPermissionGroupMember(c)
      PROVE  GroupMovesSo
    BY <1>t, <1>1 DEF AddPermissionGroupMember, Join, HasUser, GroupMovesSo
<1>2. ASSUME NEW p \in People, MapperAdds(p)
      PROVE  GroupMovesSo
    BY <1>t, <1>2 DEF MapperAdds, Join, HasUser, GroupMovesSo, GroupHasMapping
<1>3. ASSUME NEW c \in MemberCalls, RemovePermissionGroupMember(c)
      PROVE  GroupMovesSo
    BY <1>t, <1>3 DEF RemovePermissionGroupMember, GroupMovesSo, GroupHasMapping
<1>4. CASE EnsurerRemoves
    BY <1>t, <1>4 DEF EnsurerRemoves, GroupMovesSo, GroupHasMapping
<1>5. CASE RemoveMapping
    BY <1>t, <1>5 DEF RemoveMapping, GroupMovesSo
<1>6. CASE EnsurerFails \/ EnsurerRests
    BY <1>t, <1>6 DEF EnsurerFails, EnsurerRests, GroupMovesSo, GroupHasMapping
<1>7. CASE UNCHANGED <<members, overlooked>> /\ (mapping' = "none" => mapping = "none")
    BY <1>t, <1>7 DEF GroupMovesSo, GroupHasMapping
<1> QED BY <1>1, <1>2, <1>3, <1>4, <1>5, <1>6, <1>7
    DEF MembersNext, membersVars, ApproveAccess, GrantAccess, GrantMetabaseAccess,
        addMetabaseGroupMember, RevokeAccess, RevokeMetabaseAccess,
        removeMetabaseGroupMember, RevokeRight, RequestFails, Lapse, EnsurerRevokes,
        GetUnrevokedExpiredAccess, EnsurerReads, EnsurerLooks,
        FirstMapping, grantAccessesOnCreation, MapperEnds, SetSyncCompleted

\* The ensurer lets go of somebody who is out of the group or on record, and
\* takes in hand whose row it has just revoked.
SweepMovesSo ==
    /\ sweep' \in Sweep
    /\ sweep'.step \in {"idle", "next"} => sweep'.who = Nobody
    /\ sweep.who # Nobody /\ sweep'.who # sweep.who =>
          sweep.who \notin members' \/ sweep.who \in overlooked'
    /\ sweep'.who # Nobody /\ sweep'.who # sweep.who =>
          \E i \in sweep.left : sweep'.who = rights[i].who /\ UNCHANGED joined
    /\ \/ sweep'.left \subseteq sweep.left
       \/ /\ \A i \in sweep'.left : rights[i].state # "none"
          /\ joined' = joined \ {rights[i].who : i \in sweep'.left}
          /\ UNCHANGED rights

LEMMA SweepMoves ==
    ASSUME MembersInv, [MembersNext]_membersVars
    PROVE  SweepMovesSo
<1> USE MembersAssumption
<1>t. /\ sweep \in Sweep /\ rights \in [AccessIds -> Right] /\ lapsed \subseteq AccessIds
      /\ GroupHasMapping /\ SweepHoldsRows
    BY DEF MembersInv, MembersTypeOK
<1>n. NoSweep \in Sweep /\ NoSweep.who = Nobody /\ NoSweep.left = {}
    BY DEF NoSweep, Sweep
<1>1. CASE GetUnrevokedExpiredAccess
  <2> DEFINE found == {i \in lapsed : rights[i].state = "active"}
             s == [left |-> found, step |-> "next", who |-> Nobody]
  <2>1. s \in Sweep /\ s.left = found /\ s.who = Nobody
      BY <1>t DEF Sweep
  <2>2. /\ sweep' = s /\ sweep = NoSweep /\ UNCHANGED rights
        /\ joined' = joined \ {rights[i].who : i \in found}
      BY <1>1 DEF GetUnrevokedExpiredAccess
  <2>3. \A i \in found : rights[i].state # "none"
      OBVIOUS
  <2> HIDE DEF s, found
  <2> QED BY <1>n, <2>1, <2>2, <2>3 DEF SweepMovesSo
<1>2. ASSUME NEW i \in AccessIds, EnsurerRevokes(i)
      PROVE  SweepMovesSo
  <2>1. rights[i].who \in People /\ sweep.step = "next" /\ i \in sweep.left /\ sweep.who = Nobody
        /\ UNCHANGED joined
      BY <1>t, <1>2 DEF EnsurerRevokes, Right, SweepHoldsRows
  <2>2. CASE sweep' = [left |-> sweep.left \ {i}, step |-> "metadata", who |-> rights[i].who]
    <3>1. sweep' \in Sweep
        BY <1>t, <2>1, <2>2 DEF Sweep
    <3> QED BY <2>1, <2>2, <3>1 DEF SweepMovesSo
  <2>3. CASE sweep' = [sweep EXCEPT !.left = @ \ {i}]
    <3>1. /\ sweep' \in Sweep /\ sweep'.left = sweep.left \ {i}
          /\ sweep'.step = sweep.step /\ sweep'.who = sweep.who
        BY <1>t, <2>3 DEF Sweep
    <3> QED BY <2>1, <3>1 DEF SweepMovesSo
  <2> QED BY <1>2, <2>2, <2>3 DEF EnsurerRevokes
<1>3. ASSUME NextRow, sweep.who \notin members' \/ sweep.who \in overlooked'
      PROVE  SweepMovesSo
  <2>1. sweep' \in Sweep /\ sweep'.left = sweep.left /\ sweep'.who = Nobody
      BY <1>t, <1>3, NextRowOf
  <2> QED BY <1>3, <2>1 DEF SweepMovesSo
<1>4. ASSUME NEW s \in {"group", "remove"}, sweep' = [sweep EXCEPT !.step = s],
             sweep.step \notin {"idle", "next"}
      PROVE  SweepMovesSo
  <2>1. sweep' \in Sweep /\ sweep'.left = sweep.left /\ sweep'.who = sweep.who /\ sweep'.step = s
      BY <1>t, <1>4 DEF Sweep
  <2> QED BY <2>1 DEF SweepMovesSo
<1>5. CASE EnsurerReads
    BY <1>t, <1>3, <1>4, <1>5 DEF EnsurerReads, GroupHasMapping
<1>6. CASE EnsurerLooks
    BY <1>3, <1>4, <1>6 DEF EnsurerLooks, memberExists
<1>7. CASE EnsurerRemoves
    BY <1>3, <1>7 DEF EnsurerRemoves
<1>8. CASE EnsurerFails
    BY <1>3, <1>8 DEF EnsurerFails
<1>9. CASE EnsurerRests
    BY <1>n, <1>9 DEF EnsurerRests, SweepMovesSo
<1>10. ASSUME NEW gone, sweep' = Outdated(sweep, gone)
       PROVE  SweepMovesSo
  <2>1. /\ sweep' \in Sweep /\ sweep'.left = sweep.left /\ sweep'.who = sweep.who
        /\ sweep'.step \in {"idle", "next"} <=> sweep.step \in {"idle", "next"}
      BY <1>t, <1>10, OutdatedSweep
  <2> QED BY <1>t, <2>1 DEF SweepMovesSo, SweepHoldsRows
<1>11. ASSUME NEW c \in MemberCalls, RemovePermissionGroupMember(c)
       PROVE  SweepMovesSo
    BY <1>10, <1>11 DEF RemovePermissionGroupMember
<1>12. CASE RemoveMapping
    BY <1>10, <1>12 DEF RemoveMapping
<1>13. CASE UNCHANGED sweep
    BY <1>t, <1>13 DEF SweepMovesSo, SweepHoldsRows
<1>14. \/ GetUnrevokedExpiredAccess \/ EnsurerReads \/ EnsurerLooks \/ EnsurerRemoves
       \/ EnsurerFails \/ EnsurerRests \/ RemoveMapping \/ UNCHANGED sweep
       \/ \E i \in AccessIds : EnsurerRevokes(i)
       \/ \E c \in MemberCalls : RemovePermissionGroupMember(c)
    BY DEF MembersNext, membersVars, ApproveAccess, MapperAdds, GrantAccess, GrantMetabaseAccess,
        addMetabaseGroupMember, AddPermissionGroupMember, RevokeAccess, RevokeMetabaseAccess,
        removeMetabaseGroupMember, RevokeRight, RequestFails, Lapse,
        FirstMapping, grantAccessesOnCreation, MapperEnds, SetSyncCompleted
<1> QED BY <1>1, <1>2, <1>5, <1>6, <1>7, <1>8, <1>9, <1>11, <1>12, <1>13, <1>14

-----------------------------------------------------------------------------
(* How promises move *)

\* Who is told to be in is in, and nobody is about to take them out.  Who is
\* taken out was not told so.
PromisesMoveSo ==
    /\ \A p \in joined' \ joined :
          /\ p \in members' /\ ~ Leaving(p)
          /\ \A i \in sweep.left : rights[i].who # p
          /\ UNCHANGED <<rights, sweep>>
          /\ \A c \in MemberCalls : request'[c].op = "revoke" => request[c].op = "revoke"
    /\ \A p \in members \ members' : Leaving(p) \/ joined' = {}

LEMMA PromisesMove ==
    ASSUME MembersInv, [MembersNext]_membersVars
    PROVE  PromisesMoveSo
<1>t. request \in [MemberCalls -> Request]
    BY DEF MembersInv, MembersTypeOK
<1>1. ASSUME NEW c \in MemberCalls, EndRequest(c) \/ RequestGoto(c, "add")
      PROVE  \A x \in MemberCalls : request'[x].op = "revoke" => request[x].op = "revoke"
  <2>1. CASE EndRequest(c)
      BY <1>t, <2>1 DEF EndRequest, NoRequest
  <2>2. CASE RequestGoto(c, "add")
      BY <1>t, <2>2, RequestGoes
  <2> QED BY <1>1, <2>1, <2>2
<1>2. ASSUME NEW c \in MemberCalls, addMetabaseGroupMember(c)
      PROVE  PromisesMoveSo
    BY <1>1, <1>2 DEF addMetabaseGroupMember, Answered, memberExists, PromisesMoveSo
<1>3. ASSUME NEW c \in MemberCalls, AddPermissionGroupMember(c)
      PROVE  PromisesMoveSo
    BY <1>1, <1>3 DEF AddPermissionGroupMember, Join, Answered, PromisesMoveSo
<1>4. ASSUME NEW c \in MemberCalls, RemovePermissionGroupMember(c)
      PROVE  PromisesMoveSo
    BY <1>4 DEF RemovePermissionGroupMember, RequestAt, Leaving, PromisesMoveSo
<1>5. CASE EnsurerRemoves
    BY <1>5 DEF EnsurerRemoves, Leaving, PromisesMoveSo
<1>6. CASE RemoveMapping
    BY <1>6 DEF RemoveMapping, PromisesMoveSo
<1>7. CASE joined' \subseteq joined /\ members \subseteq members'
    BY <1>7 DEF PromisesMoveSo
<1> QED BY <1>2, <1>3, <1>4, <1>5, <1>6, <1>7
    DEF MembersNext, membersVars, ApproveAccess, MapperAdds, Join, GrantAccess, GrantMetabaseAccess,
        RevokeAccess, RevokeMetabaseAccess,
        removeMetabaseGroupMember, RevokeRight, RequestFails, Lapse, EnsurerRevokes,
        GetUnrevokedExpiredAccess, EnsurerReads, EnsurerLooks, EnsurerFails, EnsurerRests,
        FirstMapping, grantAccessesOnCreation, MapperEnds, SetSyncCompleted

-----------------------------------------------------------------------------
(* The invariant *)

LEMMA MembersTyped ==
    ASSUME MembersInv, [MembersNext]_membersVars
    PROVE  MembersTypeOK'
<1>t. MembersTypeOK
    BY DEF MembersInv
<1>1. rights' \in [AccessIds -> Right]
    BY RowsMove DEF RowsMoveSo
<1>2. request' \in [MemberCalls -> Request]
    BY RequestsMove DEF RequestsMoveSo
<1>3. members' \subseteq Known /\ overlooked' \subseteq People
    BY GroupMoves DEF GroupMovesSo
<1>4. sweep' \in Sweep
    BY SweepMoves DEF SweepMovesSo
<1>5. joined' \subseteq People
    BY <1>t, <1>3, PromisesMove, MembersAssumption DEF PromisesMoveSo, MembersTypeOK
<1>6. lapsed' \subseteq AccessIds /\ mapping' \in {"none", "unsynced", "synced"}
      /\ adding' \in [work : BOOLEAN, left : SUBSET People]
  <2>1. CASE grantAccessesOnCreation
      BY <1>t, <2>1 DEF grantAccessesOnCreation, MembersTypeOK
  <2>2. CASE MapperEnds
      BY <1>t, <2>2 DEF MapperEnds, MembersTypeOK
  <2>3. ASSUME NEW p \in People, MapperAdds(p)
        PROVE  adding' \in [work : BOOLEAN, left : SUBSET People] /\ UNCHANGED <<lapsed, mapping>>
      BY <1>t, <2>3 DEF MapperAdds, MembersTypeOK
  <2>4. CASE UNCHANGED adding
    <3>1. lapsed' \subseteq AccessIds /\ mapping' \in {"none", "unsynced", "synced"}
        BY <1>t DEF MembersTypeOK, MembersNext, membersVars, ApproveAccess, MapperAdds, GrantAccess,
            GrantMetabaseAccess, addMetabaseGroupMember, AddPermissionGroupMember,
            RevokeAccess, RevokeMetabaseAccess, RemovePermissionGroupMember,
            removeMetabaseGroupMember, RevokeRight, RequestFails, Lapse, EnsurerRevokes,
            GetUnrevokedExpiredAccess, EnsurerReads, EnsurerLooks, EnsurerRemoves, EnsurerFails,
            EnsurerRests, FirstMapping, grantAccessesOnCreation, MapperEnds, SetSyncCompleted,
            RemoveMapping
    <3> QED BY <1>t, <2>4, <3>1 DEF MembersTypeOK
  <2>5. \/ grantAccessesOnCreation \/ MapperEnds \/ UNCHANGED adding
        \/ \E p \in People : MapperAdds(p)
      BY DEF MembersNext, membersVars, ApproveAccess, GrantAccess, GrantMetabaseAccess,
          addMetabaseGroupMember, AddPermissionGroupMember,
          RevokeAccess, RevokeMetabaseAccess, RemovePermissionGroupMember,
          removeMetabaseGroupMember, RevokeRight, RequestFails, Lapse, EnsurerRevokes,
          GetUnrevokedExpiredAccess, EnsurerReads, EnsurerLooks, EnsurerRemoves, EnsurerFails,
          EnsurerRests, FirstMapping, SetSyncCompleted, RemoveMapping
  <2> QED BY <1>t, <2>1, <2>2, <2>3, <2>4, <2>5 DEF MembersTypeOK, grantAccessesOnCreation, MapperEnds
<1> QED BY <1>1, <1>2, <1>3, <1>4, <1>5, <1>6 DEF MembersTypeOK

\* Rows that are held stay whose they were.
LEMMA HoldsStay ==
    ASSUME MembersInv, [MembersNext]_membersVars
    PROVE  RevocationsHoldRows' /\ SweepHoldsRows' /\ GroupHasMapping'
<1>1. RevocationsHoldRows /\ SweepHoldsRows /\ sweep' \in Sweep /\ sweep \in Sweep
    BY SweepMoves DEF MembersInv, MembersTypeOK, SweepMovesSo
<1>2. \A i \in AccessIds : rights[i].state # "none" =>
          rights'[i].state # "none" /\ rights'[i].who = rights[i].who
    BY RowsMove DEF RowsMoveSo
<1>3. RevocationsHoldRows'
    BY <1>1, <1>2, RequestsMove DEF RequestsMoveSo, RevocationsHoldRows
<1>4. \A i \in sweep'.left : i \in AccessIds /\ rights[i].state # "none"
    BY <1>1, SweepMoves DEF SweepMovesSo, SweepHoldsRows, Sweep
<1>5. SweepHoldsRows'
    BY <1>2, <1>4, SweepMoves DEF SweepMovesSo, SweepHoldsRows
<1>6. GroupHasMapping'
    BY GroupMoves DEF GroupMovesSo, GroupHasMapping
<1> QED BY <1>3, <1>5, <1>6

\* Who is in the group still has a reason to be.
LEMMA MembersStand ==
    ASSUME MembersInv, [MembersNext]_membersVars
    PROVE  StandingMembers' /\ Withdrawn'
<1>t. /\ StandingMembers /\ Withdrawn /\ members \subseteq People /\ Nobody \notin People
      /\ members' \subseteq People /\ overlooked \subseteq overlooked'
    BY MembersAssumption, GroupMoves
       DEF MembersInv, MembersTypeOK, GroupMovesSo
<1>1. ASSUME NEW p \in members'
      PROVE  HasAccess(p)' \/ sweep'.who = p \/ p \in overlooked'
  <2>1. CASE p \notin members
    <3>1. UNCHANGED rights /\ (p \in overlooked' \/ HasAccess(p))
        BY <2>1, GroupMoves DEF GroupMovesSo
    <3> QED BY <3>1 DEF HasAccess, Active
  <2>2. CASE p \in members /\ HasAccess(p)
    <3>1. \/ HasAccess(p)' \/ sweep'.who = p
          \/ \E c \in MemberCalls : RevokeRight(c) /\ request[c].who = p
        BY <1>t, <2>2, RowsMove DEF RowsMoveSo
    <3>2. ASSUME NEW c \in MemberCalls, RevokeRight(c), request[c].who = p
          PROVE  p \in overlooked
        BY <1>t, <2>2, <3>2 DEF RevokeRight, Withdrawn
    <3> QED BY <1>t, <3>1, <3>2
  <2>3. CASE p \in members /\ sweep.who = p
      BY <1>t, <2>3, SweepMoves DEF SweepMovesSo
  <2>4. CASE p \in overlooked
      BY <1>t, <2>4
  <2> QED BY <1>t, <2>1, <2>2, <2>3, <2>4 DEF StandingMembers
<1>2. ASSUME NEW c \in MemberCalls, RequestAt(c, "revoke", "access")'
      PROVE  request'[c].who \notin members' \/ request'[c].who \in overlooked'
  <2>1. /\ request[c].op = "revoke" /\ request'[c].who = request[c].who
        /\ request[c].step = "access" \/ request[c].who \notin members'
      BY <1>2, RequestsMove DEF RequestsMoveSo, RequestAt
  <2>2. Leaving(request[c].who)
      BY <2>1 DEF Leaving
  <2>3. CASE request[c].step = "access"
    <3>1. request[c].who \notin members \/ request[c].who \in overlooked
        BY <1>t, <2>1, <2>3 DEF Withdrawn, RequestAt
    <3>2. request[c].who \in members' \ members => request[c].who \in overlooked'
        BY <2>2, GroupMoves DEF GroupMovesSo
    <3> QED BY <1>t, <2>1, <3>1, <3>2
  <2> QED BY <2>1, <2>3
<1> QED BY <1>1, <1>2 DEF StandingMembers, Withdrawn

\* Who was told to be in is in, and stays.
LEMMA PromisesStay ==
    ASSUME MembersInv, [MembersNext]_membersVars
    PROVE  PromisesKept' /\ GrantedAreMembers'
<1>t. /\ PromisesKept /\ GrantedAreMembers /\ SweepHoldsRows
      /\ sweep \in Sweep /\ joined' \subseteq People /\ Nobody \notin People
    BY MembersAssumption, MembersTyped DEF MembersInv, MembersTypeOK
<1>m. PromisesMoveSo /\ SweepMovesSo /\ RequestsMoveSo /\ RowsMoveSo
    BY PromisesMove, SweepMoves, RequestsMove, RowsMove
<1> SUFFICES ASSUME NEW p \in joined'
             PROVE  p \in members' /\ ~ Leaving(p)' /\ \A i \in sweep'.left : rights'[i].who # p
    BY DEF PromisesKept, GrantedAreMembers
<1>1. ~ Leaving(p) /\ \A i \in sweep.left : rights[i].who # p
    BY <1>t, <1>m DEF PromisesMoveSo, PromisesKept
<1>2. p \in members'
    BY <1>t, <1>m, <1>1 DEF PromisesMoveSo, GrantedAreMembers
<1>3. sweep'.who # p
  <2>1. sweep.who # p /\ p # Nobody
      BY <1>t, <1>1 DEF Leaving
  <2> QED BY <1>m, <1>1, <2>1 DEF SweepMovesSo
<1>4. ASSUME NEW c \in MemberCalls, request'[c].op = "revoke"
      PROVE  request'[c].who # p
    BY <1>m, <1>1, <1>4 DEF RequestsMoveSo, Leaving
<1>5. ASSUME NEW i \in sweep'.left
      PROVE  rights'[i].who # p
  <2>1. CASE i \in sweep.left
    <3>1. i \in AccessIds /\ rights[i].state # "none"
        BY <1>t, <2>1 DEF SweepHoldsRows, Sweep
    <3> QED BY <1>m, <1>1, <2>1, <3>1 DEF RowsMoveSo
  <2>2. CASE i \notin sweep.left
      BY <1>m, <2>2 DEF SweepMovesSo
  <2> QED BY <2>1, <2>2
<1> QED BY <1>2, <1>3, <1>4, <1>5 DEF Leaving

-----------------------------------------------------------------------------
\* The parts of the invariant hold of every behaviour (handler_access.go,
\* service_metabase.go, ensurer.go).
THEOREM MembersInvariant == MembersSpec => []MembersInv
<1>1. MembersInv /\ [MembersNext]_membersVars => MembersInv'
    BY MembersTyped, HoldsStay, MembersStand, PromisesStay DEF MembersInv
<1> QED BY <1>1, MembersStart, PTL DEF MembersSpec

\* Every variable has its type.
THEOREM MembersTypeCorrect == MembersSpec => []MembersTypeOK
<1>1. MembersInv => MembersTypeOK
    BY DEF MembersInv
<1> QED BY <1>1, MembersInvariant, PTL

\* Who is in the group has access, but for a revocation under way, a failure of
\* the ensurer, or somebody who was added on what an old list said: for any
\* number of handlers, people and rows.
THEOREM NoStrangers == MembersSpec => []MembersHaveAccess
<1>1. MembersInv => MembersHaveAccess
    BY DEF MembersInv, StandingMembers, MembersHaveAccess, Leaving
<1> QED BY <1>1, MembersInvariant, PTL

\* A revocation that a handler carries out is no reason for anybody without
\* access to be in the group: only the ensurer takes the access away first.
THEOREM OnlyTheEnsurerLags == MembersSpec => []StandingMembers
<1>1. MembersInv => StandingMembers
    BY DEF MembersInv
<1> QED BY <1>1, MembersInvariant, PTL

\* Who was granted access with success is in the group until the mapping goes,
\* a revocation is asked for or the ensurer lists the access.
THEOREM GrantsShow == MembersSpec => []GrantedAreMembers
<1>1. MembersInv => GrantedAreMembers
    BY DEF MembersInv
<1> QED BY <1>1, MembersInvariant, PTL

-----------------------------------------------------------------------------
(* Collections *)

\* What a name is while it carries no second tag
TaggedAtMostOnce == {c \in Collection : c.tags < 2}

\* A name that needs a tag has one tag once it is written.
LEMMA OneTag ==
  ASSUME NEW c \in TaggedAtMostOnce, NeedsTag(c)
  PROVE  WithTag(c) \in TaggedAtMostOnce
  BY DEF TaggedAtMostOnce, NeedsTag, WithTag, Collection, Tags

\* What a syncer holds: each collection it has still to write was there when
\* it read.
Holding == {t \in [rows : SUBSET Mapped, left : SUBSET Mapped,
                   read : [Mapped -> TaggedAtMostOnce \cup {NoRow}]] :
              \A d \in t.left : t.read[d] # NoRow}

\* The invariant: the types, and no second tag in a name that is stored or held
CollectionsInv ==
  /\ metadata \in [Mapped -> MetadataRow \cup {NoRow}]
  /\ collection \in [Mapped -> TaggedAtMostOnce \cup {NoRow}]
  /\ tagging \in [Taggers -> Holding]

\* A syncer between two passes holds nothing.
LEMMA IdleHolds == IdleTagger \in Holding
  BY DEF IdleTagger, Holding

\* A syncer that is done with a collection holds the others still.
LEMMA LeftShrinks ==
  ASSUME NEW t \in Holding, NEW d
  PROVE  [t EXCEPT !.left = @ \ {d}] \in Holding
  BY DEF Holding

\* Before the first mapping nothing is held or tagged.
LEMMA CollectionsStart == CollectionsInit => CollectionsInv
  BY IdleHolds DEF CollectionsInit, CollectionsInv

\* Every step of the mapper, of people and of the syncers keeps the invariant.
LEMMA CollectionsStep ==
  ASSUME CollectionsInv, CollectionsNext \/ UNCHANGED collectionsVars
  PROVE  CollectionsInv'
<1> USE DEF CollectionsInv
<1>1. CASE UNCHANGED collectionsVars
  BY <1>1 DEF collectionsVars
<1>2. ASSUME NEW d \in Mapped, MapRestricted(d)
      PROVE  CollectionsInv'
  <2>1. ASSUME NEW n \in Names
        PROVE  [name |-> n, tags |-> 1] \in TaggedAtMostOnce
    BY DEF TaggedAtMostOnce, Collection, Tags
  <2>2. [restricted |-> TRUE, synced |-> FALSE] \in MetadataRow
    BY DEF MetadataRow
  <2> QED BY <1>2, <2>1, <2>2 DEF MapRestricted
<1>3. ASSUME NEW d \in Mapped, MapOpen(d)
      PROVE  CollectionsInv'
  <2>1. [restricted |-> FALSE, synced |-> FALSE] \in MetadataRow
    BY DEF MetadataRow
  <2> QED BY <1>3, <2>1 DEF MapOpen
<1>4. ASSUME NEW d \in Mapped, CompleteMapping(d)
      PROVE  CollectionsInv'
  <2>1. metadata[d] \in MetadataRow
    BY <1>4 DEF CompleteMapping
  <2>2. [metadata[d] EXCEPT !.synced = TRUE] \in MetadataRow
    BY <2>1 DEF MetadataRow
  <2> QED BY <1>4, <2>2 DEF CompleteMapping
<1>5. ASSUME NEW d \in Mapped, RemoveMapped(d)
      PROVE  CollectionsInv'
  BY <1>5 DEF RemoveMapped
<1>6. ASSUME NEW d \in Mapped, NEW n \in Names, NEW tags \in {0, 1},
             RenameCollection(d, n, tags)
      PROVE  CollectionsInv'
  <2>1. [name |-> n, tags |-> tags] \in TaggedAtMostOnce
    BY DEF TaggedAtMostOnce, Collection, Tags
  <2> QED BY <1>6, <2>1 DEF RenameCollection
<1>7. ASSUME NEW p \in Taggers, GetAllMetadata(p)
      PROVE  CollectionsInv'
  <2>1. ASSUME NEW rows \in SUBSET Mapped
        PROVE  [tagging[p] EXCEPT !.rows = rows] \in Holding
    BY DEF Holding
  <2> QED BY <1>7, <2>1 DEF GetAllMetadata
<1>8. ASSUME NEW p \in Taggers, GetCollections(p)
      PROVE  CollectionsInv'
  <2>1. ASSUME NEW rows \in SUBSET Mapped
        PROVE  [rows |-> {}, read |-> collection,
                left |-> {d \in rows : collection[d] # NoRow}] \in Holding
    BY DEF Holding
  <2>2. tagging[p].rows \in SUBSET Mapped
    BY DEF Holding
  <2>3. tagging' = [tagging EXCEPT ![p] =
          [rows |-> {}, read |-> collection,
           left |-> {d \in tagging[p].rows : collection[d] # NoRow}]]
    BY <1>8 DEF GetCollections
  <2>4. [rows |-> {}, read |-> collection,
         left |-> {d \in tagging[p].rows : collection[d] # NoRow}] \in Holding
    BY <2>1, <2>2
  <2>5. tagging' \in [Taggers -> Holding]
    BY <2>3, <2>4
  <2> QED BY <1>8, <2>5 DEF GetCollections
<1>9. ASSUME NEW p \in Taggers, NEW d \in Mapped, UpdateCollection(p, d)
      PROVE  CollectionsInv'
  <2>1. tagging[p].read[d] \in TaggedAtMostOnce
    BY <1>9 DEF UpdateCollection, Holding
  <2>2. collection' \in [Mapped -> TaggedAtMostOnce \cup {NoRow}]
    BY <1>9, <2>1, OneTag DEF UpdateCollection
  <2>3. tagging' \in [Taggers -> Holding]
    <3>1. [tagging[p] EXCEPT !.left = @ \ {d}] \in Holding
      BY LeftShrinks
    <3> QED BY <1>9, <3>1, IdleHolds DEF UpdateCollection
  <2> QED BY <1>9, <2>2, <2>3 DEF UpdateCollection
<1>10. ASSUME NEW p \in Taggers, TaggingEnds(p)
       PROVE  CollectionsInv'
  BY <1>10, IdleHolds DEF TaggingEnds
<1> QED
  BY <1>1, <1>2, <1>3, <1>4, <1>5, <1>6, <1>7, <1>8, <1>9, <1>10 DEF CollectionsNext

\* Every reachable state has the right types.
THEOREM CollectionsTypeCorrect == CollectionsSpec => []CollectionsTypeOK
<1>1. CollectionsInv => CollectionsTypeOK
  BY DEF CollectionsInv, CollectionsTypeOK, TaggedAtMostOnce, Holding
<1> QED BY <1>1, CollectionsStart, CollectionsStep, PTL DEF CollectionsSpec

\* The tag is never in a name twice, however many leaders write what they have
\* read before people renamed the collection.
THEOREM NamesAreTaggedOnce == CollectionsSpec => []TaggedOnce
<1>1. CollectionsInv => TaggedOnce
  BY DEF CollectionsInv, TaggedOnce, TaggedAtMostOnce
<1> QED BY <1>1, CollectionsStart, CollectionsStep, PTL DEF CollectionsSpec
==============================================================================
