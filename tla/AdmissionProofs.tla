--------------------------- MODULE AdmissionProofs ---------------------------
(*****************************************************************************)
(* Theorems about sessions and the cache of groups, for any lifetimes, and   *)
(* about the tokens of teams, for any number of all who take part; and about *)
(* all of admission, each part of which does in module Admission only what   *)
(* its own specification allows.                                             *)
(*****************************************************************************)
EXTENDS Admission, MetabaseProofs, FiniteSetTheorems, TLAPS

(* Sessions *)

\* The clock is past every departure and every start of a request.
ClockIsAhead ==
    /\ \A d \in Directories : /\ inGroup[d] <=> left[d] = Never
                              /\ left[d] # Never => left[d] <= now
    /\ \A r \in Requests : visit[r].began <= now

\* A cached membership is no longer good than it may be acted on.
CacheIsYoung ==
    \A d \in Directories \ late : cached[d].answer =>
        IF left[d] = Never THEN cached[d].until <= now + CacheDuration
        ELSE cached[d].until <= left[d] + CacheDuration

\* What is shown to stay true
SessionsInv == SessionsTypeOK /\ ClockIsAhead /\ CacheIsYoung /\ GroupsAreCurrent

LEMMA SessionsStart == SessionsInit => SessionsInv
<1> SUFFICES ASSUME SessionsInit PROVE SessionsInv
    OBVIOUS
<1> USE SessionsAssumption DEF SessionsInit
<1>1. SessionsTypeOK
    BY DEF SessionsTypeOK, Times, Never, NoVisit, Visit
<1>2. ClockIsAhead /\ CacheIsYoung /\ GroupsAreCurrent
    BY DEF ClockIsAhead, CacheIsYoung, GroupsAreCurrent, Never, NoVisit
<1> QED BY <1>1, <1>2 DEF SessionsInv

-----------------------------------------------------------------------------
(* Types *)

\* A request that begins is credited with nothing.
LEMMA BegunVisit ==
    ASSUME NEW n \in Times
    PROVE  /\ [NoVisit EXCEPT !.step = "azure", !.began = n] \in Visit
           /\ [NoVisit EXCEPT !.step = "azure", !.began = n].began = n
           /\ [NoVisit EXCEPT !.step = "azure", !.began = n].groups = {}
BY DEF NoVisit, Visit

\* The records of requests keep their type, and none began in the future.
LEMMA VisitsTyped ==
    ASSUME SessionsInv, NEW r \in Requests,
           \/ validateUser(r) \/ EndVisit(r)
           \/ \E d \in Directories : LookUp(r, d) \/ AskDirectory(r, d) \/ StoreGroups(r, d)
    PROVE  /\ visit' \in [Requests -> Visit]
           /\ \A q \in Requests : visit'[q].began <= now
<1> USE SessionsAssumption
<1>t. visit \in [Requests -> Visit] /\ now \in Nat
      /\ \A q \in Requests : visit[q].began <= now
    BY DEF SessionsInv, SessionsTypeOK, Times, ClockIsAhead
<1>a. \A d \in Directories : /\ Ask(d) \in {"azureAsk", "googleAsk"}
                             /\ Store(d) \in {"azureStore", "googleStore"}
                             /\ After(d) \in {"google", "acts"}
    BY DEF Ask, Store, After
<1>v. visit[r] \in Visit /\ visit[r].began <= now
    BY <1>t
<1>0. \E v \in Visit : v.began <= now /\ visit' = [visit EXCEPT ![r] = v]
  <2>1. CASE validateUser(r)
    <3> DEFINE v == [NoVisit EXCEPT !.step = "azure", !.began = now]
    <3>1. visit' = [visit EXCEPT ![r] = v]
        BY <2>1 DEF validateUser
    <3>2. now \in Times
        BY DEF SessionsInv, SessionsTypeOK
    <3>3. v \in Visit /\ v.began = now
        BY <3>2, BegunVisit
    <3> HIDE DEF v
    <3>4. v.began <= now
        BY <1>t, <3>3
    <3> QED BY <3>1, <3>3, <3>4
  <2>2. CASE EndVisit(r)
    <3>1. /\ 0 \in Times /\ FALSE \in BOOLEAN /\ {} \in SUBSET Directories
          /\ 0 <= now
        BY <1>t DEF Times
    <3>2. NoVisit \in Visit /\ NoVisit.began <= now
        BY <3>1 DEF NoVisit, Visit
    <3> QED BY <2>2, <3>2 DEF EndVisit
  <2>3. ASSUME NEW d \in Directories, NEW a \in BOOLEAN, Credited(r, d, a)
        PROVE  \E v \in Visit : v.began <= now /\ visit' = [visit EXCEPT ![r] = v]
    <3> DEFINE v == [visit[r] EXCEPT !.step = After(d),
                       !.groups = IF a THEN @ \cup {d} ELSE @, !.answer = FALSE]
    <3>1. visit' = [visit EXCEPT ![r] = v]
        BY <1>t, <2>3 DEF Credited
    <3>2. v \in Visit /\ v.began <= now
        BY <1>v, <1>a DEF Visit
    <3> QED BY <3>1, <3>2
  <2>4. ASSUME NEW d \in Directories, LookUp(r, d)
        PROVE  \E v \in Visit : v.began <= now /\ visit' = [visit EXCEPT ![r] = v]
    <3>1. CASE Hit(d)
      <4>1. cached[d].answer \in BOOLEAN
          BY DEF SessionsInv, SessionsTypeOK
      <4> QED BY <2>3, <2>4, <3>1, <4>1 DEF LookUp
    <3>2. CASE ~ Hit(d)
      <4> DEFINE v == [visit[r] EXCEPT !.step = Ask(d)]
      <4>1. visit' = [visit EXCEPT ![r] = v]
          BY <1>t, <2>4, <3>2 DEF LookUp, VisitGoto
      <4>2. v \in Visit /\ v.began <= now
          BY <1>v, <1>a DEF Visit
      <4> QED BY <4>1, <4>2
    <3> QED BY <3>1, <3>2
  <2>5. ASSUME NEW d \in Directories, AskDirectory(r, d)
        PROVE  \E v \in Visit : v.began <= now /\ visit' = [visit EXCEPT ![r] = v]
    <3>1. PICK a \in IF d = "azure" THEN AzureAnswers ELSE GoogleAnswers :
            visit' = [visit EXCEPT ![r].step = Store(d), ![r].answer = a]
        BY <2>5 DEF AskDirectory
    <3>2. a \in BOOLEAN
        BY DEF AzureAnswers, GoogleAnswers, SessionsInv, SessionsTypeOK, Directories
    <3> DEFINE v == [visit[r] EXCEPT !.step = Store(d), !.answer = a]
    <3>3. visit' = [visit EXCEPT ![r] = v]
        BY <1>t, <3>1
    <3>4. v \in Visit /\ v.began <= now
        BY <1>v, <1>a, <3>2 DEF Visit
    <3> QED BY <3>3, <3>4
  <2>6. ASSUME NEW d \in Directories, StoreGroups(r, d)
        PROVE  \E v \in Visit : v.began <= now /\ visit' = [visit EXCEPT ![r] = v]
    <3>1. visit[r].answer \in BOOLEAN
        BY <1>v DEF Visit
    <3> QED BY <2>3, <2>6, <3>1 DEF StoreGroups
  <2> QED BY <2>1, <2>2, <2>4, <2>5, <2>6
<1> QED BY <1>0, <1>t

\* Every variable keeps its type.
LEMMA SessionsTyped ==
    ASSUME SessionsInv, [SessionsNext]_sessionsVars
    PROVE  SessionsTypeOK'
<1> USE SessionsAssumption
<1>t. SessionsTypeOK
    BY DEF SessionsInv
<1>1. CASE PassTime
    BY <1>t, <1>1 DEF PassTime, SessionsTypeOK, Times
<1>2. CASE Logout
    BY <1>t, <1>2 DEF Logout, SessionsTypeOK
<1>3. ASSUME NEW d \in Directories, LeaveGroup(d)
      PROVE  SessionsTypeOK'
    BY <1>t, <1>3 DEF LeaveGroup, SessionsTypeOK
<1>4. ASSUME NEW s \in States, Login(s)
      PROVE  SessionsTypeOK'
    BY <1>t, <1>4 DEF Login, SessionsTypeOK
<1>5. ASSUME NEW s \in States, CallbackRefused(s)
      PROVE  SessionsTypeOK'
    BY <1>t, <1>5 DEF CallbackRefused, SessionsTypeOK
<1>6. ASSUME NEW s \in States, NEW t \in Tokens, Callback(s, t)
      PROVE  SessionsTypeOK'
  <2>1. now + SessionLength \in 0..(MaxTime + SessionLength)
      BY <1>t DEF SessionsTypeOK, Times
  <2> QED BY <1>t, <1>6, <2>1 DEF Callback, SessionsTypeOK
<1>7. ASSUME NEW r \in Requests,
             \/ validateUser(r) \/ EndVisit(r)
             \/ \E d \in Directories : LookUp(r, d) \/ AskDirectory(r, d)
      PROVE  SessionsTypeOK'
  <2>1. visit' \in [Requests -> Visit]
      BY <1>7, VisitsTyped
  <2>2. UNCHANGED <<now, inGroup, left, cached, expires, browser, consents, late>>
      BY <1>7 DEF validateUser, EndVisit, LookUp, AskDirectory
  <2> QED BY <1>t, <2>1, <2>2 DEF SessionsTypeOK
<1>8. ASSUME NEW r \in Requests, NEW d \in Directories, StoreGroups(r, d)
      PROVE  SessionsTypeOK'
  <2>1. visit' \in [Requests -> Visit]
      BY <1>8, VisitsTyped
  <2>2. UNCHANGED <<now, inGroup, left, expires, browser, consents>>
      BY <1>8 DEF StoreGroups
  <2>3. visit[r].answer \in BOOLEAN /\ now + CacheDuration \in 0..(MaxTime + CacheDuration)
      BY <1>t DEF SessionsTypeOK, Visit, Times
  <2>4. cached' \in [Directories -> [answer : BOOLEAN, until : {Never} \cup 0..(MaxTime + CacheDuration)]]
      BY <1>t, <1>8, <2>3 DEF SessionsTypeOK, StoreGroups, SetGroups
  <2>5. late' \subseteq Directories
      BY <1>t, <1>8 DEF SessionsTypeOK, StoreGroups
  <2> QED BY <1>t, <2>1, <2>2, <2>4, <2>5 DEF SessionsTypeOK
<1>9. CASE UNCHANGED sessionsVars
    BY <1>t, <1>9 DEF sessionsVars, SessionsTypeOK
<1> QED BY <1>1, <1>2, <1>3, <1>4, <1>5, <1>6, <1>7, <1>8, <1>9 DEF SessionsNext

-----------------------------------------------------------------------------
(* The clock, the cache and the requests *)

\* The clock goes forward only, and users leave at its time.
LEMMA ClockStaysAhead ==
    ASSUME SessionsInv, [SessionsNext]_sessionsVars
    PROVE  ClockIsAhead'
<1> USE SessionsAssumption
<1>t. SessionsTypeOK /\ ClockIsAhead
    BY DEF SessionsInv
<1>n. /\ now \in Nat /\ left \in [Directories -> Int] /\ inGroup \in [Directories -> BOOLEAN]
      /\ visit \in [Requests -> Visit] /\ \A r \in Requests : visit[r].began \in Nat
    BY <1>t DEF SessionsTypeOK, Times, Never, Visit
<1>1. CASE PassTime
    BY <1>t, <1>n, <1>1 DEF PassTime, ClockIsAhead
<1>2. ASSUME NEW d \in Directories, LeaveGroup(d)
      PROVE  ClockIsAhead'
    BY <1>t, <1>n, <1>2 DEF LeaveGroup, ClockIsAhead, Never
<1>3. ASSUME NEW r \in Requests,
             \/ validateUser(r) \/ EndVisit(r)
             \/ \E d \in Directories : LookUp(r, d) \/ AskDirectory(r, d) \/ StoreGroups(r, d)
      PROVE  ClockIsAhead'
  <2>1. UNCHANGED <<now, inGroup, left>>
      BY <1>3 DEF validateUser, EndVisit, LookUp, AskDirectory, StoreGroups
  <2>2. \A q \in Requests : visit'[q].began <= now
      BY <1>3, VisitsTyped
  <2> QED BY <1>t, <2>1, <2>2 DEF ClockIsAhead
<1>4. CASE UNCHANGED <<now, inGroup, left, visit>>
    BY <1>t, <1>4 DEF ClockIsAhead
<1> QED BY <1>1, <1>2, <1>3, <1>4
        DEF SessionsNext, sessionsVars, Logout, Login, CallbackRefused, Callback

\* Only an answer that is stored makes the cache younger.
LEMMA CacheStaysYoung ==
    ASSUME SessionsInv, [SessionsNext]_sessionsVars
    PROVE  CacheIsYoung'
<1> USE SessionsAssumption
<1>t. SessionsTypeOK /\ CacheIsYoung /\ ClockIsAhead
    BY DEF SessionsInv
<1>n. /\ now \in Nat /\ left \in [Directories -> Int] /\ CacheDuration \in Nat
      /\ \A d \in Directories : cached[d].until \in Int /\ cached[d].answer \in BOOLEAN
    BY <1>t DEF SessionsTypeOK, Times, Never
<1>1. CASE PassTime
    BY <1>t, <1>n, <1>1 DEF PassTime, CacheIsYoung
<1>2. ASSUME NEW d \in Directories, LeaveGroup(d)
      PROVE  CacheIsYoung'
  <2>1. left[d] = Never /\ left'[d] = now /\ now # Never
      BY <1>t, <1>n, <1>2 DEF LeaveGroup, ClockIsAhead, Never
  <2>2. \A x \in Directories \ {d} : left'[x] = left[x]
      BY <1>2 DEF LeaveGroup
  <2>3. UNCHANGED <<now, cached, late>>
      BY <1>2 DEF LeaveGroup
  <2> QED BY <1>t, <2>1, <2>2, <2>3 DEF CacheIsYoung
<1>3. ASSUME NEW r \in Requests, NEW d \in Directories, StoreGroups(r, d)
      PROVE  CacheIsYoung'
  <2>1. /\ cached' = [cached EXCEPT ![d] = [answer |-> visit[r].answer, until |-> now + CacheDuration]]
        /\ late' = IF visit[r].answer /\ ~ inGroup[d] THEN late \cup {d} ELSE late
        /\ UNCHANGED <<now, left>>
      BY <1>3 DEF StoreGroups, SetGroups
  <2>2. ASSUME NEW x \in Directories \ late', cached'[x].answer
        PROVE  IF left[x] = Never THEN cached'[x].until <= now + CacheDuration
               ELSE cached'[x].until <= left[x] + CacheDuration
    <3>1. CASE x # d
        BY <1>t, <2>1, <2>2, <3>1 DEF CacheIsYoung, SessionsTypeOK
    <3>2. CASE x = d
      <4>1. cached'[x] = [answer |-> visit[r].answer, until |-> now + CacheDuration]
          BY <1>t, <2>1, <3>2 DEF SessionsTypeOK
      <4>2. inGroup[x]
          BY <2>1, <2>2, <3>2, <4>1
      <4>3. left[x] = Never
          BY <1>t, <4>2 DEF ClockIsAhead
      <4> QED BY <1>n, <4>1, <4>3
    <3> QED BY <3>1, <3>2
  <2> QED BY <2>1, <2>2 DEF CacheIsYoung
<1>4. CASE UNCHANGED <<now, left, cached, late>>
    BY <1>t, <1>4 DEF CacheIsYoung
<1> QED BY <1>1, <1>2, <1>3, <1>4
        DEF SessionsNext, sessionsVars, Logout, Login, CallbackRefused, Callback,
            validateUser, EndVisit, LookUp, AskDirectory

\* What a request is credited with is what the cache holds now, or what has
\* just been stored.
LEMMA GroupsStayCurrent ==
    ASSUME SessionsInv, [SessionsNext]_sessionsVars
    PROVE  GroupsAreCurrent'
<1> USE SessionsAssumption
<1>t. SessionsTypeOK /\ CacheIsYoung /\ ClockIsAhead /\ GroupsAreCurrent
    BY DEF SessionsInv
<1>n. /\ now \in Nat /\ left \in [Directories -> Int] /\ CacheDuration \in Nat
      /\ \A d \in Directories : cached[d].until \in Int /\ cached[d].answer \in BOOLEAN
      /\ visit \in [Requests -> Visit]
      /\ \A r \in Requests : visit[r].began \in Nat /\ visit[r].began <= now
    BY <1>t DEF SessionsTypeOK, Times, Never, Visit, ClockIsAhead
<1>1. ASSUME NEW d \in Directories, LeaveGroup(d)
      PROVE  GroupsAreCurrent'
  <2>1. /\ left'[d] = now
        /\ \A x \in Directories \ {d} : left'[x] = left[x]
        /\ UNCHANGED <<visit, late>>
      BY <1>n, <1>1 DEF LeaveGroup
  <2> QED BY <1>t, <1>n, <2>1 DEF GroupsAreCurrent
<1>2. ASSUME NEW r \in Requests, validateUser(r) \/ EndVisit(r)
      PROVE  GroupsAreCurrent'
  <2>1. /\ NoVisit.groups = {}
        /\ [NoVisit EXCEPT !.step = "azure", !.began = now].groups = {}
      BY DEF NoVisit
  <2>2. \E v : v.groups = {} /\ visit' = [visit EXCEPT ![r] = v]
      BY <1>2, <2>1 DEF validateUser, EndVisit
  <2>3. /\ visit'[r].groups = {}
        /\ \A q \in Requests \ {r} : visit'[q] = visit[q]
        /\ UNCHANGED <<left, late>>
      BY <1>n, <1>2, <2>2 DEF validateUser, EndVisit
  <2> QED BY <1>t, <2>3 DEF GroupsAreCurrent
<1>3. ASSUME NEW r \in Requests, NEW d \in Directories, AskDirectory(r, d)
      PROVE  GroupsAreCurrent'
  <2>1. \A q \in Requests : visit'[q].groups = visit[q].groups /\ visit'[q].began = visit[q].began
      BY <1>n, <1>3 DEF AskDirectory, Visit
  <2>2. UNCHANGED <<left, late>>
      BY <1>3 DEF AskDirectory
  <2> QED BY <1>t, <2>1, <2>2 DEF GroupsAreCurrent
<1>4. ASSUME NEW r \in Requests, NEW d \in Directories, NEW a \in BOOLEAN, Credited(r, d, a)
      PROVE  /\ \A q \in Requests : visit'[q].began = visit[q].began
             /\ \A q \in Requests \ {r} : visit'[q].groups = visit[q].groups
             /\ visit'[r].groups = IF a THEN visit[r].groups \cup {d} ELSE visit[r].groups
    BY <1>n, <1>4 DEF Credited, Visit
<1>5. ASSUME NEW r \in Requests, NEW d \in Directories, LookUp(r, d)
      PROVE  GroupsAreCurrent'
  <2>1. UNCHANGED <<left, late>>
      BY <1>5 DEF LookUp
  <2>2. CASE Hit(d)
    <3>1. Credited(r, d, cached[d].answer)
        BY <1>5, <2>2 DEF LookUp
    <3>2. cached[d].answer /\ d \notin late /\ left[d] # Never => visit[r].began <= left[d] + CacheDuration
        BY <1>t, <1>n, <2>2 DEF Hit, CacheIsYoung
    <3>3. /\ \A q \in Requests : visit'[q].began = visit[q].began
          /\ \A q \in Requests \ {r} : visit'[q].groups = visit[q].groups
          /\ visit'[r].groups = IF cached[d].answer THEN visit[r].groups \cup {d}
                                                    ELSE visit[r].groups
        BY <1>n, <3>1 DEF Credited, Visit
    <3> QED BY <1>t, <2>1, <3>2, <3>3 DEF GroupsAreCurrent
  <2>3. CASE ~ Hit(d)
    <3>1. \A q \in Requests : visit'[q].groups = visit[q].groups /\ visit'[q].began = visit[q].began
        BY <1>n, <1>5, <2>3 DEF LookUp, VisitGoto, Visit
    <3> QED BY <1>t, <2>1, <3>1 DEF GroupsAreCurrent
  <2> QED BY <2>2, <2>3
<1>6. ASSUME NEW r \in Requests, NEW d \in Directories, StoreGroups(r, d)
      PROVE  GroupsAreCurrent'
  <2>1. /\ Credited(r, d, visit[r].answer) /\ visit[r].answer \in BOOLEAN
        /\ late' = IF visit[r].answer /\ ~ inGroup[d] THEN late \cup {d} ELSE late
        /\ UNCHANGED left
      BY <1>n, <1>6 DEF StoreGroups, Visit
  <2>2. visit[r].answer /\ d \notin late' => left[d] = Never
      BY <1>t, <2>1 DEF ClockIsAhead
  <2>3. /\ \A q \in Requests : visit'[q].began = visit[q].began
        /\ \A q \in Requests \ {r} : visit'[q].groups = visit[q].groups
        /\ visit'[r].groups = IF visit[r].answer THEN visit[r].groups \cup {d}
                                                 ELSE visit[r].groups
      BY <1>4, <2>1
  <2>4. late \subseteq late'
      BY <2>1
  <2> QED BY <1>t, <2>1, <2>2, <2>3, <2>4 DEF GroupsAreCurrent
<1>7. CASE UNCHANGED <<left, late, visit>>
    BY <1>t, <1>7 DEF GroupsAreCurrent
<1> QED BY <1>1, <1>2, <1>3, <1>5, <1>6, <1>7
        DEF SessionsNext, sessionsVars, PassTime, Logout, Login, CallbackRefused, Callback

-----------------------------------------------------------------------------
\* The parts of the invariant hold of every behaviour (auth/groups_cache.go,
\* auth/middleware.go).
THEOREM SessionsInvariant == SessionsSpec => []SessionsInv
<1>1. SessionsInv /\ [SessionsNext]_sessionsVars => SessionsInv'
    BY SessionsTyped, ClockStaysAhead, CacheStaysYoung, GroupsStayCurrent DEF SessionsInv
<1> QED BY <1>1, SessionsStart, PTL DEF SessionsSpec

\* Every variable has its type.
THEOREM SessionsTypeCorrect == SessionsSpec => []SessionsTypeOK
<1>1. SessionsInv => SessionsTypeOK
    BY DEF SessionsInv
<1> QED BY <1>1, SessionsInvariant, PTL

\* A request that begins an hour after its user has left a group does not act
\* for that group, for any number of requests that ask and store in any order.
THEOREM GroupsStay == SessionsSpec => []GroupsAreCurrent
<1>1. SessionsInv => GroupsAreCurrent
    BY DEF SessionsInv
<1> QED BY <1>1, SessionsInvariant, PTL

-----------------------------------------------------------------------------
(* Tokens *)

\* A token in the table is of the team that it was given to.
Issued == \A t \in Slugs : tokens[t] # NoSecret => owner[tokens[t]] = t

\* A request that has passed the first check holds a token, and after the
\* second a team.
UploadsHold ==
    \A r \in Uploaders :
        /\ upload[r].step \in {"valid", "admitted"} => upload[r].token \in Secrets
        /\ upload[r].step = "admitted" => upload[r].team \in Slugs

\* What is shown to stay true
TokensInv == TokensTypeOK /\ Issued /\ UploadsHold /\ TokensSurvive

\* A token that was given is nobody else's ever after.
OwnersStand == \A k \in Secrets : owner[k] # 0 => owner'[k] = owner[k]

-----------------------------------------------------------------------------
\* Nothing but the two statements below touches tokens.
LEMMA TokensRest ==
    ASSUME TokensInv, [TokensNext]_tokensVars
    PROVE  \/ \E p \in Updaters : UpdateAllTeamProjects(p)
           \/ \E t \in Slugs, k \in Secrets : RotateNadaToken(t, k)
           \/ UNCHANGED <<tokens, owner, rotated>>
BY DEF TokensNext, tokensVars, TeamLeaves, TeamJoins, Elect, RunOnce, GetTeamGoogleProjects,
       ErrorIsEmptyPage, UpdateFails, ValidateToken, GetTeamFromNadaToken, EndUpload

\* The refresh of the table, with its trigger (UpdateTeamProjectsCache).
LEMMA RefreshIssues ==
    ASSUME TokensInv, NEW p \in Updaters, UpdateAllTeamProjects(p)
    PROVE  /\ tokens' \in [Slugs -> Secrets \cup {NoSecret}]
           /\ owner' \in [Secrets -> Slugs \cup {0}]
           /\ rotated' = rotated
           /\ Issued' /\ OwnersStand
           /\ \A k \in Secrets : owner'[k] # 0 => tokens'[owner'[k]] = k \/ k \in rotated'
<1> USE SlugsAssumption
<1>t. /\ tokens \in [Slugs -> Secrets \cup {NoSecret}] /\ owner \in [Secrets -> Slugs \cup {0}]
      /\ Issued
      /\ \A k \in Secrets : owner[k] # 0 => tokens[owner[k]] = k \/ k \in rotated
      /\ update[p].found \subseteq Slugs
  <2>1. update[p] \in Update
      BY DEF TokensInv, TokensTypeOK
  <2> QED BY <2>1 DEF TokensInv, TokensTypeOK, TokensSurvive, Update
<1> DEFINE new == {t \in update[p].found : tokens[t] = NoSecret}
<1>1. PICK given \in [update[p].found -> Secrets] :
         /\ \A t \in new : /\ given[t] \in FreshSecrets
                           /\ \A s \in new \ {t} : given[s] # given[t]
         /\ tokens' = TokensFor(update[p].found, given)
    BY DEF UpdateAllTeamProjects
<1>2. \A t \in Slugs : /\ t \in new => tokens'[t] = given[t] /\ tokens'[t] \in Secrets
                                       /\ owner[tokens'[t]] = 0
                       /\ t \notin new => tokens'[t] = tokens[t]
    BY <1>1 DEF TokensFor, FreshSecrets
<1>3. /\ owner' = [k \in Secrets |-> IF \E t \in Slugs : tokens'[t] = k
                                   THEN CHOOSE t \in Slugs : tokens'[t] = k ELSE owner[k]]
      /\ rotated' = rotated
    BY DEF UpdateAllTeamProjects
<1>4. tokens' \in [Slugs -> Secrets \cup {NoSecret}]
  <2>1. \A t \in Slugs : tokens'[t] \in Secrets \cup {NoSecret}
      BY <1>t, <1>2
  <2>2. tokens' = [t \in Slugs |-> tokens'[t]]
      BY <1>1 DEF TokensFor
  <2> QED BY <2>1, <2>2
<1>5. ASSUME NEW s \in Slugs, NEW t \in Slugs, tokens'[s] = tokens'[t], tokens'[t] \in Secrets
      PROVE  s = t
  <2>1. CASE s \in new /\ t \in new
    <3>1. given[s] = given[t]
        BY <1>2, <1>5, <2>1
    <3>2. s # t => given[s] # given[t]
        BY <1>1, <2>1
    <3> QED BY <3>1, <3>2
  <2>2. CASE s \notin new /\ t \notin new
      BY <1>t, <1>2, <1>5, <2>2 DEF Issued
  <2>3. CASE s \in new /\ t \notin new
    <3>1. owner[tokens'[s]] = 0
        BY <1>2, <2>3
    <3>2. tokens'[t] = tokens[t] /\ owner[tokens[t]] = t
        BY <1>t, <1>2, <1>5, <2>3 DEF Issued
    <3> QED BY <1>5, <3>1, <3>2
  <2>4. CASE s \notin new /\ t \in new
    <3>1. owner[tokens'[t]] = 0
        BY <1>2, <2>4
    <3>2. tokens'[s] = tokens[s] /\ owner[tokens[s]] = s
        BY <1>t, <1>2, <1>5, <2>4 DEF Issued
    <3> QED BY <1>5, <3>1, <3>2
  <2> QED BY <2>1, <2>2, <2>3, <2>4
<1>6. ASSUME NEW t \in Slugs, tokens'[t] \in Secrets
      PROVE  owner'[tokens'[t]] = t
    BY <1>3, <1>5, <1>6
<1>7. Issued'
    BY <1>4, <1>6 DEF Issued
<1>8. OwnersStand
  <2> SUFFICES ASSUME NEW k \in Secrets, owner[k] # 0
               PROVE  owner'[k] = owner[k]
      BY DEF OwnersStand
  <2>1. ASSUME NEW t \in Slugs, tokens'[t] = k
        PROVE  owner'[k] = t /\ owner[k] = t
    <3>1. t \notin new
        BY <1>2, <2>1
    <3>2. tokens[t] = k
        BY <1>2, <2>1, <3>1
    <3> QED BY <1>t, <1>6, <2>1, <3>2 DEF Issued
  <2>2. CASE \E t \in Slugs : tokens'[t] = k
      BY <2>1, <2>2
  <2>3. CASE ~ \E t \in Slugs : tokens'[t] = k
      BY <1>3, <2>3
  <2> QED BY <2>2, <2>3
<1>9. \A k \in Secrets : owner'[k] \in Slugs \cup {0}
  <2> TAKE k \in Secrets
  <2>1. CASE \E t \in Slugs : tokens'[t] = k
      BY <1>6, <2>1
  <2>2. CASE ~ \E t \in Slugs : tokens'[t] = k
      BY <1>t, <1>3, <2>2
  <2> QED BY <2>1, <2>2
<1>10. owner' \in [Secrets -> Slugs \cup {0}]
    BY <1>3, <1>9
<1>11. \A k \in Secrets : owner'[k] # 0 => tokens'[owner'[k]] = k \/ k \in rotated'
  <2> SUFFICES ASSUME NEW k \in Secrets, owner'[k] # 0
               PROVE  tokens'[owner'[k]] = k \/ k \in rotated'
      OBVIOUS
  <2>1. CASE \E t \in Slugs : tokens'[t] = k
      BY <1>6, <2>1
  <2>2. CASE ~ \E t \in Slugs : tokens'[t] = k
    <3>1. owner'[k] = owner[k] /\ owner[k] \in Slugs
        BY <1>t, <1>3, <2>2
    <3>2. tokens[owner[k]] # k
        BY <1>2, <1>t, <2>2, <3>1
    <3> QED BY <1>t, <1>3, <3>1, <3>2
  <2> QED BY <2>1, <2>2
<1> QED BY <1>3, <1>4, <1>7, <1>8, <1>10, <1>11

\* A new token in the place of an old one (RotateNadaToken).
LEMMA RotationIssues ==
    ASSUME TokensInv, NEW t \in Slugs, NEW k \in Secrets, RotateNadaToken(t, k)
    PROVE  /\ tokens' \in [Slugs -> Secrets \cup {NoSecret}]
           /\ owner' \in [Secrets -> Slugs \cup {0}]
           /\ rotated' \subseteq Secrets
           /\ Issued' /\ OwnersStand
           /\ \A j \in Secrets : owner'[j] # 0 => tokens'[owner'[j]] = j \/ j \in rotated'
<1> USE SlugsAssumption
<1>t. /\ tokens \in [Slugs -> Secrets \cup {NoSecret}] /\ owner \in [Secrets -> Slugs \cup {0}]
      /\ rotated \subseteq Secrets /\ Issued
      /\ \A j \in Secrets : owner[j] # 0 => tokens[owner[j]] = j \/ j \in rotated
    BY DEF TokensInv, TokensTypeOK, TokensSurvive
<1>1. /\ tokens[t] # NoSecret /\ owner[k] = 0
      /\ tokens' = [tokens EXCEPT ![t] = k] /\ owner' = [owner EXCEPT ![k] = t]
      /\ rotated' = rotated \cup {tokens[t]}
    BY DEF RotateNadaToken, FreshSecrets
<1>2. tokens'[t] = k /\ \A s \in Slugs \ {t} : tokens'[s] = tokens[s]
    BY <1>t, <1>1
<1>3. owner'[k] = t /\ \A j \in Secrets \ {k} : owner'[j] = owner[j]
    BY <1>t, <1>1
<1>4. \A s \in Slugs \ {t} : tokens[s] # k
    BY <1>t, <1>1 DEF Issued
<1>5. Issued'
    BY <1>t, <1>2, <1>3, <1>4 DEF Issued
<1>6. OwnersStand
    BY <1>1, <1>3 DEF OwnersStand
<1>7. \A j \in Secrets : owner'[j] # 0 => tokens'[owner'[j]] = j \/ j \in rotated'
  <2> TAKE j \in Secrets
  <2>1. CASE j = k
      BY <1>2, <1>3, <2>1
  <2>2. CASE j # k /\ owner[j] # t
      BY <1>t, <1>1, <1>2, <1>3, <2>2
  <2>3. CASE j # k /\ owner[j] = t
      BY <1>t, <1>1, <1>3, <2>3
  <2> QED BY <2>1, <2>2, <2>3
<1>8. /\ tokens' \in [Slugs -> Secrets \cup {NoSecret}]
      /\ owner' \in [Secrets -> Slugs \cup {0}]
      /\ rotated' \subseteq Secrets
    BY <1>t, <1>1
<1> QED BY <1>5, <1>6, <1>7, <1>8

\* A request in NadaTokenMiddleware holds what it has read.
LEMMA UploadsKeep ==
    ASSUME TokensInv, [TokensNext]_tokensVars, OwnersStand
    PROVE  /\ upload' \in [Uploaders -> Upload]
           /\ UploadsHold'
           /\ \A r \in Uploaders : upload'[r].step = "admitted" =>
                 owner'[upload'[r].token] = upload'[r].team
<1> USE SlugsAssumption
<1>t. /\ upload \in [Uploaders -> Upload] /\ UploadsHold
      /\ tokens \in [Slugs -> Secrets \cup {NoSecret}] /\ Issued
      /\ \A r \in Uploaders : upload[r].step = "admitted" =>
            owner[upload[r].token] = upload[r].team
    BY DEF TokensInv, TokensTypeOK, TokensSurvive
<1>s. \A r \in Uploaders : upload[r].step = "admitted" =>
          owner'[upload[r].token] = upload[r].team
    BY <1>t DEF OwnersStand, UploadsHold
<1>1. CASE upload' = upload
    BY <1>t, <1>s, <1>1 DEF UploadsHold
<1>2. ASSUME NEW r \in Uploaders, NEW u \in Upload, upload' = [upload EXCEPT ![r] = u],
             u.step \in {"valid", "admitted"} => u.token \in Secrets,
             u.step = "admitted" => u.team \in Slugs /\ owner'[u.token] = u.team
      PROVE  /\ upload' \in [Uploaders -> Upload]
             /\ UploadsHold'
             /\ \A q \in Uploaders : upload'[q].step = "admitted" =>
                   owner'[upload'[q].token] = upload'[q].team
  <2>1. upload'[r] = u /\ \A q \in Uploaders \ {r} : upload'[q] = upload[q]
      BY <1>t, <1>2
  <2> QED BY <1>t, <1>s, <1>2, <2>1 DEF UploadsHold
<1>3. ASSUME NEW r \in Uploaders, NEW k \in Secrets, ValidateToken(r, k)
      PROVE  \E u \in Upload : /\ upload' = [upload EXCEPT ![r] = u]
                               /\ u.step \in {"valid", "admitted"} => u.token \in Secrets
                               /\ u.step # "admitted"
  <2> DEFINE u == [step |-> "valid", token |-> k, team |-> 0]
  <2>1. u \in Upload /\ upload' = [upload EXCEPT ![r] = u]
      BY <1>3 DEF ValidateToken, Upload
  <2> QED BY <2>1
<1>4. ASSUME NEW r \in Uploaders, GetTeamFromNadaToken(r)
      PROVE  \E u \in Upload : /\ upload' = [upload EXCEPT ![r] = u]
                               /\ u.token \in Secrets /\ u.team \in Slugs
                               /\ owner'[u.token] = u.team
  <2>1. PICK t \in Slugs : /\ tokens[t] = upload[r].token
                           /\ upload' = [upload EXCEPT ![r].step = "admitted", ![r].team = t]
      BY <1>4 DEF GetTeamFromNadaToken
  <2>2. upload[r] \in Upload /\ upload[r].token \in Secrets
      BY <1>t, <1>4 DEF GetTeamFromNadaToken, UploadsHold
  <2> DEFINE u == [upload[r] EXCEPT !.step = "admitted", !.team = t]
  <2>3. u \in Upload /\ u.token = upload[r].token /\ u.team = t
      BY <2>2 DEF Upload
  <2>4. upload' = [upload EXCEPT ![r] = u]
      BY <1>t, <2>1
  <2>5. owner[u.token] = t /\ owner'[u.token] = t
      BY <1>t, <2>1, <2>2, <2>3 DEF Issued, OwnersStand
  <2> QED BY <2>2, <2>3, <2>4, <2>5
<1>5. ASSUME NEW r \in Uploaders, EndUpload(r)
      PROVE  \E u \in Upload : upload' = [upload EXCEPT ![r] = u] /\ u.step = "idle"
  <2>1. NoUpload \in Upload /\ NoUpload.step = "idle"
      BY DEF NoUpload, Upload
  <2> QED BY <1>5, <2>1 DEF EndUpload
<1>6. \/ upload' = upload
      \/ \E r \in Uploaders : \/ \E k \in Secrets : ValidateToken(r, k)
                              \/ GetTeamFromNadaToken(r) \/ EndUpload(r)
    BY DEF TokensNext, tokensVars, TeamLeaves, TeamJoins, Elect, RunOnce, GetTeamGoogleProjects,
       ErrorIsEmptyPage, UpdateAllTeamProjects, UpdateFails, RotateNadaToken
<1> QED BY <1>1, <1>2, <1>3, <1>4, <1>5, <1>6

\* The passes of the updaters keep their types (RunOnce, teamprojectsupdater.go).
LEMMA UpdatersTyped ==
    ASSUME TokensInv, [TokensNext]_tokensVars
    PROVE  /\ console' \subseteq Slugs /\ projects' \subseteq Slugs /\ steady' \subseteq Slugs
           /\ leading' \in Updaters
           /\ update' \in [Updaters -> Update]
<1> USE SlugsAssumption
<1>t. /\ console \subseteq Slugs /\ projects \subseteq Slugs /\ steady \subseteq Slugs
      /\ leading \in Updaters
      /\ update \in [Updaters -> Update]
    BY DEF TokensInv, TokensTypeOK
<1>0. NoUpdate \in Update
    BY DEF NoUpdate, Update
<1>1. CASE UNCHANGED <<console, projects, steady, leading, update>>
    BY <1>t, <1>1
<1>2. ASSUME NEW t \in Slugs, TeamLeaves(t)
      PROVE  update' \in [Updaters -> Update]
  <2>1. \A u \in Update : [u EXCEPT !.there = {}] \in Update
      BY DEF Update
  <2> QED BY <1>t, <1>2, <2>1 DEF TeamLeaves
<1>3. ASSUME NEW p \in Updaters, RunOnce(p)
      PROVE  update' \in [Updaters -> Update]
  <2>1. [NoUpdate EXCEPT !.step = "fetch", !.there = console] \in Update
      BY <1>0, <1>t DEF Update
  <2> QED BY <1>t, <1>3, <2>1 DEF RunOnce
<1>4. ASSUME NEW p \in Updaters, GetTeamGoogleProjects(p)
      PROVE  update' \in [Updaters -> Update]
  <2> DEFINE o == update[p].offset
             u == [update[p] EXCEPT !.found = @ \cup Page(o),
                                    !.offset = IF HasNextPage(o) THEN NextOffset(o) ELSE 0,
                                    !.step = IF HasNextPage(o) THEN "fetch" ELSE "store"]
  <2>1. Page(o) \subseteq Slugs
      BY <1>t DEF Page
  <2>2. o \in Nat /\ NextOffset(o) \in Nat
      BY <1>t DEF Update, NextOffset
  <2>3. u \in Update
    <3> HIDE DEF o
    <3> QED BY <1>t, <2>1, <2>2 DEF Update
  <2>4. update' = [update EXCEPT ![p] = u]
      BY <1>t, <1>4 DEF GetTeamGoogleProjects
  <2> HIDE DEF u
  <2> QED BY <1>t, <2>3, <2>4
<1>5. ASSUME NEW p \in Updaters, ErrorIsEmptyPage(p)
      PROVE  update' \in [Updaters -> Update]
    BY <1>t, <1>5 DEF ErrorIsEmptyPage, Update
<1>6. ASSUME NEW p \in Updaters, UpdateAllTeamProjects(p)
      PROVE  /\ update' \in [Updaters -> Update]
             /\ projects' \subseteq Slugs /\ steady' \subseteq Slugs
  <2>1. update[p].found \subseteq Slugs /\ update[p].there \subseteq Slugs
      BY <1>t DEF Update
  <2> QED BY <1>t, <1>0, <1>6, <2>1 DEF UpdateAllTeamProjects
<1>7. ASSUME NEW p \in Updaters, UpdateFails(p)
      PROVE  update' \in [Updaters -> Update]
    BY <1>t, <1>0, <1>7 DEF UpdateFails
<1>8. CASE \E t \in Slugs : TeamLeaves(t) \/ TeamJoins(t)
    BY <1>t, <1>2, <1>8 DEF TeamLeaves, TeamJoins
<1>9. CASE \E p \in Updaters : Elect(p) \/ RunOnce(p) \/ GetTeamGoogleProjects(p)
                               \/ ErrorIsEmptyPage(p) \/ UpdateFails(p)
  <2>1. PICK p \in Updaters : Elect(p) \/ RunOnce(p) \/ GetTeamGoogleProjects(p)
                              \/ ErrorIsEmptyPage(p) \/ UpdateFails(p)
      BY <1>9
  <2>2. update' \in [Updaters -> Update]
      BY <1>t, <1>3, <1>4, <1>5, <1>7, <2>1 DEF Elect
  <2>3. /\ UNCHANGED <<console, projects, steady>> /\ leading' \in Updaters
      BY <1>t, <2>1 DEF Elect, RunOnce, GetTeamGoogleProjects, ErrorIsEmptyPage, UpdateFails
  <2> QED BY <1>t, <2>2, <2>3
<1>10. CASE \E p \in Updaters : UpdateAllTeamProjects(p)
    BY <1>t, <1>6, <1>10 DEF UpdateAllTeamProjects
<1>11. CASE \/ \E t \in Slugs, k \in Secrets : RotateNadaToken(t, k)
            \/ \E r \in Uploaders : \/ \E k \in Secrets : ValidateToken(r, k)
                                    \/ GetTeamFromNadaToken(r) \/ EndUpload(r)
    BY <1>1, <1>11 DEF RotateNadaToken, ValidateToken, GetTeamFromNadaToken, EndUpload
<1> QED BY <1>1, <1>8, <1>9, <1>10, <1>11 DEF TokensNext, tokensVars

\* The inductive invariant of the tokens: types, whose each is, and what the
\* uploads hold (teamprojectsupdater.go, service_tokens.go, the middleware).
THEOREM TokensInvariant == TokensSpec => []TokensInv
<1>1. TokensInit => TokensInv
  <2> SUFFICES ASSUME TokensInit PROVE TokensInv
      OBVIOUS
  <2>1. NoUpdate \in Update /\ NoUpload \in Upload
      BY DEF NoUpdate, Update, NoUpload, Upload
  <2>2. TokensTypeOK
      BY <2>1 DEF TokensInit, TokensTypeOK
  <2> QED BY <2>2 DEF TokensInit, TokensInv, Issued, UploadsHold, TokensSurvive, NoUpload
<1>2. ASSUME TokensInv, [TokensNext]_tokensVars
      PROVE  TokensInv'
  <2>t. /\ tokens \in [Slugs -> Secrets \cup {NoSecret}]
        /\ owner \in [Secrets -> Slugs \cup {0}]
        /\ rotated \subseteq Secrets /\ Issued
        /\ \A k \in Secrets : owner[k] # 0 => tokens[owner[k]] = k \/ k \in rotated
      BY <1>2 DEF TokensInv, TokensTypeOK, TokensSurvive
  <2>1. /\ tokens' \in [Slugs -> Secrets \cup {NoSecret}]
        /\ owner' \in [Secrets -> Slugs \cup {0}]
        /\ rotated' \subseteq Secrets
        /\ Issued' /\ OwnersStand
        /\ \A k \in Secrets : owner'[k] # 0 => tokens'[owner'[k]] = k \/ k \in rotated'
    <3>1. CASE \E p \in Updaters : UpdateAllTeamProjects(p)
        BY <1>2, <2>t, <3>1, RefreshIssues
    <3>2. CASE \E t \in Slugs, k \in Secrets : RotateNadaToken(t, k)
        BY <1>2, <3>2, RotationIssues
    <3>3. CASE UNCHANGED <<tokens, owner, rotated>>
        BY <2>t, <3>3 DEF Issued, OwnersStand
    <3> QED BY <1>2, <3>1, <3>2, <3>3, TokensRest
  <2>2. /\ upload' \in [Uploaders -> Upload] /\ UploadsHold'
        /\ \A r \in Uploaders : upload'[r].step = "admitted" =>
              owner'[upload'[r].token] = upload'[r].team
      BY <1>2, <2>1, UploadsKeep
  <2>3. TokensTypeOK'
      BY <1>2, <2>1, <2>2, UpdatersTyped DEF TokensTypeOK
  <2> QED BY <2>1, <2>2, <2>3 DEF TokensInv, TokensSurvive
<1> QED BY <1>1, <1>2, PTL DEF TokensSpec

\* A token is its team's until the team rotates it, however often team_projects
\* is emptied and filled, by one leader or by two (the trigger on team_projects);
\* who is admitted with it acts for that team (NadaTokenMiddleware).
THEOREM TokensOutliveRefreshes == TokensSpec => []TokensSurvive
<1>1. TokensInv => TokensSurvive
    BY DEF TokensInv
<1> QED BY <1>1, TokensInvariant, PTL

-----------------------------------------------------------------------------
(* Paging.  A pass that has read the pages below an offset has found every *)
(* team that it has no excuse to miss and that comes, by now, below it:    *)
(* teams that join only push others to later pages.                        *)

PassFound(u) ==
    /\ u.step = "fetch" => \A t \in u.there :
         t \in console /\ (Cardinality(Before(t)) < u.offset => t \in u.found)
    /\ u.step = "store" => u.there \subseteq u.found

PagesInv ==
    /\ \A p \in Updaters : PassFound(update[p])
    /\ SteadyTeamsAreListed

\* The teams before one are a finite part of those there are, and not all.
LEMMA BeforeIsPart ==
    ASSUME TokensTypeOK, NEW t \in console
    PROVE  /\ Cardinality(Before(t)) \in Nat /\ Cardinality(console) \in Nat
           /\ Cardinality(Before(t)) < Cardinality(console)
<1>1. IsFiniteSet(console) /\ console \subseteq Nat
    BY FS_Subset, SlugsAssumption DEF TokensTypeOK
<1>2. Before(t) \in SUBSET console /\ t \notin Before(t)
    BY <1>1 DEF Before
<1>3. IsFiniteSet(Before(t))
    BY <1>1, <1>2, FS_Subset
<1>4. Cardinality(Before(t)) \in Nat /\ Cardinality(console) \in Nat
    BY <1>1, <1>3, FS_CardinalityType
<1>5. /\ Cardinality(Before(t)) <= Cardinality(console)
      /\ Cardinality(Before(t)) # Cardinality(console)
  <2>1. Before(t) # console
      BY <1>2
  <2> QED BY <1>1, <1>2, <2>1, FS_Subset
<1> QED BY <1>4, <1>5

\* A page and what is left after it
LEMMA PageFound ==
    ASSUME TokensTypeOK, NEW p \in Updaters, PassFound(update[p]), GetTeamGoogleProjects(p)
    PROVE  PassFound(update[p])'
<1>1. PICK u \in Update : u = update[p] /\ u.step = "fetch" /\ u.offset \in Nat
                            /\ u.found \subseteq Slugs
    BY DEF TokensTypeOK, GetTeamGoogleProjects, Update
<1> DEFINE o == u.offset
           more == HasNextPage(o)
<1>2. PICK n \in Update :
             /\ n = update'[p] /\ n.found = u.found \cup Page(o) /\ n.there = u.there
             /\ n.offset = (IF more THEN NextOffset(o) ELSE 0)
             /\ n.step = (IF more THEN "fetch" ELSE "store")
  <2> DEFINE n == [u EXCEPT !.found = @ \cup Page(o),
                            !.offset = IF more THEN NextOffset(o) ELSE 0,
                            !.step = IF more THEN "fetch" ELSE "store"]
  <2>1. update'[p] = n
      BY <1>1 DEF GetTeamGoogleProjects, TokensTypeOK
  <2>2. n \in Update
    <3>1. Page(o) \subseteq Slugs
        BY DEF Page, TokensTypeOK
    <3>2. NextOffset(o) \in Nat
        BY <1>1, SlugsAssumption DEF NextOffset
    <3> HIDE DEF o, more
    <3> QED BY <1>1, <3>1, <3>2 DEF Update
  <2>3. /\ n.found = u.found \cup Page(o) /\ n.there = u.there
        /\ n.offset = (IF more THEN NextOffset(o) ELSE 0)
        /\ n.step = (IF more THEN "fetch" ELSE "store")
      BY DEF Update
  <2> HIDE DEF n, more
  <2> QED BY <2>1, <2>2, <2>3
<1>3. console' = console
    BY DEF GetTeamGoogleProjects
<1>4. ASSUME NEW t \in u.there
      PROVE  /\ t \in console /\ Cardinality(Before(t)) \in Nat
             /\ Cardinality(Before(t)) < o + Limit => t \in n.found
  <2>1. t \in console /\ (Cardinality(Before(t)) < o => t \in u.found)
      BY <1>1 DEF PassFound
  <2>2. Cardinality(Before(t)) \in Nat
      BY <2>1, BeforeIsPart
  <2>3. ASSUME Cardinality(Before(t)) < o + Limit, ~ (Cardinality(Before(t)) < o)
        PROVE  t \in Page(o)
    <3>1. Cardinality(Before(t)) \in o..(o + Limit - 1)
        BY <1>1, <2>2, <2>3, SlugsAssumption
    <3> QED BY <2>1, <3>1 DEF Page
  <2> QED BY <1>2, <2>1, <2>2, <2>3
<1>5. CASE more
  <2>1. n.offset = o + Limit /\ n.step = "fetch"
      BY <1>2, <1>5 DEF NextOffset
  <2>2. \A t \in n.there : t \in console /\ (Cardinality(Before(t)) < n.offset => t \in n.found)
      BY <1>2, <1>4, <2>1
  <2>3. \A t \in n.there : Before(t)' = Before(t)
      BY <1>3 DEF Before
  <2> QED BY <1>2, <1>3, <2>1, <2>2, <2>3 DEF PassFound
<1>6. CASE ~ more
  <2>1. n.step = "store"
      BY <1>2, <1>6
  <2>2. ASSUME NEW t \in n.there
        PROVE  t \in n.found
    <3>1. t \in console /\ Cardinality(Before(t)) \in Nat
        BY <1>2, <1>4
    <3>2. Cardinality(Before(t)) < Cardinality(console) /\ Cardinality(console) \in Nat
        BY <3>1, BeforeIsPart
    <3>3. ~ (Cardinality(console) > o + Limit)
        BY <1>6 DEF HasNextPage
    <3>4. Cardinality(Before(t)) < o + Limit
        BY <1>1, <3>1, <3>2, <3>3, SlugsAssumption
    <3> QED BY <1>2, <1>4, <3>4
  <2> QED BY <1>2, <2>1, <2>2 DEF PassFound
<1> QED BY <1>5, <1>6

\* Teams that join push others back.
LEMMA JoinFound ==
    ASSUME TokensTypeOK, PagesInv, NEW j \in Slugs, TeamJoins(j)
    PROVE  PagesInv'
<1>1. console' = console \cup {j} /\ update' = update /\ projects' = projects /\ steady' = steady
    BY DEF TeamJoins
<1>2. IsFiniteSet(console') /\ console \subseteq Slugs /\ console' \subseteq Slugs
  <2>1. console' \in SUBSET Slugs /\ console \subseteq Slugs
      BY <1>1 DEF TokensTypeOK
  <2> QED BY <2>1, FS_Subset, SlugsAssumption
<1>3. ASSUME NEW p \in Updaters
      PROVE  PassFound(update[p])'
  <2>1. PICK u \in Update : u = update[p] /\ update'[p] = u /\ PassFound(u)
      BY <1>1 DEF TokensTypeOK, PagesInv
  <2>2. ASSUME u.step = "fetch", NEW t \in u.there, Cardinality(Before(t)') < u.offset
        PROVE  t \in u.found
    <3>1. t \in console /\ (Cardinality(Before(t)) < u.offset => t \in u.found)
        BY <2>1, <2>2 DEF PassFound
    <3>2. Before(t) \in SUBSET (Before(t)') /\ Before(t)' \in SUBSET (console')
        BY <1>1 DEF Before
    <3>3. IsFiniteSet(Before(t)')
        BY <1>2, <3>2, FS_Subset
    <3>4. Cardinality(Before(t)) <= Cardinality(Before(t)')
        BY <3>2, <3>3, FS_Subset
    <3>5. Cardinality(Before(t)) \in Nat /\ Cardinality(Before(t)') \in Nat /\ u.offset \in Nat
        BY <3>1, <3>3, BeforeIsPart, FS_CardinalityType DEF Update
    <3>6. Cardinality(Before(t)) < u.offset
        BY <2>2, <3>4, <3>5
    <3> QED BY <3>1, <3>6
  <2>3. u.step = "fetch" => \A t \in u.there : t \in console'
      BY <1>1, <2>1 DEF PassFound
  <2> QED BY <2>1, <2>2, <2>3 DEF PassFound
<1> QED BY <1>1, <1>3 DEF PagesInv, SteadyTeamsAreListed

LEMMA PassesFound ==
    ASSUME TokensTypeOK, PagesInv, [TokensNext]_tokensVars
    PROVE  PagesInv'
<1>1. CASE UNCHANGED <<console, update, projects, steady>>
    BY <1>1 DEF PagesInv, PassFound, Before, SteadyTeamsAreListed
<1>2. CASE \E t \in Slugs : TeamJoins(t)
    BY <1>2, JoinFound
<1>3. ASSUME NEW t \in Slugs, TeamLeaves(t)
      PROVE  PagesInv'
  <2>1. ASSUME NEW p \in Updaters
        PROVE  PassFound(update[p])'
    <3>1. PICK u \in Update : u = update[p] /\ PassFound(u)
        BY DEF TokensTypeOK, PagesInv
    <3>2. CASE u.step = "fetch"
      <4>1. PICK n \in Update : n = update'[p] /\ n.there = {} /\ n.step = "fetch"
        <5> DEFINE n == [u EXCEPT !.there = {}]
        <5>1. n \in Update /\ n.there = {} /\ n.step = "fetch"
            BY <3>2 DEF Update
        <5>2. n = update'[p]
            BY <1>3, <3>1, <3>2 DEF TeamLeaves
        <5> QED BY <5>1, <5>2
      <4> QED BY <4>1 DEF PassFound
    <3>3. CASE u.step # "fetch"
      <4>1. update'[p] = u
          BY <1>3, <3>1, <3>3 DEF TeamLeaves
      <4> QED BY <3>1, <3>3, <4>1 DEF PassFound
    <3> QED BY <3>2, <3>3
  <2> QED BY <1>3, <2>1 DEF PagesInv, SteadyTeamsAreListed, TeamLeaves
<1>4. ASSUME NEW p \in Updaters, NEW n \in Update, update' = [update EXCEPT ![p] = n],
             PassFound(n)', console' = console, SteadyTeamsAreListed'
      PROVE  PagesInv'
  <2>1. ASSUME NEW q \in Updaters
        PROVE  PassFound(update[q])'
    <3>1. CASE q = p
        BY <1>4, <3>1 DEF TokensTypeOK
    <3>2. CASE q # p
      <4>1. PICK u \in Update : u = update[q] /\ update'[q] = u /\ PassFound(u)
          BY <1>4, <3>2 DEF TokensTypeOK, PagesInv
      <4> QED BY <1>4, <4>1 DEF PassFound, Before
    <3> QED BY <3>1, <3>2
  <2> QED BY <1>4, <2>1 DEF PagesInv
<1>5. NoUpdate \in Update /\ PassFound(NoUpdate)'
    BY DEF NoUpdate, Update, PassFound
<1>6. ASSUME NEW p \in Updaters, RunOnce(p)
      PROVE  PagesInv'
  <2>1. PICK n \in Update : /\ update' = [update EXCEPT ![p] = n]
                            /\ n.step = "fetch" /\ n.offset = 0 /\ n.there = console
    <3> DEFINE n == [NoUpdate EXCEPT !.step = "fetch", !.there = console]
    <3>1. n \in Update /\ n.step = "fetch" /\ n.offset = 0 /\ n.there = console
        BY DEF Update, NoUpdate, TokensTypeOK
    <3>2. update' = [update EXCEPT ![p] = n]
        BY <1>6 DEF RunOnce
    <3> QED BY <3>1, <3>2
  <2>2. \A t \in console : ~ (Cardinality(Before(t)) < 0)
      BY BeforeIsPart
  <2>3. console' = console /\ \A t \in console : Before(t)' = Before(t)
      BY <1>6 DEF RunOnce, Before
  <2>4. PassFound(n)'
      BY <2>1, <2>2, <2>3 DEF PassFound
  <2>5. SteadyTeamsAreListed'
      BY <1>6 DEF RunOnce, PagesInv, SteadyTeamsAreListed
  <2> QED BY <1>4, <2>1, <2>3, <2>4, <2>5
<1>7. ASSUME NEW p \in Updaters, GetTeamGoogleProjects(p)
      PROVE  PagesInv'
  <2>1. PassFound(update[p])'
      BY <1>7, PageFound DEF PagesInv
  <2>2. \A q \in Updaters \ {p} : update'[q] = update[q]
      BY <1>7 DEF GetTeamGoogleProjects, TokensTypeOK
  <2>3. console' = console
      BY <1>7 DEF GetTeamGoogleProjects
  <2>4. ASSUME NEW q \in Updaters \ {p}
        PROVE  PassFound(update[q])'
    <3>1. PICK u \in Update : u = update[q] /\ update'[q] = u /\ PassFound(u)
        BY <2>2 DEF TokensTypeOK, PagesInv
    <3> QED BY <2>3, <3>1 DEF PassFound, Before
  <2> QED BY <1>7, <2>1, <2>4 DEF GetTeamGoogleProjects, PagesInv, SteadyTeamsAreListed
<1>8. ASSUME NEW p \in Updaters, ErrorIsEmptyPage(p)
      PROVE  PagesInv'
  <2>1. PICK n \in Update : /\ update' = [update EXCEPT ![p] = n]
                            /\ n.step = "store" /\ n.there = {}
    <3> DEFINE n == [update[p] EXCEPT !.offset = 0, !.step = "store", !.there = {}]
    <3>1. n \in Update /\ n.step = "store" /\ n.there = {}
        BY DEF Update, TokensTypeOK
    <3>2. update' = [update EXCEPT ![p] = n]
        BY <1>8 DEF ErrorIsEmptyPage, TokensTypeOK
    <3> QED BY <3>1, <3>2
  <2>2. PassFound(n)'
      BY <2>1 DEF PassFound
  <2> QED BY <1>4, <1>8, <2>1, <2>2 DEF ErrorIsEmptyPage, PagesInv, SteadyTeamsAreListed
<1>9. ASSUME NEW p \in Updaters, UpdateAllTeamProjects(p)
      PROVE  PagesInv'
  <2>1. /\ update[p].step = "store" /\ projects' = update[p].found /\ steady' = update[p].there
        /\ update' = [update EXCEPT ![p] = NoUpdate] /\ console' = console
      BY <1>9 DEF UpdateAllTeamProjects
  <2>2. SteadyTeamsAreListed'
      BY <2>1 DEF PagesInv, PassFound, SteadyTeamsAreListed
  <2> QED BY <1>4, <1>5, <2>1, <2>2
<1>10. ASSUME NEW p \in Updaters, UpdateFails(p)
       PROVE  PagesInv'
    BY <1>4, <1>5, <1>10 DEF UpdateFails, PagesInv, SteadyTeamsAreListed
<1>11. \/ \E t \in Slugs : TeamLeaves(t) \/ TeamJoins(t)
       \/ \E p \in Updaters : RunOnce(p) \/ GetTeamGoogleProjects(p) \/ ErrorIsEmptyPage(p)
                              \/ UpdateAllTeamProjects(p) \/ UpdateFails(p)
       \/ UNCHANGED <<console, update, projects, steady>>
    BY DEF TokensNext, tokensVars, RotateNadaToken, Elect, ValidateToken, GetTeamFromNadaToken,
           EndUpload
<1> QED BY <1>1, <1>2, <1>3, <1>6, <1>7, <1>8, <1>9, <1>10, <1>11

\* A refresh leaves out no team that it has no excuse to miss.
THEOREM SteadyTeamsStay == TokensSpec => []SteadyTeamsAreListed
<1>1. TokensInit => PagesInv
    BY DEF TokensInit, PagesInv, PassFound, NoUpdate, SteadyTeamsAreListed
<1>2. TokensTypeOK /\ PagesInv /\ [TokensNext]_tokensVars => PagesInv'
    BY PassesFound
<1>3. TokensInv => TokensTypeOK
    BY DEF TokensInv
<1>4. PagesInv => SteadyTeamsAreListed
    BY DEF PagesInv
<1> QED BY <1>1, <1>2, <1>3, <1>4, TokensInvariant, PTL DEF TokensSpec

\* Every variable has its type.
THEOREM TokensTypeCorrect == TokensSpec => []TokensTypeOK
<1>1. TokensInv => TokensTypeOK
    BY DEF TokensInv
<1> QED BY <1>1, TokensInvariant, PTL

-----------------------------------------------------------------------------
(* All of admission *)

\* Each part does, in the whole, only what it may do alone.
LEMMA AdmissionPartsKeepToThemselves ==
    AdmissionSpec =>
        MembersSpec /\ AccountsSpec /\ SessionsSpec /\ TokensSpec /\ CollectionsSpec
<1>1. AdmissionInit =>
        MembersInit /\ AccountsInit /\ SessionsInit /\ TokensInit /\ CollectionsInit
    BY DEF AdmissionInit
<1>2. [AdmissionNext]_admissionVars =>
        /\ [MembersNext]_membersVars /\ [AccountsNext]_accountsVars
        /\ [SessionsNext]_sessionsVars /\ [TokensNext]_tokensVars
        /\ [CollectionsNext]_collectionsVars
    BY DEF AdmissionNext, admissionVars, StillAdmission
<1> QED BY <1>1, <1>2, PTL DEF AdmissionSpec, MembersSpec, AccountsSpec, SessionsSpec,
                               TokensSpec, CollectionsSpec

\* Every variable of the part in motion has its type, and of those at rest too.
THEOREM AdmissionTypeCorrect == AdmissionSpec => []AdmissionTypeOK
<1>1. MembersTypeOK /\ AccountsTypeOK /\ SessionsTypeOK /\ TokensTypeOK /\ CollectionsTypeOK
        => AdmissionTypeOK
    BY DEF AdmissionTypeOK
<1> QED BY <1>1, AdmissionPartsKeepToThemselves, MembersTypeCorrect, AccountsTypeCorrect,
           SessionsTypeCorrect, TokensTypeCorrect, CollectionsTypeCorrect, PTL

\* However the parts interleave, it is right who is a member, which accounts and
\* keys are kept, what a session may still do and whose a token is: no part reads
\* or writes what another keeps.
THEOREM AdmissionPartsTogether ==
    MembersSpec /\ AccountsSpec /\ SessionsSpec /\ TokensSpec /\ CollectionsSpec
    =>  /\ [](MembersHaveAccess /\ GrantedAreMembers)
        /\ [](BindingsAreKept /\ RecordedKeyWorks)
        /\ [](GroupsAreCurrent /\ SteadyTeamsAreListed /\ TokensSurvive /\ TaggedOnce)
<1>1. MembersSpec => [](MembersHaveAccess /\ GrantedAreMembers)
    BY NoStrangers, GrantsShow, PTL
<1>2. AccountsSpec => [](BindingsAreKept /\ RecordedKeyWorks)
    BY BindingsStay, RecordedKeysWork, PTL
<1>3. SessionsSpec /\ TokensSpec /\ CollectionsSpec =>
        [](GroupsAreCurrent /\ SteadyTeamsAreListed /\ TokensSurvive /\ TaggedOnce)
    BY GroupsStay, SteadyTeamsStay, TokensOutliveRefreshes, NamesAreTaggedOnce, PTL
<1> QED BY <1>1, <1>2, <1>3

\* The same of the composition that is model-checked, where one part moves.
THEOREM AdmissionIsSound ==
    AdmissionSpec =>
        /\ [](MembersHaveAccess /\ GrantedAreMembers)
        /\ [](BindingsAreKept /\ RecordedKeyWorks)
        /\ [](GroupsAreCurrent /\ SteadyTeamsAreListed /\ TokensSurvive /\ TaggedOnce)
BY AdmissionPartsKeepToThemselves, AdmissionPartsTogether
==============================================================================
