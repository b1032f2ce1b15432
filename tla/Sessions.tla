------------------------------ MODULE Sessions ------------------------------
(***************************************************************************)
(* Who a request acts for: login, session, and the groups of the user      *)
(* (api.go, middleware.go, session.go, groups_cache.go).                   *)
(*                                                                         *)
(* One user, one browser, one pod; every pod has a cache of its own.  The  *)
(* cache has one value for each e-mail, with Google groups and Azure       *)
(* groups that are fetched and expire apart.  A request that misses asks   *)
(* the directory and stores the answer when it has it; others go on        *)
(* meanwhile, and they may have asked later and stored earlier.            *)
(***************************************************************************)
EXTENDS Integers, FiniteSets

CONSTANTS
    Tokens,         \* of sessions
    States,         \* of OAuth, one for each click on login
    Requests,       \* requests to the pod
    CacheDuration,  \* one hour
    SessionLength,  \* seven hours
    MaxTime,        \* the clock stops there
    NoToken

ASSUME SessionsAssumption ==
    /\ CacheDuration \in Nat /\ SessionLength \in Nat /\ MaxTime \in Nat
    /\ NoToken \notin Tokens \cup States

\* The two directories, in the order in which they are asked
Directories == {"azure", "google"}
Never == -1
Times == 0..MaxTime

VARIABLES
    now,        \* the clock
    inGroup,    \* is the user in the group that matters, says each directory
    left,       \* history: since when the user is not in it
    cached,     \* the pod's cache of what each directory said, and until when
    expires,    \* sessions: when each expires, or Never
    browser,    \* its cookies: the session's and the OAuth state's
    consents,   \* logins that Azure has not answered yet
    visit,      \* the requests
    late        \* history: directories whose answer was stored when the user had left

sessionsVars == <<now, inGroup, left, cached, expires, browser, consents, visit, late>>

Visit == [step : {"idle", "azure", "azureAsk", "azureStore", "google", "googleAsk",
                  "googleStore", "acts"},
          began : Times, answer : BOOLEAN,
          groups : SUBSET Directories]

NoVisit == [step |-> "idle", began |-> 0, answer |-> FALSE, groups |-> {}]

SessionsInit ==
    /\ now = 0
    /\ inGroup = [d \in Directories |-> TRUE]
    /\ left = [d \in Directories |-> Never]
    /\ cached = [d \in Directories |-> [answer |-> FALSE, until |-> Never]]
    /\ expires = [t \in Tokens |-> Never]
    /\ browser = [session |-> NoToken, state |-> NoToken]
    /\ consents = {}
    /\ visit = [r \in Requests |-> NoVisit]
    /\ late = {}

PassTime ==
    /\ now < MaxTime
    /\ now' = now + 1
    /\ UNCHANGED <<inGroup, left, cached, expires, browser, consents, visit, late>>

LeaveGroup(d) ==
    /\ inGroup[d]
    /\ inGroup' = [inGroup EXCEPT ![d] = FALSE]
    /\ left' = [left EXCEPT ![d] = now]
    /\ UNCHANGED <<now, cached, expires, browser, consents, visit, late>>

-----------------------------------------------------------------------------
(* Login, Callback, Logout *)

Login(s) ==
    /\ s \notin consents
    /\ consents' = consents \cup {s}
    /\ browser' = [browser EXCEPT !.state = s]
    /\ UNCHANGED <<now, inGroup, left, cached, expires, visit, late>>

\* The cookie with the state is deleted, and then compared: an answer to an
\* older click takes the newer one with it.  A code that Azure does not
\* exchange or a session that is not stored ends in an error page too.
CallbackRefused(s) ==
    /\ s \in consents
    /\ consents' = consents \ {s}
    /\ browser' = [browser EXCEPT !.state = NoToken]
    /\ UNCHANGED <<now, inGroup, left, cached, expires, visit, late>>

Callback(s, t) ==
    /\ s \in consents
    /\ browser.state = s
    /\ expires[t] = Never
    /\ consents' = consents \ {s}
    /\ expires' = [expires EXCEPT ![t] = now + SessionLength]
    /\ browser' = [session |-> t, state |-> NoToken]
    /\ UNCHANGED <<now, inGroup, left, cached, visit, late>>

\* The cookie goes, the session stays.
Logout ==
    /\ browser.session # NoToken
    /\ browser' = [browser EXCEPT !.session = NoToken]
    /\ UNCHANGED <<now, inGroup, left, cached, expires, consents, visit, late>>

-----------------------------------------------------------------------------
(* The middleware *)

VisitAt(r, step) == visit[r].step = step
VisitGoto(r, step) == visit' = [visit EXCEPT ![r].step = step]

\* GetSession: the session of the cookie, if it has time left
GetSession == browser.session # NoToken /\ expires[browser.session] > now

\* Without a session the request goes on without a user; it is over for this
\* module.
validateUser(r) ==
    /\ visit[r] = NoVisit
    /\ GetSession
    /\ visit' = [visit EXCEPT ![r] = [NoVisit EXCEPT !.step = "azure", !.began = now]]
    /\ UNCHANGED <<now, inGroup, left, cached, expires, browser, consents, late>>

\* GetAzureGroups, GetGoogleGroups
Hit(d) == cached[d].until >= now

Ask(d) == IF d = "azure" THEN "azureAsk" ELSE "googleAsk"
Store(d) == IF d = "azure" THEN "azureStore" ELSE "googleStore"
After(d) == IF d = "azure" THEN "google" ELSE "acts"

Credited(r, d, answer) ==
    visit' = [visit EXCEPT ![r].step = After(d),
                           ![r].groups = IF answer THEN @ \cup {d} ELSE @,
                           ![r].answer = FALSE]

LookUp(r, d) ==
    /\ VisitAt(r, d)
    /\ IF Hit(d) THEN Credited(r, d, cached[d].answer) ELSE VisitGoto(r, Ask(d))
    /\ UNCHANGED <<now, inGroup, left, cached, expires, browser, consents, late>>

\* GroupsForUser: an error that comes as JSON counts as a user without groups.
AzureAnswers == {inGroup["azure"], FALSE}

\* Groups: an error of Google is an error (EndVisit).
GoogleAnswers == {inGroup["google"]}

AskDirectory(r, d) ==
    /\ VisitAt(r, Ask(d))
    /\ \E answer \in IF d = "azure" THEN AzureAnswers ELSE GoogleAnswers :
         visit' = [visit EXCEPT ![r].step = Store(d), ![r].answer = answer]
    /\ UNCHANGED <<now, inGroup, left, cached, expires, browser, consents, late>>

\* mutant: the value that both directories share has one expiry
SetBoth(d, answer) ==
    cached' = [x \in Directories |-> [answer |-> IF x = d THEN answer ELSE cached[x].answer,
                                      until |-> now + CacheDuration]]

\* mutant: an hour more
SetGroupsLonger(d, answer) ==
    cached' = [cached EXCEPT ![d] = [answer |-> answer, until |-> now + CacheDuration + 1]]

\* SetAzureGroups, SetGoogleGroups
SetGroups(d, answer) ==
    cached' = [cached EXCEPT ![d] = [answer |-> answer, until |-> now + CacheDuration]]

StoreGroups(r, d) ==
    /\ VisitAt(r, Store(d))
    /\ SetGroups(d, visit[r].answer)
    /\ late' = IF visit[r].answer /\ ~ inGroup[d] THEN late \cup {d} ELSE late
    /\ Credited(r, d, visit[r].answer)
    /\ UNCHANGED <<now, inGroup, left, expires, browser, consents>>

\* It is served, a directory answers with an error, or it is given up.
EndVisit(r) ==
    /\ visit[r] # NoVisit
    /\ visit' = [visit EXCEPT ![r] = NoVisit]
    /\ UNCHANGED <<now, inGroup, left, cached, expires, browser, consents, late>>

SessionsNext ==
    \/ PassTime \/ Logout
    \/ \E d \in Directories : LeaveGroup(d)
    \/ \E s \in States : Login(s) \/ CallbackRefused(s) \/ \E t \in Tokens : Callback(s, t)
    \/ \E r \in Requests :
         \/ validateUser(r) \/ EndVisit(r)
         \/ \E d \in Directories : LookUp(r, d) \/ AskDirectory(r, d) \/ StoreGroups(r, d)

SessionsSpec == SessionsInit /\ [][SessionsNext]_sessionsVars

-----------------------------------------------------------------------------
(* Properties *)

\* Every variable has its type.
SessionsTypeOK ==
    /\ now \in Times
    /\ inGroup \in [Directories -> BOOLEAN]
    /\ left \in [Directories -> Times \cup {Never}]
    /\ cached \in [Directories -> [answer : BOOLEAN, until : {Never} \cup 0..(MaxTime + CacheDuration)]]
    /\ expires \in [Tokens -> {Never} \cup 0..(MaxTime + SessionLength)]
    /\ browser \in [session : Tokens \cup {NoToken}, state : States \cup {NoToken}]
    /\ consents \subseteq States
    /\ visit \in [Requests -> Visit]
    /\ late \subseteq Directories

\* A request that begins an hour after its user has left a group does not act
\* for that group, unless an answer from before has been stored after: the
\* other directory's refreshes, misses and errors do not prolong anything.
GroupsAreCurrent ==
    \A r \in Requests, d \in Directories \ late :
        d \in visit[r].groups /\ left[d] # Never
            => visit[r].began <= left[d] + CacheDuration
=============================================================================
