----------------------------- MODULE TeamTokens -----------------------------
(***************************************************************************)
(* The teams of the NAIS console and their tokens                          *)
(* (teamprojectsupdater.go, nc.go, postgres_nais_console.go,               *)
(* service_tokens.go).                                                     *)
(*                                                                         *)
(* A pod that leads asks the console for all teams, page by page, and puts *)
(* the answer in the place of the table team_projects, in one transaction. *)
(* A trigger gives each team that is inserted a token, once; stories are   *)
(* uploaded with it.  The list may change between two pages, a page may be *)
(* an error that reads as an empty one, and leadership may move while the  *)
(* old leader still works.                                                 *)
(***************************************************************************)
EXTENDS Naturals, FiniteSets

CONSTANTS
    Slugs,      \* teams, numbers: the console lists them in this order
    Limit,      \* teams on a page
    Updaters,   \* pods
    Uploaders,  \* requests with a token
    Secrets,    \* tokens
    NoSecret

ASSUME SlugsAssumption ==
    /\ Slugs \subseteq Nat \ {0} /\ IsFiniteSet(Slugs)
    /\ Limit \in Nat \ {0}
    /\ NoSecret \notin Secrets

VARIABLES
    console,    \* the teams there are
    projects,   \* team_projects
    tokens,     \* nada_tokens
    leading,    \* the pod that the elector names
    update,     \* what each updater is at
    upload,     \* requests in the middleware
    owner,      \* history: whose each token is or was
    rotated,    \* history: tokens that their teams have given up
    steady      \* history: teams that the last refresh had no excuse to miss

tokensVars == <<console, projects, tokens, leading, update, upload, owner, rotated, steady>>

Update == [step : {"idle", "fetch", "store"}, offset : Nat, found : SUBSET Slugs,
           there : SUBSET Slugs]    \* history: teams that the pass has no excuse to miss:
                                    \* none, once a team has left or a page was an error
Upload == [step : {"idle", "valid", "admitted"}, token : Secrets \cup {NoSecret},
           team : Slugs \cup {0}]

NoUpdate == [step |-> "idle", offset |-> 0, found |-> {}, there |-> {}]
NoUpload == [step |-> "idle", token |-> NoSecret, team |-> 0]

TokensInit ==
    /\ console = Slugs
    /\ projects = {}
    /\ tokens = [t \in Slugs |-> NoSecret]
    /\ leading \in Updaters
    /\ update = [p \in Updaters |-> NoUpdate]
    /\ upload = [r \in Uploaders |-> NoUpload]
    /\ owner = [k \in Secrets |-> 0]
    /\ rotated = {}
    /\ steady = {}

-----------------------------------------------------------------------------
(* NAIS: the console and the elector *)

TeamLeaves(t) ==
    /\ t \in console
    /\ console' = console \ {t}
    /\ update' = [p \in Updaters |->
         IF update[p].step = "fetch"
         THEN [update[p] EXCEPT !.there = {}] ELSE update[p]]
    /\ UNCHANGED <<projects, tokens, leading, upload, owner, rotated, steady>>

TeamJoins(t) ==
    /\ t \notin console
    /\ console' = console \cup {t}
    /\ UNCHANGED <<projects, tokens, leading, update, upload, owner, rotated, steady>>

Elect(p) ==
    /\ p # leading
    /\ leading' = p
    /\ UNCHANGED <<console, projects, tokens, update, upload, owner, rotated, steady>>

-----------------------------------------------------------------------------
(* RunOnce *)

RunOnce(p) ==
    /\ update[p] = NoUpdate
    /\ leading = p
    /\ update' = [update EXCEPT ![p] = [NoUpdate EXCEPT !.step = "fetch", !.there = console]]
    /\ UNCHANGED <<console, projects, tokens, leading, upload, owner, rotated, steady>>

Before(t) == {s \in console : s < t}
Page(offset) == {t \in console : Cardinality(Before(t)) \in offset..(offset + Limit - 1)}
HasNextPage(offset) == Cardinality(console) > offset + Limit

\* mutant: one team between two pages is skipped
NextOffsetSkips(offset) == offset + Limit + 1

NextOffset(offset) == offset + Limit

GetTeamGoogleProjects(p) ==
    /\ update[p].step = "fetch"
    /\ LET o == update[p].offset
       IN update' = [update EXCEPT ![p].found = @ \cup Page(o),
                                   ![p].offset = IF HasNextPage(o) THEN NextOffset(o) ELSE 0,
                                   ![p].step = IF HasNextPage(o) THEN "fetch" ELSE "store"]
    /\ UNCHANGED <<console, projects, tokens, leading, upload, owner, rotated, steady>>

\* An error of GraphQL has status 200 and no data: an empty page, the last.
ErrorIsEmptyPage(p) ==
    /\ update[p].step = "fetch"
    /\ update' = [update EXCEPT ![p].offset = 0, ![p].step = "store", ![p].there = {}]
    /\ UNCHANGED <<console, projects, tokens, leading, upload, owner, rotated, steady>>

FreshSecrets == {k \in Secrets : owner[k] = 0}

\* mutant: the trigger gives a new token every time
TokensForAll(teams, given) == [t \in Slugs |-> IF t \in teams THEN given[t] ELSE tokens[t]]

\* The trigger on team_projects: nothing if there is a token
TokensFor(teams, given) ==
    [t \in Slugs |-> IF t \in teams /\ tokens[t] = NoSecret THEN given[t] ELSE tokens[t]]

\* One transaction: the table is emptied, filled, and its trigger fires.
UpdateAllTeamProjects(p) ==
    /\ update[p].step = "store"
    /\ projects' = update[p].found
    /\ LET new == {t \in update[p].found : tokens[t] = NoSecret}
       IN \E given \in [update[p].found -> Secrets] :
            /\ \A t \in new : /\ given[t] \in FreshSecrets
                              /\ \A s \in new \ {t} : given[s] # given[t]
            /\ tokens' = TokensFor(update[p].found, given)
    /\ owner' = [k \in Secrets |-> IF \E t \in Slugs : tokens'[t] = k
                                   THEN CHOOSE t \in Slugs : tokens'[t] = k ELSE owner[k]]
    /\ steady' = update[p].there
    /\ update' = [update EXCEPT ![p] = NoUpdate]
    /\ UNCHANGED <<console, leading, upload, rotated>>

\* An error, or the end of the pod
UpdateFails(p) ==
    /\ update[p] # NoUpdate
    /\ update' = [update EXCEPT ![p] = NoUpdate]
    /\ UNCHANGED <<console, projects, tokens, leading, upload, owner, rotated, steady>>

-----------------------------------------------------------------------------
(* Tokens *)

\* A member of team@nav.no asks for it; a team without a row gets none.
RotateNadaToken(t, k) ==
    /\ tokens[t] # NoSecret
    /\ k \in FreshSecrets
    /\ tokens' = [tokens EXCEPT ![t] = k]
    /\ owner' = [owner EXCEPT ![k] = t]
    /\ rotated' = rotated \cup {tokens[t]}
    /\ UNCHANGED <<console, projects, leading, update, upload, steady>>

\* NadaTokenMiddleware: is it one of the tokens?
ValidateToken(r, k) ==
    /\ upload[r] = NoUpload
    /\ \E t \in Slugs : tokens[t] = k
    /\ upload' = [upload EXCEPT ![r] = [step |-> "valid", token |-> k, team |-> 0]]
    /\ UNCHANGED <<console, projects, tokens, leading, update, owner, rotated, steady>>

\* And, read anew, whose is it?  If it has been rotated: unauthorized.
GetTeamFromNadaToken(r) ==
    /\ upload[r].step = "valid"
    /\ \E t \in Slugs :
         /\ tokens[t] = upload[r].token
         /\ upload' = [upload EXCEPT ![r].step = "admitted", ![r].team = t]
    /\ UNCHANGED <<console, projects, tokens, leading, update, owner, rotated, steady>>

EndUpload(r) ==
    /\ upload[r] # NoUpload
    /\ upload' = [upload EXCEPT ![r] = NoUpload]
    /\ UNCHANGED <<console, projects, tokens, leading, update, owner, rotated, steady>>

TokensNext ==
    \/ \E t \in Slugs : \/ TeamLeaves(t) \/ TeamJoins(t)
                        \/ \E k \in Secrets : RotateNadaToken(t, k)
    \/ \E p \in Updaters :
         \/ Elect(p) \/ RunOnce(p) \/ GetTeamGoogleProjects(p) \/ ErrorIsEmptyPage(p)
         \/ UpdateAllTeamProjects(p) \/ UpdateFails(p)
    \/ \E r \in Uploaders :
         \/ \E k \in Secrets : ValidateToken(r, k)
         \/ GetTeamFromNadaToken(r) \/ EndUpload(r)

TokensSpec == TokensInit /\ [][TokensNext]_tokensVars

-----------------------------------------------------------------------------
(* Properties *)

\* Every variable has its type.
TokensTypeOK ==
    /\ console \subseteq Slugs
    /\ projects \subseteq Slugs
    /\ tokens \in [Slugs -> Secrets \cup {NoSecret}]
    /\ leading \in Updaters
    /\ update \in [Updaters -> Update]
    /\ upload \in [Uploaders -> Upload]
    /\ owner \in [Secrets -> Slugs \cup {0}]
    /\ rotated \subseteq Secrets
    /\ steady \subseteq Slugs

\* A refresh leaves out no team that was in the console from its first page to
\* its last, unless a team has left meanwhile, which shifts the pages, or a
\* page was an error.
SteadyTeamsAreListed == steady \subseteq projects

\* A token that was ever given is its team's token, however often the table is
\* emptied and filled and whether or not the team is in it, until the team has
\* rotated it; and who is admitted with it acts for that team.
TokensSurvive ==
    /\ \A k \in Secrets : owner[k] # 0 => tokens[owner[k]] = k \/ k \in rotated
    /\ \A r \in Uploaders : upload[r].step = "admitted" => owner[upload[r].token] = upload[r].team
=============================================================================
