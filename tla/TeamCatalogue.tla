--------------------------- MODULE TeamCatalogue ---------------------------
(***************************************************************************)
(* Teams and product areas, copied from Teamkatalogen. Every pod runs the  *)
(* syncer, leader or not: it asks for the product areas, then area by area *)
(* for their teams, and stores what it gathered in one transaction. The    *)
(* answers go through a cache in Postgres that the pods share. A team may  *)
(* move between areas meanwhile, and then be listed twice or not at all.   *)
(***************************************************************************)
EXTENDS Integers

CONSTANTS
  Areas,            \* product areas, numbered as the catalogue lists them
  CatalogueTeams,   \* teams of Teamkatalogen
  CataloguePods,    \* pods, each with a syncer
  Lifetime,         \* hours an answer is served from the cache
  LastHour,         \* bound of the clock
  NoAnswer          \* nothing cached, no row, no answer yet

ASSUME TeamCatalogueAssumption ==
  /\ Areas \in SUBSET Nat /\ Areas # {}
  /\ Lifetime \in Nat /\ LastHour \in Nat
  /\ NoAnswer \notin Areas

VARIABLES
  hour,      \* the clock
  areaOf,    \* the product area of each team in Teamkatalogen
  lastIn,    \* history: when a team that left an area was last in it
  listing,   \* http_cache: the teams of an area
  pass,      \* the syncers
  teamRow    \* table tk_teams

teamCatalogueVars == <<hour, areaOf, lastIn, listing, pass, teamRow>>

Hours == 0..LastHour

NotEver == -1

Listing == [teams : SUBSET CatalogueTeams, stored : Hours, slow : BOOLEAN]

Steps == {"idle", "get", "set", "upsert"}

NoPass == [step |-> "idle", left |-> {}, began |-> 0, asked |-> 0,
           answer |-> {}, slow |-> FALSE,
           gathered |-> [t \in CatalogueTeams |-> NoAnswer]]

\* The team was in the area at some moment at or after the hour.
WasIn(t, a, h) ==
  areaOf[t] = a \/ (lastIn[t][a] # NotEver /\ lastIn[t][a] >= h)

TeamsOf(a) == {t \in CatalogueTeams : areaOf[t] = a}

TeamCatalogueInit ==
  /\ hour = 0
  /\ areaOf \in [CatalogueTeams -> Areas]
  /\ lastIn = [t \in CatalogueTeams |-> [a \in Areas |-> NotEver]]
  /\ listing = [a \in Areas |-> NoAnswer]
  /\ pass = [p \in CataloguePods |-> NoPass]
  /\ teamRow = [t \in CatalogueTeams |-> NoAnswer]

PassHour ==
  /\ hour < LastHour
  /\ hour' = hour + 1
  /\ UNCHANGED <<areaOf, lastIn, listing, pass, teamRow>>

MoveTeam(t, a) ==
  /\ areaOf[t] # a
  /\ lastIn' = [lastIn EXCEPT ![t][areaOf[t]] = hour, ![t][a] = NotEver]
  /\ areaOf' = [areaOf EXCEPT ![t] = a]
  /\ UNCHANGED <<hour, listing, pass, teamRow>>

(***************************************************************************)
(* RunOnce, on every pod and at any time.                                  *)
(***************************************************************************)
GetProductAreas(p) ==
  /\ pass[p].step = "idle"
  /\ pass' = [pass EXCEPT ![p] =
       [NoPass EXCEPT !.step = "get", !.left = Areas, !.began = hour]]
  /\ UNCHANGED <<hour, areaOf, lastIn, listing, teamRow>>

\* The areas are asked for in the order they are listed.
Area(p) == CHOOSE a \in pass[p].left : \A b \in pass[p].left : a <= b

\* allTeams grows by an area: what a later area says of a team wins.
Gather(r, a, teams, slow) ==
  [r EXCEPT
     !.left = @ \ {a}, !.answer = {}, !.asked = 0,
     !.gathered = [t \in CatalogueTeams |-> IF t \in teams THEN a ELSE @[t]],
     !.slow = @ \/ slow,
     !.step = IF r.left = {a} THEN "upsert" ELSE "get"]

\* mutant: entries never expire
AlwaysCacheHit(a) == listing[a] # NoAnswer

CacheHit(a) ==
  /\ listing[a] # NoAnswer
  /\ hour - listing[a].stored <= Lifetime

CachedTeams(p) ==
  /\ pass[p].step = "get"
  /\ CacheHit(Area(p))
  /\ pass' = [pass EXCEPT ![p] =
       Gather(@, Area(p), listing[Area(p)].teams, listing[Area(p)].slow)]
  /\ UNCHANGED <<hour, areaOf, lastIn, listing, teamRow>>

\* No entry, an expired one, or a cache that cannot be read: the catalogue is
\* asked.
GetTeamsInProductArea(p) ==
  /\ pass[p].step = "get"
  /\ pass' = [pass EXCEPT ![p].step = "set", ![p].asked = hour,
                          ![p].answer = TeamsOf(Area(p))]
  /\ UNCHANGED <<hour, areaOf, lastIn, listing, teamRow>>

\* The entry is dated when it is stored, not when it was answered. An entry
\* that cannot be stored is only logged.
SetListing(p) ==
  /\ pass[p].step = "set"
  /\ LET slow == hour # pass[p].asked IN
     /\ \/ listing' = [listing EXCEPT ![Area(p)] =
             [teams |-> pass[p].answer, stored |-> hour, slow |-> slow]]
        \/ UNCHANGED listing
     /\ pass' = [pass EXCEPT ![p] = Gather(@, Area(p), @.answer, FALSE)]
  /\ UNCHANGED <<hour, areaOf, lastIn, teamRow>>

\* One transaction; teams not gathered keep their rows.
UpsertProductAreaAndTeam(p) ==
  /\ pass[p].step = "upsert"
  /\ teamRow' = [t \in CatalogueTeams |->
       LET a == pass[p].gathered[t] IN
       IF a = NoAnswer THEN teamRow[t] ELSE a]
  /\ pass' = [pass EXCEPT ![p] = NoPass]
  /\ UNCHANGED <<hour, areaOf, lastIn, listing>>

\* An error of the catalogue or of Postgres (a deadlock between two pods
\* that upsert the teams in different orders is one), or a pod that dies.
PassFails(p) ==
  /\ pass[p].step # "idle"
  /\ pass' = [pass EXCEPT ![p] = NoPass]
  /\ UNCHANGED <<hour, areaOf, lastIn, listing, teamRow>>

TeamCatalogueNext ==
  \/ PassHour
  \/ \E t \in CatalogueTeams, a \in Areas : MoveTeam(t, a)
  \/ \E p \in CataloguePods :
       \/ GetProductAreas(p)
       \/ CachedTeams(p)
       \/ GetTeamsInProductArea(p)
       \/ SetListing(p)
       \/ UpsertProductAreaAndTeam(p)
       \/ PassFails(p)

TeamCatalogueSpec == TeamCatalogueInit /\ [][TeamCatalogueNext]_teamCatalogueVars

\* Every variable has its type.
TeamCatalogueTypeOK ==
  /\ hour \in Hours
  /\ areaOf \in [CatalogueTeams -> Areas]
  /\ lastIn \in [CatalogueTeams -> [Areas -> Hours \cup {NotEver}]]
  /\ \A a \in Areas : listing[a] = NoAnswer \/ listing[a] \in Listing
  /\ pass \in [CataloguePods ->
       [step : Steps, left : SUBSET Areas, began : Hours, asked : Hours,
        answer : SUBSET CatalogueTeams, slow : BOOLEAN,
        gathered : [CatalogueTeams -> Areas \cup {NoAnswer}]]]
  /\ teamRow \in [CatalogueTeams -> Areas \cup {NoAnswer}]

\* The product area a pass stores for a team is one the team was in no longer
\* ago than the cache lives, counted from the start of the pass: whatever the
\* team was listed under twice, and whichever pod filled the cache. Excused
\* is a pass that used an entry stored later than it was answered, which the
\* cache takes for fresher than it is.
StoredAreaIsRecent ==
  [][\A p \in CataloguePods :
       UpsertProductAreaAndTeam(p) /\ ~pass[p].slow =>
         \A t \in CatalogueTeams : pass[p].gathered[t] # NoAnswer =>
           WasIn(t, teamRow'[t], pass[p].began - Lifetime)]_teamCatalogueVars

=============================================================================
