------------------------------ MODULE Publishing ------------------------------
(***************************************************************************)
(* What teams publish: stories, joinable views, data products and their    *)
(* datasets with the schemas shown of them, keywords, and the teams that   *)
(* all of it hangs on. One part is in motion at a time. The parts share a  *)
(* database and a cloud but no row, so that to each of them the others are *)
(* pauses: moving alone, it does all that it can do. Which part it is, is  *)
(* chosen at the start.                                                    *)
(***************************************************************************)
EXTENDS Stories, JoinableViews, Catalogue, DatasourceSync, Keywords,
        TeamCatalogue

VARIABLE publishing   \* the part in motion

publishingVars == <<publishing, storiesVars, joinableVars, catalogueVars,
                    syncVars, keywordsVars, teamCatalogueVars>>

PublishingParts == {"stories", "views", "catalogue", "schemas", "keywords", "teams"}

\* A part at rest is in one of its initial states, the same each time.
AtRestPublishing ==
  /\ publishing # "views" =>
       place = CHOOSE f \in [Sources -> BqDatasets] : TRUE
  /\ publishing # "teams" =>
       areaOf = CHOOSE f \in [CatalogueTeams -> Areas] : TRUE

PublishingInit ==
  /\ publishing \in PublishingParts
  /\ StoriesInit /\ JoinablesInit /\ CatalogueInit /\ SyncInit
  /\ KeywordsInit /\ TeamCatalogueInit
  /\ AtRestPublishing

StillPublishing(p) ==
  /\ p # "stories" => UNCHANGED storiesVars
  /\ p # "views" => UNCHANGED joinableVars
  /\ p # "catalogue" => UNCHANGED catalogueVars
  /\ p # "schemas" => UNCHANGED syncVars
  /\ p # "keywords" => UNCHANGED keywordsVars
  /\ p # "teams" => UNCHANGED teamCatalogueVars
  /\ UNCHANGED publishing

PublishingNext ==
  \/ publishing = "stories" /\ StoriesNext /\ StillPublishing("stories")
  \/ publishing = "views" /\ JoinablesNext /\ StillPublishing("views")
  \/ publishing = "catalogue" /\ CatalogueNext /\ StillPublishing("catalogue")
  \/ publishing = "schemas" /\ SyncNext /\ StillPublishing("schemas")
  \/ publishing = "keywords" /\ KeywordsNext /\ StillPublishing("keywords")
  \/ publishing = "teams" /\ TeamCatalogueNext /\ StillPublishing("teams")

PublishingSpec == PublishingInit /\ [][PublishingNext]_publishingVars

\* Every variable of the part in motion has its type.
PublishingTypeOK ==
  /\ publishing = "stories" => StoriesTypeOK
  /\ publishing = "views" => JoinablesTypeOK
  /\ publishing = "catalogue" => CatalogueTypeOK
  /\ publishing = "schemas" => SyncTypeOK
  /\ publishing = "keywords" => KeywordsTypeOK
  /\ publishing = "teams" => TeamCatalogueTypeOK

===============================================================================
