------------------------------ MODULE Admission -------------------------------
(***************************************************************************)
(* Who may act, and as whom: sessions and the groups behind them, the      *)
(* tokens of teams, the members of Metabase's groups, the service accounts *)
(* of its databases, and the tag on what is restricted there. One part is  *)
(* in motion at a time, as in module Publishing.                           *)
(***************************************************************************)
EXTENDS MetabaseMembers, ServiceAccounts, Sessions, TeamTokens,
        MetabaseCollections

VARIABLE admission   \* the part in motion

admissionVars == <<admission, membersVars, accountsVars, sessionsVars,
                   tokensVars, collectionsVars>>

AdmissionParts == {"members", "accounts", "sessions", "tokens", "collections"}

\* A part at rest is in one of its initial states, the same each time.
AtRestAdmission ==
  /\ admission # "members" =>
       LET p == CHOOSE p \in People : TRUE
       IN \A i \in AccessIds : rights[i].who = p
  /\ admission # "tokens" => leading = CHOOSE p \in Updaters : TRUE

AdmissionInit ==
  /\ admission \in AdmissionParts
  /\ MembersInit /\ AccountsInit /\ SessionsInit /\ TokensInit
  /\ CollectionsInit
  /\ AtRestAdmission

StillAdmission(p) ==
  /\ p # "members" => UNCHANGED membersVars
  /\ p # "accounts" => UNCHANGED accountsVars
  /\ p # "sessions" => UNCHANGED sessionsVars
  /\ p # "tokens" => UNCHANGED tokensVars
  /\ p # "collections" => UNCHANGED collectionsVars
  /\ UNCHANGED admission

AdmissionNext ==
  \/ admission = "members" /\ MembersNext /\ StillAdmission("members")
  \/ admission = "accounts" /\ AccountsNext /\ StillAdmission("accounts")
  \/ admission = "sessions" /\ SessionsNext /\ StillAdmission("sessions")
  \/ admission = "tokens" /\ TokensNext /\ StillAdmission("tokens")
  \/ admission = "collections" /\ CollectionsNext /\ StillAdmission("collections")

AdmissionSpec == AdmissionInit /\ [][AdmissionNext]_admissionVars

\* Every variable of the part in motion has its type.
AdmissionTypeOK ==
  /\ admission = "members" => MembersTypeOK
  /\ admission = "accounts" => AccountsTypeOK
  /\ admission = "sessions" => SessionsTypeOK
  /\ admission = "tokens" => TokensTypeOK
  /\ admission = "collections" => CollectionsTypeOK

===============================================================================
