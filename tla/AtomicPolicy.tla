---------------------------- MODULE AtomicPolicy ----------------------------
(***************************************************************************)
(* What the BigQuery client promises the services (bigQueryAPI.Grant,      *)
(* Revoke, AddToAuthorizedViews): each of the one or two changes a call    *)
(* makes is made at once or not at all, whatever others do meanwhile.  A   *)
(* call that returns without an error has made all of its changes; one     *)
(* that fails may have made some.                                          *)
(***************************************************************************)
CONSTANTS Clients, Tables, Members, Views, None

VARIABLES
    entries,    \* the access list of the BigQuery dataset
    policy,     \* per table, the members with roles/bigquery.dataViewer
    stage,      \* what a call has yet to do: "enter", "set" or nothing ("idle")
    call,       \* what it was called for
    result      \* what the last call of a client returned

vars == <<entries, policy, stage, call, result>>

Call == [op : {"grant", "revoke"}, tab : Tables, mem : Members]
            \cup [op : {"authorize"}, tab : {None}, mem : Views]

Init ==
    /\ entries \in SUBSET Views
    /\ policy = [t \in Tables |-> {}]
    /\ stage = [c \in Clients |-> "idle"]
    /\ call = [c \in Clients |-> None]
    /\ result = [c \in Clients |-> "none"]

Begin(c) ==
    /\ stage[c] = "idle"
    /\ \E k \in Call :
         /\ call' = [call EXCEPT ![c] = k]
         /\ stage' = [stage EXCEPT ![c] = IF k.op = "revoke" THEN "set" ELSE "enter"]
    /\ result' = [result EXCEPT ![c] = "none"]
    /\ UNCHANGED <<entries, policy>>

Return(c, answer) ==
    /\ stage' = [stage EXCEPT ![c] = "idle"]
    /\ result' = [result EXCEPT ![c] = answer]

EnterOnly(c) ==
    /\ stage[c] = "enter"
    /\ entries' = entries \cup {call[c].mem}
    /\ UNCHANGED <<policy, call>>

Enter(c) ==
    /\ EnterOnly(c)
    /\ IF call[c].op = "grant"
       THEN stage' = [stage EXCEPT ![c] = "set"] /\ UNCHANGED result
       ELSE Return(c, "ok")

SetOnly(c) ==
    /\ stage[c] = "set"
    /\ policy' = [policy EXCEPT ![call[c].tab] =
                     IF call[c].op = "grant" THEN @ \cup {call[c].mem}
                                             ELSE @ \ {call[c].mem}]
    /\ UNCHANGED <<entries, call>>

Set(c) == SetOnly(c) /\ Return(c, "ok")

Fail(c) ==
    /\ stage[c] # "idle"
    /\ Return(c, "error")
    /\ \/ UNCHANGED <<entries, policy, call>>
       \/ EnterOnly(c)
       \/ SetOnly(c)

Next == \E c \in Clients : Begin(c) \/ Enter(c) \/ Set(c) \/ Fail(c)

Spec == Init /\ [][Next]_vars
=============================================================================
