----------------------------- MODULE IamPolicy ------------------------------
(***************************************************************************)
(* The BigQuery client, bq.go.  A dataset's access list and a table's IAM  *)
(* policy can only be read and written whole: every change is a read, a    *)
(* change of what was read, and a write that carries the etag of the read. *)
(* The write is refused when somebody wrote in between, and no call tries  *)
(* again.  Grant makes two such changes, one on each resource.             *)
(***************************************************************************)
CONSTANTS
    Clients,    \* handlers and ensurers, on all pods
    Tables,     \* tables of one BigQuery dataset
    Members,    \* users, groups and service accounts
    Views,      \* views that are authorised to read the dataset
    None

ASSUME ValuesAssumption ==
    /\ Members \cap Views = {}
    /\ None \notin Tables

VARIABLES
    entries,    \* the access list of the dataset
    policy,     \* the policy of each table, of role dataViewer
    step,       \* the request a client sends next
    call,       \* what the client was called for
    seen,       \* what it read
    current,    \* clients whose etag is still the resource's
    result      \* what its last call returned

vars == <<entries, policy, step, call, seen, current, result>>

Call == [op : {"grant", "revoke"}, tab : Tables, mem : Members]
            \cup [op : {"authorize"}, tab : {None}, mem : Views]

EntrySteps == {"readEntries", "writeEntries"}
PolicySteps == {"readPolicy", "writePolicy"}

Init ==
    /\ entries \in SUBSET Views
    /\ policy = [t \in Tables |-> {}]
    /\ step = [c \in Clients |-> "idle"]
    /\ call = [c \in Clients |-> None]
    /\ seen = [c \in Clients |-> {}]
    /\ current = {}
    /\ result = [c \in Clients |-> "none"]

Goto(c, s) == step' = [step EXCEPT ![c] = s]

Return(c, answer) ==
    /\ Goto(c, "idle")
    /\ result' = [result EXCEPT ![c] = answer]

-----------------------------------------------------------------------------
Start(c, k, s) ==
    /\ step[c] = "idle"
    /\ call' = [call EXCEPT ![c] = k]
    /\ result' = [result EXCEPT ![c] = "none"]
    /\ Goto(c, s)
    /\ UNCHANGED <<entries, policy, seen, current>>

Grant(c, t, m) ==
    Start(c, [op |-> "grant", tab |-> t, mem |-> m], "readEntries")

Revoke(c, t, m) ==
    Start(c, [op |-> "revoke", tab |-> t, mem |-> m], "readPolicy")

AddToAuthorizedViews(c, v) ==
    Start(c, [op |-> "authorize", tab |-> None, mem |-> v], "readEntries")

-----------------------------------------------------------------------------
\* Grant goes on with the table; the other call is done.
Entered(c) ==
    IF call[c].op = "grant"
    THEN Goto(c, "readPolicy") /\ UNCHANGED result
    ELSE Return(c, "ok")

\* The dataset's metadata; an entry that is there already is left alone.
ReadEntries(c) ==
    /\ step[c] = "readEntries"
    /\ IF call[c].mem \in entries
       THEN Entered(c) /\ UNCHANGED <<seen, current>>
       ELSE /\ seen' = [seen EXCEPT ![c] = entries]
            /\ current' = current \cup {c}
            /\ Goto(c, "writeEntries")
            /\ UNCHANGED result
    /\ UNCHANGED <<entries, policy, call>>

\* mutant: the update carries no etag
WriteEntriesBlindly(c) ==
    /\ step[c] = "writeEntries"
    /\ entries' = seen[c] \cup {call[c].mem}
    /\ current' = {x \in current : step[x] # "writeEntries"}
    /\ UNCHANGED <<policy, call, seen>>

\* An etag is stale as soon as anybody has written.
WriteEntries(c) ==
    /\ step[c] = "writeEntries"
    /\ c \in current
    /\ entries' = seen[c] \cup {call[c].mem}
    /\ current' = {x \in current : step[x] # "writeEntries"}
    /\ UNCHANGED <<policy, call, seen>>

ReadPolicy(c) ==
    /\ step[c] = "readPolicy"
    /\ seen' = [seen EXCEPT ![c] = policy[call[c].tab]]
    /\ current' = current \cup {c}
    /\ Goto(c, "writePolicy")
    /\ UNCHANGED <<entries, policy, call, result>>

\* mutant: a policy without an etag
WritePolicyBlindly(c) ==
    /\ step[c] = "writePolicy"
    /\ policy' = [policy EXCEPT ![call[c].tab] =
                     IF call[c].op = "grant" THEN seen[c] \cup {call[c].mem}
                                             ELSE seen[c] \ {call[c].mem}]
    /\ current' = {x \in current :
                      ~ (step[x] = "writePolicy" /\ call[x].tab = call[c].tab)}
    /\ UNCHANGED <<entries, call, seen>>

WritePolicy(c) ==
    /\ step[c] = "writePolicy"
    /\ c \in current
    /\ policy' = [policy EXCEPT ![call[c].tab] =
                     IF call[c].op = "grant" THEN seen[c] \cup {call[c].mem}
                                             ELSE seen[c] \ {call[c].mem}]
    /\ current' = {x \in current :
                      ~ (step[x] = "writePolicy" /\ call[x].tab = call[c].tab)}
    /\ UNCHANGED <<entries, call, seen>>

-----------------------------------------------------------------------------
EntriesWritten(c) == WriteEntries(c) /\ Entered(c)

PolicyWritten(c) == WritePolicy(c) /\ Return(c, "ok")

\* The write is made and its answer gets lost.
AnswerLost(c) ==
    /\ WriteEntries(c) \/ WritePolicy(c)
    /\ Return(c, "error")

\* A request fails, is refused because its etag is stale, or the pod dies.
Fails(c) ==
    /\ step[c] # "idle"
    /\ Return(c, "error")
    /\ current' = current \ {c}
    /\ UNCHANGED <<entries, policy, call, seen>>

Next == \E c \in Clients :
    \/ \E t \in Tables, m \in Members : Grant(c, t, m)
    \/ \E t \in Tables, m \in Members : Revoke(c, t, m)
    \/ \E v \in Views : AddToAuthorizedViews(c, v)
    \/ ReadEntries(c)
    \/ EntriesWritten(c)
    \/ ReadPolicy(c)
    \/ PolicyWritten(c)
    \/ AnswerLost(c)
    \/ Fails(c)

Spec == Init /\ [][Next]_vars

-----------------------------------------------------------------------------
(* Properties *)

\* Every variable has its type; a client that runs was called for something.
TypeOK ==
    /\ entries \subseteq Members \cup Views
    /\ policy \in [Tables -> SUBSET Members]
    /\ step \in [Clients -> {"idle"} \cup EntrySteps \cup PolicySteps]
    /\ call \in [Clients -> Call \cup {None}]
    /\ seen \in [Clients -> SUBSET (Members \cup Views)]
    /\ current \subseteq Clients
    /\ result \in [Clients -> {"none", "ok", "error"}]
    /\ \A c \in Clients : step[c] # "idle" => call[c] \in Call
    /\ \A c \in Clients : step[c] \in PolicySteps => call[c].op # "authorize"
    /\ \A c \in Clients : step[c] \in EntrySteps => call[c].op # "revoke"

\* What a client with a current etag has read is what is there.
SeenIsCurrent ==
    \A c \in current :
        /\ step[c] = "writeEntries" => seen[c] = entries
        /\ step[c] = "writePolicy" => seen[c] = policy[call[c].tab]

\* A grant that has its entry keeps it until it comes to the table.
EnteredFirst ==
    \A c \in Clients :
        (step[c] \in PolicySteps /\ call[c].op = "grant") => call[c].mem \in entries

\* Whoever may read a table of the dataset finds the dataset: no overlap of
\* grants and authorised views drops the metadata entry of a member that a
\* table lists.
HolderSeesDataset ==
    \A t \in Tables : policy[t] \subseteq entries

IInv == TypeOK /\ SeenIsCurrent /\ EnteredFirst /\ HolderSeesDataset

-----------------------------------------------------------------------------
(* The read and the write of a change look like one step.                  *)

stage == [c \in Clients |->
            IF step[c] \in EntrySteps THEN "enter"
            ELSE IF step[c] \in PolicySteps THEN "set"
            ELSE "idle"]

Atomic == INSTANCE AtomicPolicy
    WITH entries <- entries, policy <- policy, stage <- stage, call <- call,
         result <- result

\* No update is lost and none is made twice: the client implements the calls
\* that AtomicPolicy promises, on which AccessGrants builds its IAM steps.
ChangesAreAtomic == Atomic!Spec
=============================================================================
