-------------------------- MODULE IamPolicyProofs ---------------------------
(* Theorems about IamPolicy, for every value of its constants. *)
EXTENDS IamPolicy, TLAPS

USE ValuesAssumption

\* What a call is about, by its operation.
LEMMA CallFields ==
  \A k \in Call :
    /\ k.op \in {"grant", "revoke", "authorize"}
    /\ k.op = "authorize" => k.mem \in Views
    /\ k.op # "authorize" => k.tab \in Tables /\ k.mem \in Members
    /\ k.mem \in Members \cup Views
  BY DEF Call

\* The initial states satisfy the invariant: no table lists anybody yet.
LEMMA InvInit == Init => IInv
  BY DEF Init, IInv, TypeOK, SeenIsCurrent, EnteredFirst, HolderSeesDataset,
         EntrySteps, PolicySteps

\* A write of the access list by a client with a current etag adds the
\* client's member, and every other reader's etag is stale from then on.
LEMMA EntriesGrow ==
  ASSUME IInv, NEW c \in Clients, WriteEntries(c)
  PROVE  /\ step[c] = "writeEntries"
         /\ call[c] \in Call
         /\ call[c].op \in {"grant", "authorize"}
         /\ call[c].mem \in Members \cup Views
         /\ entries' = entries \cup {call[c].mem}
         /\ entries' \subseteq Members \cup Views
         /\ current' \subseteq Clients
         /\ \A x \in current' : x \in current /\ step[x] # "writeEntries"
         /\ UNCHANGED <<policy, call, seen>>
<1>1. step[c] = "writeEntries" /\ c \in current /\ call[c] \in Call
  BY DEF IInv, TypeOK, WriteEntries
<1>2. call[c].op \in {"grant", "authorize"} /\ call[c].mem \in Members \cup Views
  BY <1>1, CallFields DEF IInv, TypeOK, EntrySteps
<1>3. entries' = entries \cup {call[c].mem}
  BY <1>1 DEF IInv, SeenIsCurrent, WriteEntries
<1>4. current' \subseteq Clients
      /\ \A x \in current' : x \in current /\ step[x] # "writeEntries"
  BY DEF IInv, TypeOK, WriteEntries
<1>5. entries' \subseteq Members \cup Views
  BY <1>2, <1>3 DEF IInv, TypeOK
<1> QED
  BY <1>1, <1>2, <1>3, <1>4, <1>5 DEF WriteEntries

\* A write of a table's policy by a client with a current etag adds or
\* removes the client's member and nobody else, and a member that is added
\* has its entry.
LEMMA PolicyChanges ==
  ASSUME IInv, NEW c \in Clients, WritePolicy(c)
  PROVE  /\ step[c] = "writePolicy"
         /\ call[c] \in Call
         /\ call[c].op \in {"grant", "revoke"}
         /\ call[c].tab \in Tables
         /\ call[c].mem \in Members
         /\ policy' = [policy EXCEPT ![call[c].tab] =
                         IF call[c].op = "grant" THEN @ \cup {call[c].mem}
                                                 ELSE @ \ {call[c].mem}]
         /\ policy' \in [Tables -> SUBSET Members]
         /\ HolderSeesDataset'
         /\ current' \subseteq Clients
         /\ \A x \in current' : x \in current
              /\ (step[x] = "writePolicy" =>
                    call[x].tab # call[c].tab)
         /\ UNCHANGED <<entries, call, seen>>
<1>1. step[c] = "writePolicy" /\ c \in current /\ call[c] \in Call
  BY DEF IInv, TypeOK, WritePolicy
<1>2. /\ call[c].op \in {"grant", "revoke"} /\ call[c].tab \in Tables
      /\ call[c].mem \in Members
  BY <1>1, CallFields DEF IInv, TypeOK, PolicySteps
<1>3. seen[c] = policy[call[c].tab]
  BY <1>1 DEF IInv, SeenIsCurrent
<1>4. policy' = [policy EXCEPT ![call[c].tab] =
                   IF call[c].op = "grant" THEN @ \cup {call[c].mem}
                                           ELSE @ \ {call[c].mem}]
  BY <1>2, <1>3 DEF WritePolicy, IInv, TypeOK
<1>5. policy \in [Tables -> SUBSET Members]
  BY DEF IInv, TypeOK
<1>6. policy' \in [Tables -> SUBSET Members]
  BY <1>2, <1>4, <1>5
<1>7. call[c].op = "grant" => call[c].mem \in entries
  BY <1>1 DEF IInv, EnteredFirst, PolicySteps
<1>8. \A t \in Tables : policy'[t] \subseteq policy[t]
                            \cup (IF call[c].op = "grant" THEN {call[c].mem} ELSE {})
  BY <1>2, <1>4, <1>5
<1>9. HolderSeesDataset'
  BY <1>7, <1>8 DEF IInv, HolderSeesDataset, WritePolicy
<1>10. /\ current' \subseteq Clients
       /\ \A x \in current' : x \in current
            /\ (step[x] = "writePolicy" => call[x].tab # call[c].tab)
  BY DEF IInv, TypeOK, WritePolicy
<1>11. UNCHANGED <<entries, call, seen>>
  BY DEF WritePolicy
<1> QED
  BY <1>1, <1>2, <1>4, <1>6, <1>9, <1>10, <1>11

\* A call that starts is of the kind its first request belongs to, and its
\* client is not current for anything.
LEMMA Started ==
  ASSUME IInv, NEW c \in Clients, NEW k \in Call, NEW s \in {"readEntries", "readPolicy"},
         s = "readEntries" => k.op # "revoke",
         s = "readPolicy" => k.op = "revoke",
         Start(c, k, s)
  PROVE  IInv'
<1>1. /\ call' = [call EXCEPT ![c] = k] /\ step' = [step EXCEPT ![c] = s]
      /\ result' = [result EXCEPT ![c] = "none"]
      /\ UNCHANGED <<entries, policy, seen, current>>
  BY DEF Start, Goto
<1>2. TypeOK'
  BY <1>1 DEF IInv, TypeOK, EntrySteps, PolicySteps
<1>3. SeenIsCurrent'
  BY <1>1 DEF IInv, TypeOK, SeenIsCurrent
<1>4. EnteredFirst'
  BY <1>1 DEF IInv, TypeOK, EnteredFirst, PolicySteps
<1>5. HolderSeesDataset'
  BY <1>1 DEF IInv, HolderSeesDataset
<1> QED
  BY <1>2, <1>3, <1>4, <1>5 DEF IInv

\* A read that leads to a write makes the client current.
LEMMA Reads ==
  ASSUME IInv, NEW c \in Clients, ReadEntries(c) \/ ReadPolicy(c)
  PROVE  IInv'
<1>1. CASE ReadPolicy(c)
  <2>1. call[c] \in Call /\ call[c].op # "authorize"
    BY <1>1 DEF ReadPolicy, IInv, TypeOK, PolicySteps
  <2>2. call[c].tab \in Tables /\ policy[call[c].tab] \subseteq Members
    BY <2>1, CallFields DEF IInv, TypeOK
  <2>3. TypeOK'
    BY <1>1, <2>1, <2>2 DEF ReadPolicy, Goto, IInv, TypeOK, EntrySteps, PolicySteps
  <2>4. SeenIsCurrent'
    BY <1>1, <2>2 DEF ReadPolicy, Goto, IInv, TypeOK, SeenIsCurrent
  <2>5. EnteredFirst' /\ HolderSeesDataset'
    BY <1>1 DEF ReadPolicy, Goto, IInv, TypeOK, EnteredFirst, HolderSeesDataset, PolicySteps
  <2> QED
    BY <2>3, <2>4, <2>5 DEF IInv
<1>2. CASE ReadEntries(c)
  <2>1. step[c] = "readEntries" /\ call[c] \in Call /\ call[c].op \in {"grant", "authorize"}
    BY <1>2, CallFields DEF ReadEntries, IInv, TypeOK, EntrySteps
  <2>2. UNCHANGED <<entries, policy, call>>
    BY <1>2 DEF ReadEntries
  <2>3. CASE call[c].mem \in entries
    <3>1. Entered(c) /\ UNCHANGED <<seen, current>>
      BY <1>2, <2>3 DEF ReadEntries
    <3>2. \/ /\ step' = [step EXCEPT ![c] = "readPolicy"] /\ call[c].op = "grant"
             /\ UNCHANGED result
          \/ step' = [step EXCEPT ![c] = "idle"] /\ result' = [result EXCEPT ![c] = "ok"]
      BY <3>1 DEF Entered, Goto, Return
    <3>3. TypeOK'
      BY <2>1, <2>2, <3>1, <3>2 DEF IInv, TypeOK, EntrySteps, PolicySteps
    <3>4. SeenIsCurrent'
      BY <2>1, <2>2, <3>1, <3>2 DEF IInv, TypeOK, SeenIsCurrent
    <3>5. EnteredFirst' /\ HolderSeesDataset'
      BY <2>1, <2>2, <2>3, <3>2
         DEF IInv, TypeOK, EnteredFirst, HolderSeesDataset, PolicySteps
    <3> QED
      BY <3>3, <3>4, <3>5 DEF IInv
  <2>4. CASE call[c].mem \notin entries
    <3>1. /\ seen' = [seen EXCEPT ![c] = entries]
          /\ current' = current \cup {c}
          /\ step' = [step EXCEPT ![c] = "writeEntries"]
          /\ UNCHANGED result
      BY <1>2, <2>4 DEF ReadEntries, Goto
    <3>2. TypeOK'
      BY <2>1, <2>2, <3>1 DEF IInv, TypeOK, EntrySteps, PolicySteps
    <3>3. SeenIsCurrent'
      BY <2>2, <3>1 DEF IInv, TypeOK, SeenIsCurrent
    <3>4. EnteredFirst' /\ HolderSeesDataset'
      BY <2>2, <3>1 DEF IInv, TypeOK, EnteredFirst, HolderSeesDataset, PolicySteps
    <3> QED
      BY <3>2, <3>3, <3>4 DEF IInv
  <2> QED
    BY <2>3, <2>4
<1> QED
  BY <1>1, <1>2

\* The write of the access list, whatever the client does next.
LEMMA EntriesStep ==
  ASSUME IInv, NEW c \in Clients, WriteEntries(c), Entered(c) \/ Return(c, "error")
  PROVE  IInv'
<1>1. /\ step[c] = "writeEntries" /\ call[c] \in Call
      /\ call[c].op \in {"grant", "authorize"}
      /\ entries' = entries \cup {call[c].mem}
      /\ entries' \subseteq Members \cup Views
      /\ current' \subseteq Clients
      /\ \A x \in current' : x \in current /\ step[x] # "writeEntries"
      /\ UNCHANGED <<policy, call, seen>>
  BY EntriesGrow
<1>2. \/ /\ step' = [step EXCEPT ![c] = "readPolicy"] /\ call[c].op = "grant"
         /\ UNCHANGED result
      \/ \E a \in {"ok", "error"} :
           step' = [step EXCEPT ![c] = "idle"] /\ result' = [result EXCEPT ![c] = a]
  BY DEF Entered, Goto, Return
<1>3. TypeOK'
  BY <1>1, <1>2 DEF IInv, TypeOK, EntrySteps, PolicySteps
<1>4. SeenIsCurrent'
  BY <1>1, <1>2 DEF IInv, TypeOK, SeenIsCurrent
<1>5. EnteredFirst'
  BY <1>1, <1>2 DEF IInv, TypeOK, EnteredFirst, PolicySteps
<1>6. HolderSeesDataset'
  BY <1>1 DEF IInv, HolderSeesDataset
<1> QED
  BY <1>3, <1>4, <1>5, <1>6 DEF IInv

\* The write of a table's policy ends the call.
LEMMA PolicyStep ==
  ASSUME IInv, NEW c \in Clients, NEW a \in {"ok", "error"},
         WritePolicy(c), Return(c, a)
  PROVE  IInv'
<1>1. /\ step[c] = "writePolicy" /\ call[c] \in Call /\ call[c].tab \in Tables
      /\ policy' \in [Tables -> SUBSET Members]
      /\ HolderSeesDataset'
      /\ current' \subseteq Clients
      /\ UNCHANGED <<entries, call, seen>>
  BY PolicyChanges
<1>2. \A x \in current' : x \in current
         /\ (step[x] = "writePolicy" => call[x].tab # call[c].tab)
  BY PolicyChanges
<1>3. policy' = [policy EXCEPT ![call[c].tab] = policy'[call[c].tab]]
  BY <1>1 DEF WritePolicy, IInv, TypeOK
<1>4. step' = [step EXCEPT ![c] = "idle"] /\ result' = [result EXCEPT ![c] = a]
  BY DEF Return, Goto
<1>5. TypeOK'
  BY <1>1, <1>4 DEF IInv, TypeOK, EntrySteps, PolicySteps
<1>6. SeenIsCurrent'
  <2> SUFFICES ASSUME NEW x \in current'
               PROVE  /\ step'[x] = "writeEntries" => seen'[x] = entries'
                      /\ step'[x] = "writePolicy" => seen'[x] = policy'[call'[x].tab]
    BY DEF SeenIsCurrent
  <2>1. x \in Clients /\ (step'[x] # "idle" => x # c /\ step'[x] = step[x])
    BY <1>1, <1>4 DEF IInv, TypeOK
  <2>2. step'[x] = "writePolicy" =>
           call[x].tab \in Tables /\ policy'[call[x].tab] = policy[call[x].tab]
    <3> SUFFICES ASSUME step'[x] = "writePolicy"
                 PROVE  call[x].tab \in Tables /\ policy'[call[x].tab] = policy[call[x].tab]
      OBVIOUS
    <3>1. call[x] \in Call /\ call[x].op # "authorize"
      BY <2>1 DEF IInv, TypeOK, PolicySteps
    <3>2. call[x].tab \in Tables /\ call[x].tab # call[c].tab
      BY <2>1, <3>1, <1>2, CallFields
    <3> QED
      BY <3>2, <1>1, <1>3 DEF IInv, TypeOK
  <2> QED
    BY <1>1, <1>2, <2>1, <2>2 DEF IInv, SeenIsCurrent
<1>7. EnteredFirst'
  BY <1>1, <1>4 DEF IInv, TypeOK, EnteredFirst, PolicySteps
<1> QED
  BY <1>1, <1>5, <1>6, <1>7 DEF IInv

\* A request that fails changes nothing but the client.
LEMMA FailStep ==
  ASSUME IInv, NEW c \in Clients, Fails(c)
  PROVE  IInv'
<1>1. /\ step' = [step EXCEPT ![c] = "idle"] /\ result' = [result EXCEPT ![c] = "error"]
      /\ current' = current \ {c} /\ UNCHANGED <<entries, policy, call, seen>>
  BY DEF Fails, Return, Goto
<1>2. TypeOK'
  BY <1>1 DEF IInv, TypeOK, EntrySteps, PolicySteps
<1>3. SeenIsCurrent'
  BY <1>1 DEF IInv, TypeOK, SeenIsCurrent
<1>4. EnteredFirst' /\ HolderSeesDataset'
  BY <1>1 DEF IInv, TypeOK, EnteredFirst, HolderSeesDataset, PolicySteps
<1> QED
  BY <1>2, <1>3, <1>4 DEF IInv

\* Every step preserves the invariant, one case per action of Next.
THEOREM InvStep == IInv /\ [Next]_vars => IInv'
<1> SUFFICES ASSUME IInv, Next \/ UNCHANGED vars PROVE IInv'
  OBVIOUS
<1>1. ASSUME NEW c \in Clients, NEW t \in Tables, NEW m \in Members,
             Grant(c, t, m) \/ Revoke(c, t, m)
      PROVE  IInv'
  <2>1. /\ [op |-> "grant", tab |-> t, mem |-> m] \in Call
        /\ [op |-> "revoke", tab |-> t, mem |-> m] \in Call
    BY DEF Call
  <2> QED
    BY <1>1, <2>1, Started DEF Grant, Revoke
<1>2. ASSUME NEW c \in Clients, NEW v \in Views, AddToAuthorizedViews(c, v)
      PROVE  IInv'
  <2>1. [op |-> "authorize", tab |-> None, mem |-> v] \in Call
    BY DEF Call
  <2> QED
    BY <1>2, <2>1, Started DEF AddToAuthorizedViews
<1>3. ASSUME NEW c \in Clients, ReadEntries(c) \/ ReadPolicy(c)
      PROVE  IInv'
  BY <1>3, Reads
<1>4. ASSUME NEW c \in Clients, EntriesWritten(c) \/ PolicyWritten(c)
      PROVE  IInv'
  BY <1>4, EntriesStep, PolicyStep DEF EntriesWritten, PolicyWritten
<1>5. ASSUME NEW c \in Clients, AnswerLost(c)
      PROVE  IInv'
  BY <1>5, EntriesStep, PolicyStep DEF AnswerLost
<1>6. ASSUME NEW c \in Clients, Fails(c)
      PROVE  IInv'
  BY <1>6, FailStep
<1>7. CASE UNCHANGED vars
  BY <1>7 DEF vars, IInv, TypeOK, SeenIsCurrent, EnteredFirst, HolderSeesDataset
<1> QED
  BY <1>1, <1>2, <1>3, <1>4, <1>5, <1>6, <1>7 DEF Next

\* The invariant: what TLC finds on a few clients and tables holds for any
\* number of them.
THEOREM Invariant == Spec => []IInv
  BY InvInit, InvStep, PTL DEF Spec

\* Whoever may read a table of a dataset finds the dataset.
THEOREM HoldersSeeDatasets == Spec => []HolderSeesDataset
<1>1. IInv => HolderSeesDataset
  BY DEF IInv
<1> QED
  BY <1>1, Invariant, PTL

(***************************************************************************)
(* The refinement.  A client that still has to write the access list has   *)
(* yet to "enter", one that has to write the policy has yet to "set".      *)
(***************************************************************************)

\* How the stage of a client moves with its step.
LEMMA StageMoves ==
  ASSUME step \in [Clients -> {"idle"} \cup EntrySteps \cup PolicySteps],
         NEW c \in Clients, NEW s \in {"idle"} \cup EntrySteps \cup PolicySteps,
         step' = [step EXCEPT ![c] = s]
  PROVE  /\ s = "idle" => stage' = [stage EXCEPT ![c] = "idle"]
         /\ s \in EntrySteps => stage' = [stage EXCEPT ![c] = "enter"]
         /\ s \in PolicySteps => stage' = [stage EXCEPT ![c] = "set"]
  BY DEF stage, EntrySteps, PolicySteps

\* What stage a client is in.
LEMMA StageOf ==
  \A c \in Clients :
    /\ step[c] = "idle" => stage[c] = "idle"
    /\ step[c] \in EntrySteps => stage[c] = "enter"
    /\ step[c] \in PolicySteps => stage[c] = "set"
  BY DEF stage, EntrySteps, PolicySteps

\* A step that leaves the client in its stage and writes nothing is not seen.
LEMMA Unseen ==
  ASSUME NEW c \in Clients, NEW x, stage' = [stage EXCEPT ![c] = x], stage[c] = x,
         UNCHANGED <<entries, policy, call, result>>
  PROVE  UNCHANGED <<entries, policy, stage, call, result>>
<1>1. stage = [d \in Clients |-> stage[d]]
  BY DEF stage
<1>2. stage' = stage
  BY <1>1
<1> QED
  BY <1>2

\* The initial states are initial states of AtomicPolicy.
LEMMA RefineInit == Init => Atomic!Init
  BY DEF Init, Atomic!Init, stage, EntrySteps, PolicySteps

\* Every step is a step of AtomicPolicy or is not seen by it; that the write
\* adds to what is there, and not to what was there, is SeenIsCurrent.
THEOREM RefineStep == IInv /\ [Next]_vars => [Atomic!Next]_(Atomic!vars)
<1> SUFFICES ASSUME IInv, Next \/ UNCHANGED vars
             PROVE  Atomic!Next \/ UNCHANGED Atomic!vars
  OBVIOUS
<1> USE StageOf
<1>t. /\ step \in [Clients -> {"idle"} \cup EntrySteps \cup PolicySteps]
      /\ \A c \in Clients : step[c] # "idle" => call[c] \in Call
  BY DEF IInv, TypeOK
<1>s. /\ "idle" \in {"idle"} \cup EntrySteps \cup PolicySteps
      /\ {"readEntries", "writeEntries"} = EntrySteps
      /\ {"readPolicy", "writePolicy"} = PolicySteps
  BY DEF EntrySteps, PolicySteps
<1>k. Atomic!Call = Call
  BY DEF Call, Atomic!Call
<1>1. ASSUME NEW c \in Clients, NEW t \in Tables, NEW m \in Members,
             Grant(c, t, m) \/ Revoke(c, t, m)
      PROVE  Atomic!Next
  <2>1. CASE Grant(c, t, m)
    <3> DEFINE k == [op |-> "grant", tab |-> t, mem |-> m]
    <3>1. k \in Atomic!Call
      BY <1>k DEF Call
    <3>2. stage' = [stage EXCEPT ![c] = "enter"]
      BY <2>1, <1>t, <1>s, StageMoves DEF Grant, Start, Goto
    <3>3. Atomic!Begin(c)
      BY <2>1, <3>1, <3>2 DEF Grant, Start, Atomic!Begin
    <3> QED
      BY <3>3 DEF Atomic!Next
  <2>2. CASE Revoke(c, t, m)
    <3> DEFINE k == [op |-> "revoke", tab |-> t, mem |-> m]
    <3>1. k \in Atomic!Call
      BY <1>k DEF Call
    <3>2. stage' = [stage EXCEPT ![c] = "set"]
      BY <2>2, <1>t, <1>s, StageMoves DEF Revoke, Start, Goto
    <3>3. Atomic!Begin(c)
      BY <2>2, <3>1, <3>2 DEF Revoke, Start, Atomic!Begin
    <3> QED
      BY <3>3 DEF Atomic!Next
  <2> QED
    BY <1>1, <2>1, <2>2
<1>2. ASSUME NEW c \in Clients, NEW v \in Views, AddToAuthorizedViews(c, v)
      PROVE  Atomic!Next
  <2> DEFINE k == [op |-> "authorize", tab |-> None, mem |-> v]
  <2>1. k \in Atomic!Call
    BY <1>k DEF Call
  <2>2. stage' = [stage EXCEPT ![c] = "enter"]
    BY <1>2, <1>t, <1>s, StageMoves DEF AddToAuthorizedViews, Start, Goto
  <2>3. Atomic!Begin(c)
    BY <1>2, <2>1, <2>2 DEF AddToAuthorizedViews, Start, Atomic!Begin
  <2> QED
    BY <2>3 DEF Atomic!Next
<1>3. ASSUME NEW c \in Clients, ReadEntries(c)
      PROVE  Atomic!Next \/ UNCHANGED Atomic!vars
  <2>1. step[c] = "readEntries" /\ stage[c] = "enter" /\ UNCHANGED <<entries, policy, call>>
    BY <1>3, <1>s DEF ReadEntries
  <2>2. CASE call[c].mem \notin entries
    <3>1. stage' = [stage EXCEPT ![c] = "enter"] /\ UNCHANGED result
      BY <1>3, <1>t, <1>s, <2>2, StageMoves DEF ReadEntries, Goto
    <3> QED
      BY <2>1, <3>1, Unseen DEF Atomic!vars
  <2>3. CASE call[c].mem \in entries
    <3>1. entries' = entries \cup {call[c].mem}
      BY <2>1, <2>3
    <3>2. Atomic!EnterOnly(c)
      BY <2>1, <3>1 DEF Atomic!EnterOnly
    <3>3. Entered(c)
      BY <1>3, <2>3 DEF ReadEntries
    <3>4. CASE call[c].op = "grant"
      <4>1. stage' = [stage EXCEPT ![c] = "set"] /\ UNCHANGED result
        BY <3>3, <3>4, <1>t, <1>s, StageMoves DEF Entered, Goto
      <4> QED
        BY <3>2, <3>4, <4>1 DEF Atomic!Enter, Atomic!Next
    <3>5. CASE call[c].op # "grant"
      <4>1. /\ stage' = [stage EXCEPT ![c] = "idle"]
            /\ result' = [result EXCEPT ![c] = "ok"]
        BY <3>3, <3>5, <1>t, <1>s, StageMoves DEF Entered, Return, Goto
      <4> QED
        BY <3>2, <3>5, <4>1 DEF Atomic!Enter, Atomic!Return, Atomic!Next
    <3> QED
      BY <3>4, <3>5
  <2> QED
    BY <2>2, <2>3
<1>4. ASSUME NEW c \in Clients, EntriesWritten(c)
      PROVE  Atomic!Next
  <2>1. WriteEntries(c) /\ Entered(c)
    BY <1>4 DEF EntriesWritten
  <2>2. step[c] = "writeEntries" /\ entries' = entries \cup {call[c].mem}
        /\ UNCHANGED <<policy, call>>
    BY <2>1, EntriesGrow
  <2>3. Atomic!EnterOnly(c)
    BY <2>2, <1>s DEF Atomic!EnterOnly
  <2>4. CASE call[c].op = "grant"
    <3>1. stage' = [stage EXCEPT ![c] = "set"] /\ UNCHANGED result
      BY <2>1, <2>4, <1>t, <1>s, StageMoves DEF Entered, Goto
    <3> QED
      BY <2>3, <2>4, <3>1 DEF Atomic!Enter, Atomic!Next
  <2>5. CASE call[c].op # "grant"
    <3>1. /\ stage' = [stage EXCEPT ![c] = "idle"]
          /\ result' = [result EXCEPT ![c] = "ok"]
      BY <2>1, <2>5, <1>t, <1>s, StageMoves DEF Entered, Return, Goto
    <3> QED
      BY <2>3, <2>5, <3>1 DEF Atomic!Enter, Atomic!Return, Atomic!Next
  <2> QED
    BY <2>4, <2>5
<1>5. ASSUME NEW c \in Clients, ReadPolicy(c)
      PROVE  UNCHANGED Atomic!vars
  <2>1. /\ stage' = [stage EXCEPT ![c] = "set"] /\ stage[c] = "set"
        /\ UNCHANGED <<entries, policy, call, result>>
    BY <1>5, <1>t, <1>s, StageMoves DEF ReadPolicy, Goto
  <2> QED
    BY <2>1, Unseen DEF Atomic!vars
<1>6. ASSUME NEW c \in Clients, WritePolicy(c)
      PROVE  Atomic!SetOnly(c)
  <2>1. step[c] = "writePolicy" /\ UNCHANGED <<entries, call>>
    BY <1>6, PolicyChanges
  <2>2. policy' = [policy EXCEPT ![call[c].tab] =
                     IF call[c].op = "grant" THEN @ \cup {call[c].mem}
                                             ELSE @ \ {call[c].mem}]
    BY <1>6, PolicyChanges
  <2> QED
    BY <2>1, <2>2, <1>s DEF Atomic!SetOnly
<1>7. ASSUME NEW c \in Clients, NEW a \in {"ok", "error"}, step[c] # "idle", Return(c, a)
      PROVE  Atomic!Return(c, a) /\ stage[c] # "idle"
  <2>1. stage[c] # "idle"
    BY <1>7, <1>t
  <2>2. stage' = [stage EXCEPT ![c] = "idle"] /\ result' = [result EXCEPT ![c] = a]
    BY <1>7, <1>t, <1>s, StageMoves DEF Return, Goto
  <2> QED
    BY <2>1, <2>2 DEF Atomic!Return
<1>8. ASSUME NEW c \in Clients, PolicyWritten(c)
      PROVE  Atomic!Next
  <2>1. WritePolicy(c) /\ Return(c, "ok") /\ step[c] # "idle"
    BY <1>8 DEF PolicyWritten, WritePolicy
  <2> QED
    BY <2>1, <1>6, <1>7 DEF Atomic!Set, Atomic!Next
<1>9. ASSUME NEW c \in Clients, AnswerLost(c)
      PROVE  Atomic!Next
  <2>1. Return(c, "error") /\ step[c] # "idle" /\ (WriteEntries(c) \/ WritePolicy(c))
    BY <1>9 DEF AnswerLost, WriteEntries, WritePolicy
  <2>2. ASSUME WriteEntries(c) PROVE Atomic!EnterOnly(c)
    <3>1. step[c] = "writeEntries" /\ entries' = entries \cup {call[c].mem}
          /\ UNCHANGED <<policy, call>>
      BY <2>2, EntriesGrow
    <3> QED
      BY <3>1, <1>s DEF Atomic!EnterOnly
  <2> QED
    BY <2>1, <2>2, <1>6, <1>7 DEF Atomic!Fail, Atomic!Next
<1>10. ASSUME NEW c \in Clients, Fails(c)
       PROVE  Atomic!Next
  BY <1>10, <1>7 DEF Fails, Atomic!Fail, Atomic!Next
<1>11. CASE UNCHANGED vars
  BY <1>11 DEF vars, stage, Atomic!vars
<1> QED
  BY <1>1, <1>2, <1>3, <1>4, <1>5, <1>8, <1>9, <1>10, <1>11 DEF Next

\* The client implements the atomic changes that the services rely on.
THEOREM Refinement == Spec => ChangesAreAtomic
  BY RefineInit, RefineStep, Invariant, PTL DEF Spec, ChangesAreAtomic, Atomic!Spec

=============================================================================
