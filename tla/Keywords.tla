------------------------------ MODULE Keywords ------------------------------
(***************************************************************************)
(* The keywords of datasets and stories, and the administrators' edit that *)
(* retires some of them everywhere: one Postgres transaction that runs a   *)
(* statement per keyword and table, first removals, then replacements.     *)
(* Statements run at READ COMMITTED: each sees what is committed when it   *)
(* starts, and holds the rows it wrote until the transaction ends.         *)
(***************************************************************************)
EXTENDS Sequences

CONSTANTS
  DatasetItems,   \* datasets that carry keywords
  StoryItems,     \* stories that carry keywords
  Words,          \* keywords
  Renamings,      \* replacements that administrators may ask for
  KeywordJobs,    \* edits of the administrators in flight
  Absent          \* no such item; no row held; no replacement

ASSUME KeywordsAssumption ==
  /\ DatasetItems \cap StoryItems = {}
  /\ Absent \notin Words
  /\ Renamings \subseteq Words \X Words
  /\ \A held \in SUBSET Words : held # Absent

VARIABLES
  words,    \* the keywords of each item, as committed
  job,      \* the administrators' edits
  retired   \* history: items and the keywords taken from them for good

keywordsVars == <<words, job, retired>>

Items == DatasetItems \cup StoryItems

Statement == [table : {DatasetItems, StoryItems}, from : Words,
              to : Words \cup {Absent}]

IdleJob == [busy |-> FALSE, work |-> <<>>, gone |-> {}, given |-> {},
            held |-> [i \in Items |-> Absent], seen |-> {}]

HeldBy(j) == {i \in Items : job[j].held[i] # Absent}

Locked(i) == \E j \in KeywordJobs : i \in HeldBy(j)

KeywordsInit ==
  /\ words = [i \in Items |-> Absent]
  /\ job = [j \in KeywordJobs |-> IdleJob]
  /\ retired = {}

(***************************************************************************)
(* Teams write whole lists of keywords. A written row that an edit holds   *)
(* waits for that edit.                                                    *)
(***************************************************************************)
WriteKeywords(i, ws) ==
  /\ ~Locked(i)
  /\ words' = [words EXCEPT ![i] = ws]
  /\ retired' = {r \in retired : r[1] # i}
  /\ UNCHANGED job

RemoveItem(i) ==
  /\ words[i] # Absent /\ ~Locked(i)
  /\ words' = [words EXCEPT ![i] = Absent]
  /\ retired' = {r \in retired : r[1] # i}
  /\ job' = [j \in KeywordJobs |-> [job[j] EXCEPT !.seen = @ \ {i}]]

(***************************************************************************)
(* UpdateKeywords: each keyword takes a statement on the datasets and one  *)
(* on the stories. The request names the keywords to drop and, in two      *)
(* parallel lists, the replacements.                                       *)
(***************************************************************************)
\* mutant: the stories are forgotten
RemoveInDatasets(w) == <<[table |-> DatasetItems, from |-> w, to |-> Absent]>>

RemoveKeyword(w) ==
  <<[table |-> DatasetItems, from |-> w, to |-> Absent],
    [table |-> StoryItems, from |-> w, to |-> Absent]>>

ReplaceKeyword(w, v) ==
  <<[table |-> DatasetItems, from |-> w, to |-> v],
    [table |-> StoryItems, from |-> w, to |-> v]>>

BeginJob(j, work, gone, given) ==
  /\ ~job[j].busy
  /\ job' = [job EXCEPT ![j] = [IdleJob EXCEPT !.busy = TRUE, !.work = work,
               !.gone = gone \ given, !.given = given,
               !.seen = {i \in Items : words[i] # Absent}]]
  /\ UNCHANGED <<words, retired>>

UpdateKeywords(j) ==
  \/ \E w \in Words : BeginJob(j, RemoveKeyword(w), {w}, {})
  \/ \E w, v \in Words :
       <<w, v>> \in Renamings /\ BeginJob(j, ReplaceKeyword(w, v), {w}, {v})
  \/ \E o, w, v \in Words :
       /\ <<w, v>> \in Renamings
       /\ BeginJob(j, RemoveKeyword(o) \o ReplaceKeyword(w, v), {o, w}, {v})

\* What the transaction of j sees of an item.
SeenBy(j, i) == IF job[j].held[i] # Absent THEN job[j].held[i] ELSE words[i]

\* array_remove and array_replace
Edited(ws, s) ==
  IF s.from \notin ws THEN ws
  ELSE (ws \ {s.from}) \cup (IF s.to = Absent THEN {} ELSE {s.to})

\* A statement updates every row of its table and waits for rows held.
RunStatement(j) ==
  /\ job[j].work # <<>>
  /\ LET s == Head(job[j].work)
         rows == {i \in s.table : words[i] # Absent}
     IN /\ \A k \in KeywordJobs \ {j} : HeldBy(k) \cap s.table = {}
        /\ job' = [job EXCEPT ![j].work = Tail(@),
             ![j].held = [i \in Items |-> IF i \in rows
                            THEN Edited(SeenBy(j, i), s) ELSE @[i]]]
  /\ UNCHANGED <<words, retired>>

Commit(j) ==
  /\ job[j].busy /\ job[j].work = <<>>
  /\ words' = [i \in Items |-> SeenBy(j, i)]
  /\ retired' = {r \in retired : r[2] \notin job[j].given}
                  \cup (job[j].seen \X job[j].gone)
  /\ job' = [job EXCEPT ![j] = IdleJob]

\* A failed statement, a list of replacements too short (a panic) or a lost
\* connection: the deferred rollback.
Rollback(j) ==
  /\ job[j].busy
  /\ job' = [job EXCEPT ![j] = IdleJob]
  /\ UNCHANGED <<words, retired>>

KeywordsNext ==
  \/ \E i \in Items, ws \in SUBSET Words : WriteKeywords(i, ws)
  \/ \E i \in Items : RemoveItem(i)
  \/ \E j \in KeywordJobs :
       \/ UpdateKeywords(j)
       \/ RunStatement(j)
       \/ Commit(j)
       \/ Rollback(j)

KeywordsSpec == KeywordsInit /\ [][KeywordsNext]_keywordsVars

\* Every variable has its type.
KeywordsTypeOK ==
  /\ words \in [Items -> {Absent} \cup (SUBSET Words)]
  /\ job \in [KeywordJobs ->
       [busy : BOOLEAN, work : Seq(Statement), gone : SUBSET Words,
        given : SUBSET Words, held : [Items -> {Absent} \cup (SUBSET Words)],
        seen : SUBSET Items]]
  /\ retired \in SUBSET (Items \X Words)

\* After an edit is stored, no dataset and no story that was there when it
\* began carries a keyword it retired, until its team writes the keyword
\* again or a later edit renames another keyword to it: whatever else was
\* written, inserted or edited between its statements.
RetiredIsGone == \A r \in retired : r[2] \notin words[r[1]]

=============================================================================
