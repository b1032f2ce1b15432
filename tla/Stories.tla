------------------------------ MODULE Stories -------------------------------
(***************************************************************************)
(* Data stories (service_story.go, gcp_story.go, cs.go): a story is a row  *)
(* in Postgres and a folder of files in a bucket, which is served to       *)
(* everybody.  No handler does both at once: it changes the row, and then  *)
(* one object after the other; an error ends it where it is.               *)
(*                                                                         *)
(* call[c] is a handler in flight: `step' is the request it makes next,    *)
(* the other fields are its arguments and local variables.                 *)
(***************************************************************************)
EXTENDS Naturals, FiniteSets

CONSTANTS
    StoryIds,       \* ids of stories, those that clients choose included
    StoryTeams,     \* the teams that own stories
    Files,          \* names of files, numbered in the order of their names
    IndexPages,     \* those that end in /index.html
    Pages,          \* those that end in .html
    Uploads,        \* what files contain
    StoryCalls,     \* handlers in flight
    NoStory         \* no team, no contents

ASSUME FilesAssumption ==
    /\ Files \subseteq Nat
    /\ IndexPages \subseteq Pages
    /\ Pages \subseteq Files
    /\ NoStory \notin StoryTeams \cup Uploads

VARIABLES
    stories,    \* the table stories: the group of each, or NoStory for no row
    bucket,     \* what each story's folder holds
    call,       \* the handlers
    promised    \* history: what each folder should hold by the calls that succeeded,
                \* or NoStory when a call failed on it or two calls overlapped

storiesVars == <<stories, bucket, call, promised>>

-----------------------------------------------------------------------------
(* Types *)

Cut == "cut"    \* what a failed copy leaves: part of a file
Folder == [Files -> Uploads \cup {Cut, NoStory}]
EmptyFolder == [f \in Files |-> NoStory]
Holds(folder) == {f \in Files : folder[f] # NoStory}

Operations == {"create", "append", "recreate", "delete", "update"}

StoryCall == [op : Operations, id : StoryIds, team : StoryTeams,
              upload : Uploads, files : SUBSET Files,
              step : {"insert", "guard", "list", "clear", "write",
                      "deleteRow", "updateRow"},
              left : SUBSET Files,      \* objects still to be written or deleted
              group : StoryTeams,       \* the new group of an update
              alone : BOOLEAN,          \* history: has nobody else been at the story?
              failed : BOOLEAN]         \* is this the clean-up of a failed creation?

ASSUME NoCallAssumption == NoStory \notin StoryCall

StoriesInit ==
    /\ stories = [s \in StoryIds |-> NoStory]
    /\ bucket = [s \in StoryIds |-> EmptyFolder]
    /\ call = [c \in StoryCalls |-> NoStory]
    /\ promised = bucket

-----------------------------------------------------------------------------
(* Statements and storage *)

InFlight == {c \in StoryCalls : call[c] # NoStory}
BusyOn(s) == {c \in InFlight : call[c].id = s}
StoryAt(c, step) == c \in InFlight /\ call[c].step = step

GetStory(s) == stories[s]

\* A story that the query does not find is an error.
StoryExists(s) == GetStory(s) # NoStory

\* The team is compared with the story's group.
OwnsStory(s, team) == StoryExists(s) /\ GetStory(s) = team

\* INSERT: a client may name the id, and the id of another row is refused.
InsertStory(s, team) ==
    /\ ~ StoryExists(s)
    /\ stories' = [stories EXCEPT ![s] = team]

UpdateStoryRow(s, team) ==
    /\ StoryExists(s)
    /\ stories' = [stories EXCEPT ![s] = team]

DeleteStoryRow(s) == stories' = [stories EXCEPT ![s] = NoStory]

-----------------------------------------------------------------------------
(* Handlers *)

Spoil(s) == promised' = [promised EXCEPT ![s] = NoStory]

\* A call begins.  Whoever else is at the story is alone no more.
BeginStoryCall(c, op, s, t, v, fs, g, step) ==
    /\ call[c] = NoStory
    /\ call' = [x \in StoryCalls |->
         IF x = c
         THEN [op |-> op, id |-> s, team |-> t, upload |-> v, files |-> fs, step |-> step,
               left |-> IF op = "recreate" THEN {} ELSE fs, group |-> g,
               alone |-> BusyOn(s) = {}, failed |-> FALSE]
         ELSE IF x \in BusyOn(s) THEN [call[x] EXCEPT !.alone = FALSE] ELSE call[x]]
    /\ IF BusyOn(s) = {} THEN UNCHANGED promised ELSE Spoil(s)
    /\ UNCHANGED <<stories, bucket>>

\* Creation names the group: the user's choice, or the team of the token.
CreateStory(c, s, t, v, fs) == BeginStoryCall(c, "create", s, t, v, fs, t, "insert")

\* A story of the team is created without files; they are appended later.
CreateStoryForTeam(c, s, t, v) == CreateStory(c, s, t, v, {})

AppendStoryFiles(c, s, t, v, fs) == BeginStoryCall(c, "append", s, t, v, fs, t, "guard")

RecreateStoryFiles(c, s, t, v, fs) == BeginStoryCall(c, "recreate", s, t, v, fs, t, "guard")

DeleteStory(c, s, t, v) == BeginStoryCall(c, "delete", s, t, v, {}, t, "guard")

UpdateStory(c, s, t, v, g) == BeginStoryCall(c, "update", s, t, v, {}, g, "guard")

Proceed(c, step) == call' = [call EXCEPT ![c].step = step]
EndStoryCall(c) == call' = [call EXCEPT ![c] = NoStory]

\* What the folder should hold once a call has succeeded: one that cleared it,
\* undisturbed, has repaired what others had spoiled.
StorySucceeds(c, op) ==
    LET s == call[c].id
        uploaded(folder) == [f \in Files |-> IF f \in call[c].files THEN call[c].upload
                                                                   ELSE folder[f]]
    IN /\ EndStoryCall(c)
       /\ promised' = [promised EXCEPT ![s] =
            CASE op \in {"recreate", "delete", "cleanup"} ->
                    IF ~ call[c].alone THEN NoStory
                    ELSE IF op = "recreate" THEN uploaded(EmptyFolder) ELSE EmptyFolder
              [] op \in {"create", "append"} -> IF @ = NoStory THEN @ ELSE uploaded(@)
              [] op = "update" -> @]

\* mutant: GetStory is not asked
GuardSkipped(c) ==
    /\ StoryAt(c, "guard")
    /\ CASE call[c].op = "append"   -> Proceed(c, "write")
         [] call[c].op = "recreate" -> Proceed(c, "list")
         [] call[c].op = "delete"   -> Proceed(c, "deleteRow")
         [] call[c].op = "update"   -> Proceed(c, "updateRow")
    /\ UNCHANGED <<stories, bucket, promised>>

\* GetStory, and a caller who is refused gets no further: StoryCallFails.
StoryGuard(c) ==
    /\ StoryAt(c, "guard")
    /\ OwnsStory(call[c].id, call[c].team)
    /\ CASE call[c].op = "append"   -> Proceed(c, "write")
         [] call[c].op = "recreate" -> Proceed(c, "list")
         [] call[c].op = "delete"   -> Proceed(c, "deleteRow")
         [] call[c].op = "update"   -> Proceed(c, "updateRow")
    /\ UNCHANGED <<stories, bucket, promised>>

CreateRow(c) ==
    /\ StoryAt(c, "insert")
    /\ InsertStory(call[c].id, call[c].team)
    /\ Proceed(c, "write")
    /\ UNCHANGED <<bucket, promised>>

DeleteRow(c) ==
    /\ StoryAt(c, "deleteRow")
    /\ DeleteStoryRow(call[c].id)
    /\ Proceed(c, "list")
    /\ UNCHANGED <<bucket, promised>>

UpdateRow(c) ==
    /\ StoryAt(c, "updateRow")
    /\ UpdateStoryRow(call[c].id, call[c].group)
    /\ StorySucceeds(c, "update")
    /\ UNCHANGED bucket

-----------------------------------------------------------------------------
(* Objects *)

\* One object of the list is written; the handler answers when all are.
WriteFile(c, f) ==
    /\ StoryAt(c, "write")
    /\ f \in call[c].left
    /\ bucket' = [bucket EXCEPT ![call[c].id][f] = call[c].upload]
    /\ call' = [call EXCEPT ![c].left = @ \ {f}]
    /\ UNCHANGED <<stories, promised>>

\* CreateStory ends with a look at the row, the other two do not.
WrittenAll(c) ==
    /\ StoryAt(c, "write")
    /\ call[c].left = {}
    /\ call[c].op = "create" => StoryExists(call[c].id)
    /\ StorySucceeds(c, call[c].op)
    /\ UNCHANGED <<stories, bucket>>

\* The objects of the folder at the time the iteration starts.
ListObjects(c) ==
    /\ StoryAt(c, "list")
    /\ call' = [call EXCEPT ![c].step = "clear", ![c].left = Holds(bucket[call[c].id])]
    /\ UNCHANGED <<stories, bucket, promised>>

\* mutant: the first object of the list is all that is deleted
DeleteFirst(c, f) ==
    /\ StoryAt(c, "clear")
    /\ f \in call[c].left
    /\ bucket[call[c].id][f] # NoStory
    /\ bucket' = [bucket EXCEPT ![call[c].id][f] = NoStory]
    /\ call' = [call EXCEPT ![c].left = {}]
    /\ UNCHANGED <<stories, promised>>

\* An object that somebody else has deleted is an error.
DeleteObject(c, f) ==
    /\ StoryAt(c, "clear")
    /\ f \in call[c].left
    /\ bucket[call[c].id][f] # NoStory
    /\ bucket' = [bucket EXCEPT ![call[c].id][f] = NoStory]
    /\ call' = [call EXCEPT ![c].left = @ \ {f}]
    /\ UNCHANGED <<stories, promised>>

\* A failed creation that is cleaned up leaves its row and an empty folder.
Cleared(c) ==
    /\ StoryAt(c, "clear")
    /\ call[c].left = {}
    /\ CASE call[c].failed -> StorySucceeds(c, "cleanup")
         [] call[c].op = "delete" -> StorySucceeds(c, "delete")
         [] OTHER ->
              /\ call' = [call EXCEPT ![c].step = "write", ![c].left = call[c].files]
              /\ UNCHANGED promised
    /\ UNCHANGED <<stories, bucket>>

-----------------------------------------------------------------------------
(* Failures *)

\* The copy fails when part of a file has been sent: the writer is closed by
\* the deferred Close, which stores that part.
CopyFails(c, f) ==
    /\ StoryAt(c, "write")
    /\ f \in call[c].left
    /\ bucket' = [bucket EXCEPT ![call[c].id][f] = Cut]
    /\ IF call[c].op = "create"
       THEN call' = [call EXCEPT ![c].step = "list", ![c].failed = TRUE]
       ELSE EndStoryCall(c)
    /\ Spoil(call[c].id)
    /\ UNCHANGED stories

\* A call fails and nothing has come of it.  Files that cannot be written are
\* cleaned up when the story is new.
StoryCallFails(c) ==
    /\ c \in InFlight
    /\ IF call[c].step = "write" /\ call[c].op = "create" /\ call[c].left # {}
       THEN call' = [call EXCEPT ![c].step = "list", ![c].failed = TRUE]
       ELSE EndStoryCall(c)
    /\ IF call[c].step \in {"write", "list", "clear"} THEN Spoil(call[c].id)
                                                     ELSE UNCHANGED promised
    /\ UNCHANGED <<stories, bucket>>

\* The pod stops, or the answer to the handler's statement gets lost.
StoryCrash(c) ==
    /\ c \in InFlight
    /\ EndStoryCall(c)
    /\ Spoil(call[c].id)
    /\ \/ UNCHANGED stories
       \/ call[c].step = "insert" /\ InsertStory(call[c].id, call[c].team)
       \/ call[c].step = "deleteRow" /\ DeleteStoryRow(call[c].id)
       \/ call[c].step = "updateRow" /\ UpdateStoryRow(call[c].id, call[c].group)
    /\ UNCHANGED bucket

-----------------------------------------------------------------------------
StartStoryCall(c) == \E s \in StoryIds, t \in StoryTeams, v \in Uploads :
    \/ \E fs \in SUBSET Files :
         \/ CreateStory(c, s, t, v, fs)
         \/ AppendStoryFiles(c, s, t, v, fs)
         \/ RecreateStoryFiles(c, s, t, v, fs)
    \/ CreateStoryForTeam(c, s, t, v)
    \/ DeleteStory(c, s, t, v)
    \/ \E g \in StoryTeams : UpdateStory(c, s, t, v, g)

StoriesNext == \E c \in StoryCalls :
    \/ StartStoryCall(c)
    \/ StoryGuard(c)
    \/ CreateRow(c)
    \/ DeleteRow(c)
    \/ UpdateRow(c)
    \/ \E f \in Files : WriteFile(c, f) \/ DeleteObject(c, f) \/ CopyFails(c, f)
    \/ WrittenAll(c)
    \/ ListObjects(c)
    \/ Cleared(c)
    \/ StoryCallFails(c)
    \/ StoryCrash(c)

StoriesSpec == StoriesInit /\ [][StoriesNext]_storiesVars

-----------------------------------------------------------------------------
(* Reading *)

\* GetIndexHtmlPath: the first index page, or the first page, by name.
LowestFile(fs) == CHOOSE f \in fs : \A g \in fs : f <= g

GetIndexHtmlPath(folder) ==
    IF Holds(folder) \cap IndexPages # {} THEN LowestFile(Holds(folder) \cap IndexPages)
    ELSE IF Holds(folder) \cap Pages # {} THEN LowestFile(Holds(folder) \cap Pages)
    ELSE NoStory

GetObject(s, f) == bucket[s][f]

-----------------------------------------------------------------------------
(* Properties *)

\* Every variable has its type.
StoriesTypeOK ==
    /\ stories \in [StoryIds -> StoryTeams \cup {NoStory}]
    /\ bucket \in [StoryIds -> Folder]
    /\ call \in [StoryCalls -> StoryCall \cup {NoStory}]
    /\ promised \in [StoryIds -> Folder \cup {NoStory}]

\* When nobody is at work on a story, its folder holds what the calls that
\* succeeded put there and nothing else, cut-off files and earlier versions
\* included.  Excused are stories on which a call failed, or two overlapped,
\* until one that clears the folder succeeds on its own.
StoryShowsUploads ==
    \A s \in StoryIds : (BusyOn(s) = {} /\ promised[s] # NoStory) =>
        \A f \in Files : GetObject(s, f) = promised[s][f]

\* Nothing is served of a story that is gone, not even to those who know its
\* address; only a removal that failed, or that an upload overlapped, is excused.
DeletedIsNotServed ==
    \A s \in StoryIds :
        (BusyOn(s) = {} /\ ~ StoryExists(s) /\ promised[s] # NoStory) =>
            GetIndexHtmlPath(bucket[s]) = NoStory
=============================================================================
