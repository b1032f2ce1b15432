-------------------------- MODULE PublishingProofs ---------------------------
(*****************************************************************************)
(* Theorems about stories and joinable views, for any number of them, of     *)
(* files, users and handlers; and about all that teams publish, each part of *)
(* which does in module Publishing only what its own specification allows.   *)
(*****************************************************************************)
EXTENDS Publishing, CatalogueProofs, UpkeepProofs, FiniteSetTheorems, FunctionTheorems,
        TLAPS

(***************************************************************************)
(* Stories.  A call that nobody disturbs knows what is in the folder:      *)
(* AloneRight.  A folder for which something is promised is at most in the *)
(* hands of one such call, so that what is promised is there when it ends. *)
(***************************************************************************)

\* Which steps an operation takes, and what it has left at the start
Placed(r) ==
    /\ r.op = "create" => r.step \in {"insert", "write", "list", "clear"}
    /\ r.op = "append" => r.step \in {"guard", "write"}
    /\ r.op = "recreate" => r.step \in {"guard", "list", "clear", "write"}
    /\ r.op = "delete" => r.step \in {"guard", "deleteRow", "list", "clear"}
    /\ r.op = "update" => r.step \in {"guard", "updateRow"}
    /\ r.failed <=> (r.op = "create" /\ r.step \in {"list", "clear"})
    /\ r.step \in {"insert", "guard"} /\ r.op \in {"create", "append"} => r.left = r.files
    /\ r.step = "write" => r.left \subseteq r.files

\* A folder to which a call has written so far, over what was there before
Written(r, before) ==
    [f \in Files |-> IF f \in r.files \ r.left THEN r.upload ELSE before[f]]

AloneRight(r) ==
    /\ r.step = "clear" => r.left = Holds(bucket[r.id])
    /\ r.step = "write" /\ r.op = "recreate" => bucket[r.id] = Written(r, EmptyFolder)
    /\ r.step \in {"write", "list", "clear"} /\ r.op \in {"create", "append", "recreate"} =>
         StoryExists(r.id)
    /\ promised[r.id] # NoStory =>
         /\ r.step \in {"insert", "guard", "deleteRow", "updateRow"} =>
              bucket[r.id] = promised[r.id]
         /\ r.step = "write" /\ r.op \in {"create", "append"} =>
              bucket[r.id] = Written(r, promised[r.id])

\* Is a deletion between the row and the last of the objects?
Emptying(r) == r.op = "delete" /\ r.step \in {"list", "clear"}

StoriesInv ==
    /\ StoriesTypeOK
    /\ \A c \in InFlight :
         /\ Placed(call[c])
         /\ call[c].alone => BusyOn(call[c].id) = {c} /\ AloneRight(call[c])
         /\ promised[call[c].id] # NoStory => call[c].alone
    /\ \A s \in StoryIds : promised[s] # NoStory =>
         /\ BusyOn(s) = {} => bucket[s] = promised[s]
         /\ ~ StoryExists(s) =>
              promised[s] = EmptyFolder \/ \E c \in BusyOn(s) : Emptying(call[c])

-----------------------------------------------------------------------------
(* A step of one call, which touches nothing but its story.                *)

StoryMoves(c, r, m) ==
    /\ StoriesTypeOK'
    /\ \A t \in StoryIds \ {r.id} : /\ stories'[t] = stories[t]
                                    /\ bucket'[t] = bucket[t]
                                    /\ promised'[t] = promised[t]
    /\ call' = [call EXCEPT ![c] = m]
    /\ m # NoStory =>
         m.id = r.id /\ m.alone = r.alone /\ Placed(m) /\ (m.alone => AloneRight(m)')
    /\ promised'[r.id] # NoStory =>
         /\ r.alone
         /\ m = NoStory => bucket'[r.id] = promised'[r.id]
         /\ stories'[r.id] = NoStory =>
              promised'[r.id] = EmptyFolder \/ (m # NoStory /\ Emptying(m))

LEMMA StoryMovesSo ==
    ASSUME StoriesInv, NEW c \in StoryCalls, NEW r \in StoryCall, r = call[c],
           NEW m \in StoryCall \cup {NoStory}, StoryMoves(c, r, m)
    PROVE  StoriesInv'
<1> DEFINE s == r.id
<1>1. s \in StoryIds /\ c \in BusyOn(s) /\ c \in InFlight
    BY NoCallAssumption DEF StoryCall, BusyOn, InFlight
<1>2. /\ call'[c] = m
      /\ \A d \in StoryCalls \ {c} : call'[d] = call[d]
    BY DEF StoryMoves, StoriesInv, StoriesTypeOK
<1>3. BusyOn(s)' = IF m = NoStory THEN BusyOn(s) \ {c} ELSE BusyOn(s)
    BY <1>1, <1>2 DEF BusyOn, InFlight, StoryMoves
<1>4. \A t \in StoryIds \ {s} : BusyOn(t)' = BusyOn(t)
    BY <1>1, <1>2 DEF BusyOn, InFlight, StoryMoves
<1>5. r.alone => BusyOn(s) = {c}
    BY <1>1 DEF StoriesInv
<1>6. ASSUME NEW d \in InFlight'
      PROVE  /\ Placed(call[d])'
             /\ call'[d].alone => BusyOn(call[d].id)' = {d} /\ AloneRight(call[d])'
             /\ promised'[call'[d].id] # NoStory => call'[d].alone
  <2>1. CASE d = c
    <3>1. m # NoStory /\ m.id = s /\ m.alone = r.alone /\ call'[d] = m
        BY <1>2, <1>6, <2>1 DEF InFlight, StoryMoves
    <3>2. Placed(m) /\ (m.alone => AloneRight(m)')
        BY <3>1 DEF StoryMoves
    <3>3. m.alone => BusyOn(s)' = {c}
        BY <1>3, <1>5, <3>1
    <3>4. promised'[s] # NoStory => m.alone
        BY <3>1 DEF StoryMoves
    <3> QED BY <2>1, <3>1, <3>2, <3>3, <3>4
  <2>2. CASE d # c
    <3>1. PICK k \in StoryCall : k = call[d] /\ call'[d] = k
        BY <1>2, <1>6, <2>2 DEF InFlight, StoriesInv, StoriesTypeOK
    <3>2. d \in InFlight /\ k.id \in StoryIds
        BY <1>2, <1>6, <2>2 DEF InFlight, StoryCall
    <3>3. Placed(k) /\ (k.alone => BusyOn(k.id) = {d} /\ AloneRight(k))
            /\ (promised[k.id] # NoStory => k.alone)
        BY <3>1, <3>2 DEF StoriesInv
    <3>4. CASE k.id # s
      <4>1. stories'[k.id] = stories[k.id] /\ bucket'[k.id] = bucket[k.id]
              /\ promised'[k.id] = promised[k.id] /\ BusyOn(k.id)' = BusyOn(k.id)
          BY <1>4, <3>2, <3>4 DEF StoryMoves
      <4>2. AloneRight(k) => AloneRight(k)'
          BY <4>1 DEF AloneRight, StoryExists, GetStory
      <4> QED BY <3>1, <3>3, <4>1, <4>2
    <3>5. CASE k.id = s
      <4>1. d \in BusyOn(s) /\ ~ k.alone
          BY <1>1, <2>2, <3>1, <3>2, <3>3, <3>5 DEF BusyOn
      <4>2. ~ r.alone
          BY <1>5, <2>2, <4>1
      <4>3. promised'[s] = NoStory
          BY <4>2 DEF StoryMoves
      <4> QED BY <3>1, <3>3, <3>5, <4>1, <4>3
    <3> QED BY <3>4, <3>5
  <2> QED BY <2>1, <2>2
<1>7. ASSUME NEW t \in StoryIds, promised'[t] # NoStory
      PROVE  /\ BusyOn(t)' = {} => bucket'[t] = promised'[t]
             /\ ~ StoryExists(t)' =>
                  promised'[t] = EmptyFolder \/ \E d \in BusyOn(t)' : Emptying(call'[d])
  <2>1. CASE t = s
    <3>1. r.alone /\ (m = NoStory => bucket'[s] = promised'[s])
        BY <1>7, <2>1 DEF StoryMoves
    <3>2. BusyOn(t)' = {} => bucket'[t] = promised'[t]
        BY <1>1, <1>3, <2>1, <3>1
    <3>3. m # NoStory => c \in BusyOn(t)' /\ call'[c] = m
        BY <1>1, <1>2, <1>3, <2>1
    <3> QED BY <1>7, <2>1, <3>2, <3>3 DEF StoryMoves, StoryExists, GetStory
  <2>2. CASE t # s
    <3>1. stories'[t] = stories[t] /\ bucket'[t] = bucket[t]
            /\ promised'[t] = promised[t] /\ BusyOn(t)' = BusyOn(t)
        BY <1>4, <2>2 DEF StoryMoves
    <3>2. c \notin BusyOn(t) /\ BusyOn(t) \subseteq StoryCalls
        BY <2>2 DEF BusyOn, InFlight
    <3>3. \A d \in BusyOn(t) : call'[d] = call[d]
        BY <1>2, <3>2
    <3>4. /\ BusyOn(t) = {} => bucket[t] = promised[t]
          /\ ~ StoryExists(t) =>
               promised[t] = EmptyFolder \/ \E d \in BusyOn(t) : Emptying(call[d])
        BY <1>7, <3>1 DEF StoriesInv
    <3> QED BY <3>1, <3>3, <3>4 DEF StoryExists, GetStory
  <2> QED BY <2>1, <2>2
<1> QED BY <1>6, <1>7 DEF StoriesInv, StoryMoves

\* What is right of a call, where it is found
LEMMA CallAt ==
    ASSUME StoriesInv, NEW c \in InFlight
    PROVE  \E r \in StoryCall :
             /\ r = call[c] /\ c \in StoryCalls /\ r.id \in StoryIds
             /\ Placed(r)
             /\ r.alone => AloneRight(r)
             /\ promised[r.id] # NoStory => r.alone
             /\ promised[r.id] # NoStory /\ ~ StoryExists(r.id) =>
                  promised[r.id] = EmptyFolder \/ Emptying(r)
<1>1. PICK r \in StoryCall : r = call[c] /\ c \in StoryCalls /\ r.id \in StoryIds
    BY DEF StoriesInv, StoriesTypeOK, InFlight, StoryCall
<1>2. promised[r.id] # NoStory => r.alone /\ BusyOn(r.id) = {c}
    BY <1>1 DEF StoriesInv
<1>3. promised[r.id] # NoStory /\ ~ StoryExists(r.id) =>
        promised[r.id] = EmptyFolder \/ \E d \in BusyOn(r.id) : Emptying(call[d])
    BY <1>1 DEF StoriesInv
<1>4. promised[r.id] # NoStory /\ ~ StoryExists(r.id) =>
        promised[r.id] = EmptyFolder \/ Emptying(r)
    BY <1>1, <1>2, <1>3
<1> QED BY <1>1, <1>2, <1>4 DEF StoriesInv

\* A folder is what it is at each file.
LEMMA SameFolder ==
    ASSUME NEW f \in Folder, NEW g \in Folder, \A x \in Files : f[x] = g[x]
    PROVE  f = g
BY DEF Folder

LEMMA EmptyIsFolder == EmptyFolder \in Folder /\ NoStory \notin StoryTeams
BY FilesAssumption DEF EmptyFolder, Folder

LEMMA NothingIsEmpty ==
    ASSUME NEW f \in Folder, Holds(f) = {}
    PROVE  f = EmptyFolder
<1>1. \A x \in Files : f[x] = EmptyFolder[x]
    BY DEF Holds, EmptyFolder
<1> QED BY <1>1, SameFolder, EmptyIsFolder

-----------------------------------------------------------------------------
(* The steps *)

LEMMA GuardMoves ==
    ASSUME StoriesInv, NEW c \in StoryCalls, StoryGuard(c)
    PROVE  StoriesInv'
<1>1. PICK r \in StoryCall :
             /\ r = call[c] /\ c \in StoryCalls /\ r.id \in StoryIds
             /\ Placed(r)
             /\ r.alone => AloneRight(r)
             /\ promised[r.id] # NoStory => r.alone
             /\ promised[r.id] # NoStory /\ ~ StoryExists(r.id) =>
                  promised[r.id] = EmptyFolder \/ Emptying(r)
    BY CallAt DEF StoryGuard, StoryAt
<1>2. /\ r.step = "guard" /\ StoryExists(r.id)
      /\ UNCHANGED <<stories, bucket, promised>>
    BY <1>1 DEF StoryGuard, StoryAt, OwnsStory
<1>3. PICK step : /\ step = CASE r.op = "append" -> "write" [] r.op = "recreate" -> "list"
                                [] r.op = "delete" -> "deleteRow" [] r.op = "update" -> "updateRow"
    OBVIOUS
<1>4. r.op \in {"append", "recreate", "delete", "update"} /\ ~ r.failed
    BY <1>1, <1>2 DEF StoryCall, Operations, Placed
<1>5. PICK m \in StoryCall : /\ call' = [call EXCEPT ![c] = m]
                             /\ m.id = r.id /\ m.op = r.op /\ m.alone = r.alone
                             /\ m.left = r.left /\ m.files = r.files /\ m.upload = r.upload
                             /\ m.failed = r.failed /\ m.step = step
  <2> DEFINE m == [r EXCEPT !.step = step]
  <2>1. step \in {"write", "list", "deleteRow", "updateRow"}
      BY <1>3, <1>4
  <2>2. m \in StoryCall
      BY <2>1 DEF StoryCall
  <2>3. /\ m.id = r.id /\ m.op = r.op /\ m.alone = r.alone
        /\ m.left = r.left /\ m.files = r.files /\ m.upload = r.upload
        /\ m.failed = r.failed /\ m.step = step
      BY DEF StoryCall
  <2>4. call' = [call EXCEPT ![c] = m]
      BY <1>1, <1>3, <1>4 DEF StoryGuard, Proceed
  <2> QED BY <2>2, <2>3, <2>4
<1>6. StoriesTypeOK'
    BY <1>2, <1>5 DEF StoriesInv, StoriesTypeOK
<1>7. Placed(m)
    BY <1>1, <1>2, <1>3, <1>4, <1>5 DEF Placed
<1>8. ASSUME m.alone PROVE AloneRight(m)'
  <2>1. AloneRight(r) /\ stories' = stories /\ bucket' = bucket /\ promised' = promised
      BY <1>1, <1>2, <1>5, <1>8
  <2>2. m.step = "write" => m.op = "append" /\ m.left = m.files
      BY <1>1, <1>2, <1>3, <1>4, <1>5 DEF Placed
  <2>3. m.step # "clear"
      BY <1>3, <1>4, <1>5
  <2>4. promised[r.id] # NoStory => bucket[r.id] = promised[r.id] /\ promised[r.id] \in Folder
      BY <1>1, <1>2, <2>1 DEF AloneRight, StoriesInv, StoriesTypeOK
  <2>5. promised[r.id] # NoStory /\ m.step = "write" =>
           bucket[r.id] = Written(m, promised[r.id])
      BY <2>2, <2>4 DEF Written, Folder
  <2> QED BY <1>2, <1>5, <2>1, <2>2, <2>3, <2>4, <2>5 DEF AloneRight, StoryExists, GetStory
<1>9. StoryMoves(c, r, m)
    BY <1>1, <1>2, <1>5, <1>6, <1>7, <1>8, NoCallAssumption DEF StoryMoves, StoryExists, GetStory
<1> QED BY <1>1, <1>9, StoryMovesSo

LEMMA CreateRowMoves ==
    ASSUME StoriesInv, NEW c \in StoryCalls, CreateRow(c)
    PROVE  StoriesInv'
<1>1. PICK r \in StoryCall :
             /\ r = call[c] /\ c \in StoryCalls /\ r.id \in StoryIds
             /\ Placed(r)
             /\ r.alone => AloneRight(r)
             /\ promised[r.id] # NoStory => r.alone
             /\ promised[r.id] # NoStory /\ ~ StoryExists(r.id) =>
                  promised[r.id] = EmptyFolder \/ Emptying(r)
    BY CallAt DEF CreateRow, StoryAt
<1>2. /\ r.step = "insert" /\ r.team \in StoryTeams
      /\ stories' = [stories EXCEPT ![r.id] = r.team]
      /\ UNCHANGED <<bucket, promised>>
    BY <1>1 DEF CreateRow, StoryAt, InsertStory, StoryCall
<1>3. r.op = "create" /\ ~ r.failed /\ r.left = r.files
    BY <1>1, <1>2 DEF StoryCall, Operations, Placed
<1>4. PICK m \in StoryCall : /\ call' = [call EXCEPT ![c] = m]
                             /\ m.id = r.id /\ m.op = r.op /\ m.alone = r.alone
                             /\ m.left = r.left /\ m.files = r.files /\ m.upload = r.upload
                             /\ m.failed = r.failed /\ m.step = "write"
  <2> DEFINE m == [r EXCEPT !.step = "write"]
  <2>1. /\ m \in StoryCall
        /\ m.id = r.id /\ m.op = r.op /\ m.alone = r.alone
        /\ m.left = r.left /\ m.files = r.files /\ m.upload = r.upload
        /\ m.failed = r.failed /\ m.step = "write"
      BY DEF StoryCall
  <2>2. call' = [call EXCEPT ![c] = m]
      BY <1>1 DEF CreateRow, Proceed
  <2> QED BY <2>1, <2>2
<1>5. stories'[r.id] # NoStory
    BY <1>1, <1>2, EmptyIsFolder DEF StoriesInv, StoriesTypeOK
<1>6. StoriesTypeOK'
    BY <1>2, <1>4 DEF StoriesInv, StoriesTypeOK
<1>7. Placed(m)
    BY <1>3, <1>4 DEF Placed
<1>8. ASSUME m.alone PROVE AloneRight(m)'
  <2>1. AloneRight(r) /\ bucket' = bucket /\ promised' = promised
      BY <1>1, <1>2, <1>4, <1>8
  <2>2. promised[r.id] # NoStory => bucket[r.id] = promised[r.id] /\ promised[r.id] \in Folder
      BY <1>1, <1>2, <2>1 DEF AloneRight, StoriesInv, StoriesTypeOK
  <2>3. promised[r.id] # NoStory => bucket[r.id] = Written(m, promised[r.id])
      BY <1>3, <1>4, <2>2 DEF Written, Folder
  <2> QED BY <1>3, <1>4, <1>5, <2>1, <2>3 DEF AloneRight, StoryExists, GetStory
<1>9. StoryMoves(c, r, m)
    BY <1>1, <1>2, <1>4, <1>5, <1>6, <1>7, <1>8, NoCallAssumption
    DEF StoryMoves, StoriesInv, StoriesTypeOK
<1> QED BY <1>1, <1>9, StoryMovesSo

LEMMA DeleteRowMoves ==
    ASSUME StoriesInv, NEW c \in StoryCalls, DeleteRow(c)
    PROVE  StoriesInv'
<1>1. PICK r \in StoryCall :
             /\ r = call[c] /\ c \in StoryCalls /\ r.id \in StoryIds
             /\ Placed(r)
             /\ r.alone => AloneRight(r)
             /\ promised[r.id] # NoStory => r.alone
             /\ promised[r.id] # NoStory /\ ~ StoryExists(r.id) =>
                  promised[r.id] = EmptyFolder \/ Emptying(r)
    BY CallAt DEF DeleteRow, StoryAt
<1>2. /\ r.step = "deleteRow"
      /\ stories' = [stories EXCEPT ![r.id] = NoStory]
      /\ UNCHANGED <<bucket, promised>>
    BY <1>1 DEF DeleteRow, StoryAt, DeleteStoryRow
<1>3. r.op = "delete" /\ ~ r.failed
    BY <1>1, <1>2 DEF StoryCall, Operations, Placed
<1>4. PICK m \in StoryCall : /\ call' = [call EXCEPT ![c] = m]
                             /\ m.id = r.id /\ m.op = r.op /\ m.alone = r.alone
                             /\ m.failed = r.failed /\ m.step = "list"
  <2> DEFINE m == [r EXCEPT !.step = "list"]
  <2>1. /\ m \in StoryCall
        /\ m.id = r.id /\ m.op = r.op /\ m.alone = r.alone
        /\ m.failed = r.failed /\ m.step = "list"
      BY DEF StoryCall
  <2>2. call' = [call EXCEPT ![c] = m]
      BY <1>1 DEF DeleteRow, Proceed
  <2> QED BY <2>1, <2>2
<1>5. StoriesTypeOK'
    BY <1>2, <1>4 DEF StoriesInv, StoriesTypeOK
<1>6. Placed(m) /\ AloneRight(m)' /\ Emptying(m)
    BY <1>3, <1>4 DEF Placed, AloneRight, Emptying
<1>7. StoryMoves(c, r, m)
    BY <1>1, <1>2, <1>4, <1>5, <1>6, NoCallAssumption DEF StoryMoves, StoriesInv, StoriesTypeOK
<1> QED BY <1>1, <1>7, StoryMovesSo

LEMMA UpdateRowMoves ==
    ASSUME StoriesInv, NEW c \in StoryCalls, UpdateRow(c)
    PROVE  StoriesInv'
<1>1. PICK r \in StoryCall :
             /\ r = call[c] /\ c \in StoryCalls /\ r.id \in StoryIds
             /\ Placed(r)
             /\ r.alone => AloneRight(r)
             /\ promised[r.id] # NoStory => r.alone
             /\ promised[r.id] # NoStory /\ ~ StoryExists(r.id) =>
                  promised[r.id] = EmptyFolder \/ Emptying(r)
    BY CallAt DEF UpdateRow, StoryAt
<1>2. /\ r.step = "updateRow" /\ r.group \in StoryTeams
      /\ stories' = [stories EXCEPT ![r.id] = r.group]
      /\ UNCHANGED bucket
      /\ call' = [call EXCEPT ![c] = NoStory]
    BY <1>1 DEF UpdateRow, StoryAt, UpdateStoryRow, StoryCall, StorySucceeds, EndStoryCall
<1>3. promised' = promised
    BY <1>1 DEF UpdateRow, StorySucceeds, StoriesInv, StoriesTypeOK
<1>4. stories'[r.id] # NoStory
    BY <1>1, <1>2, EmptyIsFolder DEF StoriesInv, StoriesTypeOK
<1>5. StoriesTypeOK'
    BY <1>2, <1>3 DEF StoriesInv, StoriesTypeOK
<1>6. promised[r.id] # NoStory => bucket[r.id] = promised[r.id]
    BY <1>1, <1>2 DEF AloneRight
<1>7. StoryMoves(c, r, NoStory)
    BY <1>1, <1>2, <1>3, <1>4, <1>5, <1>6 DEF StoryMoves, StoriesInv, StoriesTypeOK
<1> QED BY <1>1, <1>7, StoryMovesSo

LEMMA WriteMoves ==
    ASSUME StoriesInv, NEW c \in StoryCalls, NEW f \in Files, WriteFile(c, f)
    PROVE  StoriesInv'
<1>1. PICK r \in StoryCall :
             /\ r = call[c] /\ c \in StoryCalls /\ r.id \in StoryIds
             /\ Placed(r)
             /\ r.alone => AloneRight(r)
             /\ promised[r.id] # NoStory => r.alone
             /\ promised[r.id] # NoStory /\ ~ StoryExists(r.id) =>
                  promised[r.id] = EmptyFolder \/ Emptying(r)
    BY CallAt DEF WriteFile, StoryAt
<1>2. /\ r.step = "write" /\ f \in r.left /\ r.upload \in Uploads
      /\ bucket' = [bucket EXCEPT ![r.id][f] = r.upload]
      /\ UNCHANGED <<stories, promised>>
    BY <1>1 DEF WriteFile, StoryAt, StoryCall
<1>3. r.op \in {"create", "append", "recreate"} /\ ~ r.failed /\ r.left \subseteq r.files
    BY <1>1, <1>2 DEF StoryCall, Operations, Placed
<1>4. PICK m \in StoryCall : /\ call' = [call EXCEPT ![c] = m]
                             /\ m.id = r.id /\ m.op = r.op /\ m.alone = r.alone
                             /\ m.left = r.left \ {f} /\ m.files = r.files
                             /\ m.upload = r.upload /\ m.failed = r.failed /\ m.step = r.step
  <2> DEFINE m == [r EXCEPT !.left = r.left \ {f}]
  <2>1. /\ m \in StoryCall
        /\ m.id = r.id /\ m.op = r.op /\ m.alone = r.alone
        /\ m.left = r.left \ {f} /\ m.files = r.files
        /\ m.upload = r.upload /\ m.failed = r.failed /\ m.step = r.step
      BY DEF StoryCall
  <2>2. call' = [call EXCEPT ![c] = m]
      BY <1>1 DEF WriteFile
  <2> QED BY <2>1, <2>2
<1>5. bucket[r.id] \in Folder
    BY <1>1 DEF StoriesInv, StoriesTypeOK
<1>6. bucket'[r.id] = [bucket[r.id] EXCEPT ![f] = r.upload]
    BY <1>1, <1>2 DEF StoriesInv, StoriesTypeOK
<1>7. bucket'[r.id] \in Folder
    BY <1>2, <1>5, <1>6 DEF Folder
<1>8. StoriesTypeOK'
    BY <1>1, <1>2, <1>4, <1>7 DEF StoriesInv, StoriesTypeOK
<1>9. Placed(m)
    BY <1>2, <1>3, <1>4 DEF Placed
<1>10. ASSUME NEW before \in Folder, bucket[r.id] = Written(r, before)
       PROVE  bucket'[r.id] = Written(m, before)
  <2>1. ASSUME NEW x \in Files
        PROVE  bucket'[r.id][x] = Written(m, before)[x]
    <3>1. CASE x = f
        BY <1>2, <1>3, <1>4, <1>5, <1>6, <3>1 DEF Written, Folder
    <3>2. CASE x # f
        BY <1>4, <1>5, <1>6, <1>10, <3>2 DEF Written, Folder
    <3> QED BY <3>1, <3>2
  <2>2. Written(m, before) \in Folder
      BY DEF Written, Folder, StoryCall
  <2> QED BY <1>7, <2>1, <2>2, SameFolder
<1>11. ASSUME m.alone PROVE AloneRight(m)'
  <2>1. AloneRight(r) /\ stories' = stories /\ promised' = promised
      BY <1>1, <1>2, <1>4, <1>11
  <2>2. r.op = "recreate" => bucket'[r.id] = Written(m, EmptyFolder)
      BY <1>2, <1>10, <2>1, EmptyIsFolder DEF AloneRight
  <2>3. promised[r.id] # NoStory => promised[r.id] \in Folder
      BY <1>1 DEF StoriesInv, StoriesTypeOK
  <2>4. promised[r.id] # NoStory /\ r.op \in {"create", "append"} =>
           bucket'[r.id] = Written(m, promised[r.id])
      BY <1>2, <1>10, <2>1, <2>3 DEF AloneRight
  <2> QED BY <1>2, <1>3, <1>4, <2>1, <2>2, <2>4 DEF AloneRight, StoryExists, GetStory
<1>12. Emptying(r) => Emptying(m)
    BY <1>4 DEF Emptying
<1>13. StoryMoves(c, r, m)
    BY <1>1, <1>2, <1>4, <1>8, <1>9, <1>11, <1>12, NoCallAssumption
    DEF StoryMoves, StoryExists, GetStory, StoriesInv, StoriesTypeOK
<1> QED BY <1>1, <1>13, StoryMovesSo

LEMMA WrittenMoves ==
    ASSUME StoriesInv, NEW c \in StoryCalls, WrittenAll(c)
    PROVE  StoriesInv'
<1>1. PICK r \in StoryCall :
             /\ r = call[c] /\ c \in StoryCalls /\ r.id \in StoryIds
             /\ Placed(r)
             /\ r.alone => AloneRight(r)
             /\ promised[r.id] # NoStory => r.alone
             /\ promised[r.id] # NoStory /\ ~ StoryExists(r.id) =>
                  promised[r.id] = EmptyFolder \/ Emptying(r)
    BY CallAt DEF WrittenAll, StoryAt
<1>2. /\ r.step = "write" /\ r.left = {} /\ r.upload \in Uploads
      /\ r.op = "create" => StoryExists(r.id)
      /\ UNCHANGED <<stories, bucket>>
      /\ call' = [call EXCEPT ![c] = NoStory]
      /\ StorySucceeds(c, r.op)
    BY <1>1 DEF WrittenAll, StoryAt, StoryCall, StorySucceeds, EndStoryCall
<1>3. r.op \in {"create", "append", "recreate"} /\ ~ r.failed
    BY <1>1, <1>2 DEF StoryCall, Operations, Placed
<1> DEFINE kept == IF r.op = "recreate"
                   THEN IF r.alone THEN Written(r, EmptyFolder) ELSE NoStory
                   ELSE IF promised[r.id] = NoStory THEN NoStory
                        ELSE Written(r, promised[r.id])
<1>4. promised' = [promised EXCEPT ![r.id] = kept]
    BY <1>1, <1>2, <1>3 DEF StorySucceeds, Written, StoriesInv, StoriesTypeOK
<1>5. promised[r.id] # NoStory => promised[r.id] \in Folder
    BY <1>1 DEF StoriesInv, StoriesTypeOK
<1>6. \A before \in Folder : Written(r, before) \in Folder
    BY DEF Written, Folder, StoryCall
<1>7. kept \in Folder \cup {NoStory}
    BY <1>5, <1>6, EmptyIsFolder
<1>8. promised'[r.id] = kept /\ \A t \in StoryIds \ {r.id} : promised'[t] = promised[t]
    BY <1>1, <1>4 DEF StoriesInv, StoriesTypeOK
<1>9. StoriesTypeOK'
    BY <1>1, <1>2, <1>4, <1>7 DEF StoriesInv, StoriesTypeOK
<1>10. ASSUME kept # NoStory
       PROVE  r.alone /\ bucket[r.id] = kept /\ StoryExists(r.id)
  <2>1. r.alone
      BY <1>1, <1>10
  <2>2. AloneRight(r)
      BY <1>1, <2>1
  <2>3. StoryExists(r.id)
      BY <1>2, <1>3, <2>2 DEF AloneRight
  <2>4. bucket[r.id] = kept
      BY <1>2, <1>3, <1>10, <2>1, <2>2 DEF AloneRight
  <2> QED BY <2>1, <2>3, <2>4
<1> HIDE DEF kept
<1>11. StoryMoves(c, r, NoStory)
    BY <1>1, <1>2, <1>8, <1>9, <1>10 DEF StoryMoves, StoryExists, GetStory
<1> QED BY <1>1, <1>11, StoryMovesSo

LEMMA ListMoves ==
    ASSUME StoriesInv, NEW c \in StoryCalls, ListObjects(c)
    PROVE  StoriesInv'
<1>1. PICK r \in StoryCall :
             /\ r = call[c] /\ c \in StoryCalls /\ r.id \in StoryIds
             /\ Placed(r)
             /\ r.alone => AloneRight(r)
             /\ promised[r.id] # NoStory => r.alone
             /\ promised[r.id] # NoStory /\ ~ StoryExists(r.id) =>
                  promised[r.id] = EmptyFolder \/ Emptying(r)
    BY CallAt DEF ListObjects, StoryAt
<1>2. r.step = "list" /\ UNCHANGED <<stories, bucket, promised>>
    BY <1>1 DEF ListObjects, StoryAt
<1>3. PICK m \in StoryCall : /\ call' = [call EXCEPT ![c] = m]
                             /\ m.id = r.id /\ m.op = r.op /\ m.alone = r.alone
                             /\ m.left = Holds(bucket[r.id])
                             /\ m.failed = r.failed /\ m.step = "clear"
  <2> DEFINE m == [r EXCEPT !.step = "clear", !.left = Holds(bucket[r.id])]
  <2>1. Holds(bucket[r.id]) \subseteq Files
      BY DEF Holds
  <2>2. /\ m \in StoryCall
        /\ m.id = r.id /\ m.op = r.op /\ m.alone = r.alone
        /\ m.left = Holds(bucket[r.id])
        /\ m.failed = r.failed /\ m.step = "clear"
      BY <2>1 DEF StoryCall
  <2>3. call' = [call EXCEPT ![c] = m]
      BY <1>1 DEF ListObjects
  <2> QED BY <2>2, <2>3
<1>4. StoriesTypeOK'
    BY <1>2, <1>3 DEF StoriesInv, StoriesTypeOK
<1>5. Placed(m)
    BY <1>1, <1>2, <1>3 DEF Placed
<1>6. m.alone => AloneRight(m)'
    BY <1>1, <1>2, <1>3 DEF AloneRight, StoryExists, GetStory
<1>7. Emptying(r) => Emptying(m)
    BY <1>3 DEF Emptying
<1>8. StoryMoves(c, r, m)
    BY <1>1, <1>2, <1>3, <1>4, <1>5, <1>6, <1>7, NoCallAssumption
    DEF StoryMoves, StoryExists, GetStory
<1> QED BY <1>1, <1>8, StoryMovesSo

LEMMA DeleteObjectMoves ==
    ASSUME StoriesInv, NEW c \in StoryCalls, NEW f \in Files, DeleteObject(c, f)
    PROVE  StoriesInv'
<1>1. PICK r \in StoryCall :
             /\ r = call[c] /\ c \in StoryCalls /\ r.id \in StoryIds
             /\ Placed(r)
             /\ r.alone => AloneRight(r)
             /\ promised[r.id] # NoStory => r.alone
             /\ promised[r.id] # NoStory /\ ~ StoryExists(r.id) =>
                  promised[r.id] = EmptyFolder \/ Emptying(r)
    BY CallAt DEF DeleteObject, StoryAt
<1>2. /\ r.step = "clear" /\ f \in r.left
      /\ bucket' = [bucket EXCEPT ![r.id][f] = NoStory]
      /\ UNCHANGED <<stories, promised>>
    BY <1>1 DEF DeleteObject, StoryAt
<1>3. PICK m \in StoryCall : /\ call' = [call EXCEPT ![c] = m]
                             /\ m.id = r.id /\ m.op = r.op /\ m.alone = r.alone
                             /\ m.left = r.left \ {f}
                             /\ m.failed = r.failed /\ m.step = "clear"
  <2> DEFINE m == [r EXCEPT !.left = r.left \ {f}]
  <2>1. /\ m \in StoryCall
        /\ m.id = r.id /\ m.op = r.op /\ m.alone = r.alone
        /\ m.left = r.left \ {f}
        /\ m.failed = r.failed /\ m.step = "clear"
      BY <1>2 DEF StoryCall
  <2>2. call' = [call EXCEPT ![c] = m]
      BY <1>1 DEF DeleteObject
  <2> QED BY <2>1, <2>2
<1>4. bucket[r.id] \in Folder
    BY <1>1 DEF StoriesInv, StoriesTypeOK
<1>5. bucket'[r.id] = [bucket[r.id] EXCEPT ![f] = NoStory]
    BY <1>1, <1>2 DEF StoriesInv, StoriesTypeOK
<1>6. bucket'[r.id] \in Folder
    BY <1>4, <1>5 DEF Folder
<1>7. Holds(bucket'[r.id]) = Holds(bucket[r.id]) \ {f}
    BY <1>4, <1>5 DEF Holds, Folder
<1>8. StoriesTypeOK'
    BY <1>1, <1>2, <1>3, <1>6 DEF StoriesInv, StoriesTypeOK
<1>9. Placed(m)
    BY <1>1, <1>2, <1>3 DEF Placed
<1>10. m.alone => AloneRight(m)'
    BY <1>1, <1>2, <1>3, <1>7 DEF AloneRight, StoryExists, GetStory
<1>11. Emptying(r) => Emptying(m)
    BY <1>2, <1>3 DEF Emptying
<1>12. StoryMoves(c, r, m)
    BY <1>1, <1>2, <1>3, <1>8, <1>9, <1>10, <1>11, NoCallAssumption
    DEF StoryMoves, StoryExists, GetStory, StoriesInv, StoriesTypeOK
<1> QED BY <1>1, <1>12, StoryMovesSo

LEMMA ClearedMoves ==
    ASSUME StoriesInv, NEW c \in StoryCalls, Cleared(c)
    PROVE  StoriesInv'
<1>1. PICK r \in StoryCall :
             /\ r = call[c] /\ c \in StoryCalls /\ r.id \in StoryIds
             /\ Placed(r)
             /\ r.alone => AloneRight(r)
             /\ promised[r.id] # NoStory => r.alone
             /\ promised[r.id] # NoStory /\ ~ StoryExists(r.id) =>
                  promised[r.id] = EmptyFolder \/ Emptying(r)
    BY CallAt DEF Cleared, StoryAt
<1>2. r.step = "clear" /\ r.left = {} /\ UNCHANGED <<stories, bucket>>
    BY <1>1 DEF Cleared, StoryAt
<1>3. r.op \in {"create", "recreate", "delete"} /\ (r.failed <=> r.op = "create")
    BY <1>1, <1>2 DEF StoryCall, Operations, Placed
<1>4. r.alone => bucket[r.id] = EmptyFolder
    BY <1>1, <1>2, NothingIsEmpty DEF AloneRight, StoriesInv, StoriesTypeOK
<1>5. CASE r.op \in {"create", "delete"}
  <2> DEFINE kept == IF r.alone THEN EmptyFolder ELSE NoStory
  <2>1. call' = [call EXCEPT ![c] = NoStory]
    <3>1. StorySucceeds(c, "cleanup") \/ StorySucceeds(c, "delete")
        BY <1>1, <1>3, <1>5 DEF Cleared
    <3> QED BY <3>1 DEF StorySucceeds, EndStoryCall
  <2>2. promised' = [promised EXCEPT ![r.id] = kept]
    <3>1. CASE r.op = "create"
        BY <1>1, <1>3, <3>1 DEF Cleared, StorySucceeds
    <3>2. CASE r.op = "delete"
        BY <1>1, <1>3, <3>2 DEF Cleared, StorySucceeds
    <3> QED BY <1>5, <3>1, <3>2
  <2>3. StoriesTypeOK'
      BY <1>1, <1>2, <2>1, <2>2, EmptyIsFolder DEF StoriesInv, StoriesTypeOK
  <2>4. promised'[r.id] = kept /\ \A t \in StoryIds \ {r.id} : promised'[t] = promised[t]
      BY <1>1, <2>2 DEF StoriesInv, StoriesTypeOK
  <2>5. StoryMoves(c, r, NoStory)
      BY <1>1, <1>2, <1>4, <2>1, <2>3, <2>4 DEF StoryMoves
  <2> QED BY <1>1, <2>5, StoryMovesSo
<1>6. CASE r.op = "recreate"
  <2>1. PICK m \in StoryCall : /\ call' = [call EXCEPT ![c] = m]
                               /\ m.id = r.id /\ m.op = r.op /\ m.alone = r.alone
                               /\ m.left = m.files
                               /\ m.failed = r.failed /\ m.step = "write"
    <3> DEFINE m == [r EXCEPT !.step = "write", !.left = r.files]
    <3>1. /\ m \in StoryCall
          /\ m.id = r.id /\ m.op = r.op /\ m.alone = r.alone
          /\ m.left = m.files
          /\ m.failed = r.failed /\ m.step = "write"
        BY DEF StoryCall
    <3>2. call' = [call EXCEPT ![c] = m]
        BY <1>1, <1>3, <1>6 DEF Cleared
    <3> QED BY <3>1, <3>2
  <2>2. promised' = promised
      BY <1>1, <1>3, <1>6 DEF Cleared
  <2>3. StoriesTypeOK'
      BY <1>2, <2>1, <2>2 DEF StoriesInv, StoriesTypeOK
  <2>4. Placed(m)
      BY <1>3, <1>6, <2>1 DEF Placed
  <2>5. ASSUME m.alone PROVE AloneRight(m)'
    <3>1. StoryExists(r.id) /\ bucket[r.id] = EmptyFolder
        BY <1>1, <1>2, <1>4, <1>6, <2>1, <2>5 DEF AloneRight
    <3>2. Written(m, EmptyFolder) = EmptyFolder
        BY <2>1 DEF Written, EmptyFolder
    <3> QED BY <1>2, <1>6, <2>1, <3>1, <3>2 DEF AloneRight, StoryExists, GetStory
  <2>6. ~ Emptying(r)
      BY <1>6 DEF Emptying
  <2>7. StoryMoves(c, r, m)
      BY <1>1, <1>2, <2>1, <2>2, <2>3, <2>4, <2>5, <2>6, NoCallAssumption
      DEF StoryMoves, StoryExists, GetStory
  <2> QED BY <1>1, <2>7, StoryMovesSo
<1> QED BY <1>3, <1>5, <1>6

\* A call that gets to the clean-up of a failed creation
LEMMA CleanUp ==
    ASSUME StoriesInv, NEW c \in StoryCalls, NEW r \in StoryCall, r = call[c], Placed(r),
           r.op = "create", r.step = "write",
           call' = [call EXCEPT ![c].step = "list", ![c].failed = TRUE],
           Spoil(r.id), stories' = stories, bucket' \in [StoryIds -> Folder],
           \A t \in StoryIds \ {r.id} : bucket'[t] = bucket[t],
           r.alone => StoryExists(r.id)
    PROVE  StoriesInv'
<1>1. PICK m \in StoryCall : /\ call' = [call EXCEPT ![c] = m]
                             /\ m.id = r.id /\ m.op = r.op /\ m.alone = r.alone
                             /\ m.failed /\ m.step = "list"
  <2> DEFINE m == [r EXCEPT !.step = "list", !.failed = TRUE]
  <2>1. /\ m \in StoryCall
        /\ m.id = r.id /\ m.op = r.op /\ m.alone = r.alone
        /\ m.failed /\ m.step = "list"
      BY DEF StoryCall
  <2>2. call' = [call EXCEPT ![c] = m]
      OBVIOUS
  <2> QED BY <2>1, <2>2
<1>2. r.id \in StoryIds /\ promised' = [promised EXCEPT ![r.id] = NoStory]
    BY DEF StoryCall, Spoil
<1>3. StoriesTypeOK'
    BY <1>1, <1>2 DEF StoriesInv, StoriesTypeOK
<1>4. Placed(m)
    BY <1>1 DEF Placed
<1>5. promised'[r.id] = NoStory /\ \A t \in StoryIds \ {r.id} : promised'[t] = promised[t]
    BY <1>2 DEF StoriesInv, StoriesTypeOK
<1>6. m.alone => AloneRight(m)'
    BY <1>1, <1>5 DEF AloneRight, StoryExists, GetStory
<1>7. StoryMoves(c, r, m)
    BY <1>1, <1>3, <1>4, <1>5, <1>6, NoCallAssumption DEF StoryMoves
<1> QED BY <1>7, StoryMovesSo

\* A call that ends and leaves its folder spoiled
LEMMA EndSpoiled ==
    ASSUME StoriesInv, NEW c \in StoryCalls, NEW r \in StoryCall, r = call[c],
           EndStoryCall(c), Spoil(r.id),
           stories' \in [StoryIds -> StoryTeams \cup {NoStory}],
           \A t \in StoryIds \ {r.id} : stories'[t] = stories[t],
           bucket' \in [StoryIds -> Folder],
           \A t \in StoryIds \ {r.id} : bucket'[t] = bucket[t]
    PROVE  StoriesInv'
<1>1. r.id \in StoryIds /\ promised' = [promised EXCEPT ![r.id] = NoStory]
    BY DEF StoryCall, Spoil
<1>2. promised'[r.id] = NoStory /\ \A t \in StoryIds \ {r.id} : promised'[t] = promised[t]
    BY <1>1 DEF StoriesInv, StoriesTypeOK
<1>3. StoriesTypeOK'
    BY <1>1 DEF StoriesInv, StoriesTypeOK, EndStoryCall
<1>4. StoryMoves(c, r, NoStory)
    BY <1>2, <1>3 DEF StoryMoves, EndStoryCall
<1> QED BY <1>4, StoryMovesSo

LEMMA CopyFailsMoves ==
    ASSUME StoriesInv, NEW c \in StoryCalls, NEW f \in Files, CopyFails(c, f)
    PROVE  StoriesInv'
<1>1. PICK r \in StoryCall :
             /\ r = call[c] /\ c \in StoryCalls /\ r.id \in StoryIds
             /\ Placed(r)
             /\ r.alone => AloneRight(r)
             /\ promised[r.id] # NoStory => r.alone
             /\ promised[r.id] # NoStory /\ ~ StoryExists(r.id) =>
                  promised[r.id] = EmptyFolder \/ Emptying(r)
    BY CallAt DEF CopyFails, StoryAt
<1>2. /\ r.step = "write" /\ f \in r.left
      /\ bucket' = [bucket EXCEPT ![r.id][f] = Cut]
      /\ stories' = stories /\ Spoil(r.id)
    BY <1>1 DEF CopyFails, StoryAt
<1>3. bucket[r.id] \in Folder
    BY <1>1 DEF StoriesInv, StoriesTypeOK
<1>4. [bucket[r.id] EXCEPT ![f] = Cut] \in Folder
    BY <1>3 DEF Folder
<1>5. /\ bucket' \in [StoryIds -> Folder]
      /\ \A t \in StoryIds \ {r.id} : bucket'[t] = bucket[t]
    BY <1>1, <1>2, <1>4 DEF StoriesInv, StoriesTypeOK
<1>6. CASE r.op = "create"
  <2>1. call' = [call EXCEPT ![c].step = "list", ![c].failed = TRUE]
      BY <1>1, <1>6 DEF CopyFails
  <2>2. r.alone => StoryExists(r.id)
      BY <1>1, <1>2, <1>6 DEF AloneRight
  <2> QED BY <1>1, <1>2, <1>5, <1>6, <2>1, <2>2, CleanUp
<1>7. CASE r.op # "create"
  <2>1. EndStoryCall(c)
      BY <1>1, <1>7 DEF CopyFails
  <2>2. stories' \in [StoryIds -> StoryTeams \cup {NoStory}]
      BY <1>2 DEF StoriesInv, StoriesTypeOK
  <2> QED BY <1>1, <1>2, <1>5, <2>1, <2>2, EndSpoiled
<1> QED BY <1>6, <1>7

LEMMA FailsMoves ==
    ASSUME StoriesInv, NEW c \in StoryCalls, StoryCallFails(c)
    PROVE  StoriesInv'
<1>1. PICK r \in StoryCall :
             /\ r = call[c] /\ c \in StoryCalls /\ r.id \in StoryIds
             /\ Placed(r)
             /\ r.alone => AloneRight(r)
             /\ promised[r.id] # NoStory => r.alone
             /\ promised[r.id] # NoStory /\ ~ StoryExists(r.id) =>
                  promised[r.id] = EmptyFolder \/ Emptying(r)
    BY CallAt DEF StoryCallFails
<1>2. UNCHANGED <<stories, bucket>>
    BY DEF StoryCallFails
<1>3. /\ stories' \in [StoryIds -> StoryTeams \cup {NoStory}]
      /\ bucket' \in [StoryIds -> Folder]
    BY <1>2 DEF StoriesInv, StoriesTypeOK
<1>4. CASE r.step \in {"write", "list", "clear"}
  <2>1. Spoil(r.id)
      BY <1>1, <1>4 DEF StoryCallFails
  <2>2. CASE r.step = "write" /\ r.op = "create" /\ r.left # {}
    <3>1. call' = [call EXCEPT ![c].step = "list", ![c].failed = TRUE]
        BY <1>1, <2>2 DEF StoryCallFails
    <3>2. r.alone => StoryExists(r.id)
        BY <1>1, <2>2 DEF AloneRight
    <3> QED BY <1>1, <1>2, <1>3, <2>1, <2>2, <3>1, <3>2, CleanUp
  <2>3. CASE ~ (r.step = "write" /\ r.op = "create" /\ r.left # {})
    <3>1. EndStoryCall(c)
        BY <1>1, <2>3 DEF StoryCallFails
    <3> QED BY <1>1, <1>2, <1>3, <2>1, <3>1, EndSpoiled
  <2> QED BY <2>2, <2>3
<1>5. CASE r.step \notin {"write", "list", "clear"}
  <2>1. EndStoryCall(c) /\ promised' = promised
      BY <1>1, <1>5 DEF StoryCallFails
  <2>2. r.step \in {"insert", "guard", "deleteRow", "updateRow"}
      BY <1>5 DEF StoryCall
  <2>3. promised[r.id] # NoStory => bucket[r.id] = promised[r.id]
      BY <1>1, <2>2 DEF AloneRight
  <2>4. ~ Emptying(r)
      BY <1>5 DEF Emptying
  <2>5. StoriesTypeOK'
      BY <1>2, <2>1 DEF StoriesInv, StoriesTypeOK, EndStoryCall
  <2>6. StoryMoves(c, r, NoStory)
      BY <1>1, <1>2, <2>1, <2>3, <2>4, <2>5
      DEF StoryMoves, EndStoryCall, StoryExists, GetStory
  <2> QED BY <1>1, <2>6, StoryMovesSo
<1> QED BY <1>4, <1>5

LEMMA CrashMoves ==
    ASSUME StoriesInv, NEW c \in StoryCalls, StoryCrash(c)
    PROVE  StoriesInv'
<1>1. PICK r \in StoryCall :
             /\ r = call[c] /\ c \in StoryCalls /\ r.id \in StoryIds
             /\ Placed(r)
             /\ r.alone => AloneRight(r)
             /\ promised[r.id] # NoStory => r.alone
             /\ promised[r.id] # NoStory /\ ~ StoryExists(r.id) =>
                  promised[r.id] = EmptyFolder \/ Emptying(r)
    BY CallAt DEF StoryCrash
<1>2. EndStoryCall(c) /\ Spoil(r.id) /\ bucket' = bucket
    BY <1>1 DEF StoryCrash
<1>3. /\ bucket' \in [StoryIds -> Folder]
      /\ stories \in [StoryIds -> StoryTeams \cup {NoStory}]
    BY <1>2 DEF StoriesInv, StoriesTypeOK
<1>4. /\ stories' \in [StoryIds -> StoryTeams \cup {NoStory}]
      /\ \A t \in StoryIds \ {r.id} : stories'[t] = stories[t]
  <2>1. CASE UNCHANGED stories
      BY <1>3, <2>1
  <2>2. CASE InsertStory(r.id, r.team)
      BY <1>1, <1>3, <2>2 DEF InsertStory, StoryCall
  <2>3. CASE DeleteStoryRow(r.id)
      BY <1>1, <1>3, <2>3 DEF DeleteStoryRow
  <2>4. CASE r.step = "updateRow" /\ UpdateStoryRow(r.id, r.group)
    <3>1. r.group \in StoryTeams
        BY DEF StoryCall
    <3> QED BY <1>1, <1>3, <2>4, <3>1 DEF UpdateStoryRow
  <2> QED BY <1>1, <2>1, <2>2, <2>3, <2>4 DEF StoryCrash
<1> QED BY <1>1, <1>2, <1>3, <1>4, EndSpoiled

LEMMA BeginMoves ==
    ASSUME StoriesInv, NEW c \in StoryCalls, NEW op \in Operations, NEW s \in StoryIds,
           NEW t \in StoryTeams, NEW v \in Uploads, NEW fs \in SUBSET Files,
           NEW g \in StoryTeams, NEW step \in {"insert", "guard"},
           (step = "insert") <=> (op = "create"),
           BeginStoryCall(c, op, s, t, v, fs, g, step)
    PROVE  StoriesInv'
<1> DEFINE new == [op |-> op, id |-> s, team |-> t, upload |-> v, files |-> fs, step |-> step,
                   left |-> IF op = "recreate" THEN {} ELSE fs, group |-> g,
                   alone |-> BusyOn(s) = {}, failed |-> FALSE]
<1>1. PICK m \in StoryCall :
        /\ m = new
        /\ m.op = op /\ m.id = s /\ m.step = step /\ m.files = fs
        /\ m.left = (IF op = "recreate" THEN {} ELSE fs)
        /\ m.alone = (BusyOn(s) = {}) /\ m.failed = FALSE
  <2>1. new \in StoryCall
      BY DEF StoryCall
  <2>2. /\ new.op = op /\ new.id = s /\ new.step = step /\ new.files = fs
        /\ new.left = (IF op = "recreate" THEN {} ELSE fs)
        /\ new.alone = (BusyOn(s) = {}) /\ new.failed = FALSE
      OBVIOUS
  <2> HIDE DEF new
  <2> QED BY <2>1, <2>2
<1>2. /\ call[c] = NoStory
      /\ call' = [x \in StoryCalls |->
           IF x = c THEN m
           ELSE IF x \in BusyOn(s) THEN [call[x] EXCEPT !.alone = FALSE] ELSE call[x]]
      /\ UNCHANGED <<stories, bucket>>
    BY <1>1 DEF BeginStoryCall
<1>3. m # NoStory
    BY NoCallAssumption
<1>4. c \notin InFlight /\ c \notin BusyOn(s)
    BY <1>2 DEF InFlight, BusyOn
<1>5. ASSUME NEW d \in StoryCalls, d # c, call[d] # NoStory
      PROVE  \E k, n \in StoryCall :
               /\ k = call[d] /\ n = call'[d] /\ n # NoStory
               /\ n.id = k.id /\ n.op = k.op /\ n.step = k.step /\ n.left = k.left
               /\ n.files = k.files /\ n.failed = k.failed
               /\ n.alone = (k.alone /\ d \notin BusyOn(s))
               /\ d \notin BusyOn(s) => n = k
  <2>1. PICK k \in StoryCall : k = call[d]
      BY <1>5 DEF StoriesInv, StoriesTypeOK
  <2>2. CASE d \in BusyOn(s)
    <3> DEFINE n == [k EXCEPT !.alone = FALSE]
    <3>1. n \in StoryCall /\ n.id = k.id /\ n.op = k.op /\ n.step = k.step /\ n.left = k.left
            /\ n.files = k.files /\ n.failed = k.failed /\ n.alone = FALSE
        BY DEF StoryCall
    <3>2. n = call'[d]
        BY <1>2, <1>5, <2>1, <2>2
    <3>3. n # NoStory
        BY <3>1, NoCallAssumption
    <3> HIDE DEF n
    <3> QED BY <2>1, <2>2, <3>1, <3>2, <3>3
  <2>3. CASE d \notin BusyOn(s)
    <3>1. call'[d] = k
        BY <1>2, <1>5, <2>1, <2>3
    <3>2. k.alone \in BOOLEAN
        BY DEF StoryCall
    <3> QED BY <1>5, <2>1, <2>3, <3>1, <3>2
  <2> QED BY <2>2, <2>3
<1>6. call'[c] = m /\ \A d \in StoryCalls \ {c} : call[d] = NoStory => call'[d] = NoStory
    BY <1>2 DEF BusyOn, InFlight
<1>7. InFlight' = InFlight \cup {c}
    BY <1>3, <1>5, <1>6 DEF InFlight
<1>8. ASSUME NEW u \in StoryIds
      PROVE  BusyOn(u)' = IF u = s THEN BusyOn(u) \cup {c} ELSE BusyOn(u)
  <2>1. \A d \in InFlight : call'[d].id = call[d].id
      BY <1>4, <1>5 DEF InFlight
  <2>2. call'[c].id = s
      BY <1>1, <1>6
  <2> QED BY <1>4, <1>7, <2>1, <2>2 DEF BusyOn
<1>9. /\ BusyOn(s) = {} => promised' = promised
      /\ BusyOn(s) # {} => promised'[s] = NoStory
      /\ \A u \in StoryIds \ {s} : promised'[u] = promised[u]
      /\ promised' \in [StoryIds -> Folder \cup {NoStory}]
    BY DEF BeginStoryCall, Spoil, StoriesInv, StoriesTypeOK
<1>10. StoriesTypeOK'
  <2>1. \A d \in StoryCalls : call'[d] \in StoryCall \cup {NoStory}
      BY <1>5, <1>6
  <2>2. call' \in [StoryCalls -> StoryCall \cup {NoStory}]
      BY <1>2, <2>1
  <2> QED BY <1>2, <1>9, <2>2 DEF StoriesInv, StoriesTypeOK
<1>11. Placed(m) /\ (m.alone => AloneRight(m)')
  <2>1. Placed(m)
      BY <1>1 DEF Placed, Operations
  <2>2. ASSUME m.alone PROVE AloneRight(m)'
    <3>1. BusyOn(s) = {}
        BY <1>1, <2>2
    <3>2. promised'[s] # NoStory => bucket'[s] = promised'[s]
        BY <1>2, <1>9, <3>1 DEF StoriesInv
    <3> QED BY <1>1, <3>2 DEF AloneRight
  <2> QED BY <2>1, <2>2
<1>12. ASSUME NEW d \in InFlight'
       PROVE  /\ Placed(call[d])'
              /\ call'[d].alone => BusyOn(call[d].id)' = {d} /\ AloneRight(call[d])'
              /\ promised'[call'[d].id] # NoStory => call'[d].alone
  <2>1. CASE d = c
    <3>1. m.alone => BusyOn(s)' = {c}
        BY <1>1, <1>8
    <3>2. promised'[s] # NoStory => m.alone
        BY <1>1, <1>9
    <3> QED BY <1>1, <1>6, <1>11, <2>1, <3>1, <3>2
  <2>2. CASE d # c
    <3>1. d \in StoryCalls /\ d \in InFlight /\ call[d] # NoStory
        BY <1>7, <2>2 DEF InFlight
    <3>2. PICK k, n \in StoryCall :
             /\ k = call[d] /\ n = call'[d] /\ n # NoStory
             /\ n.id = k.id /\ n.op = k.op /\ n.step = k.step /\ n.left = k.left
             /\ n.files = k.files /\ n.failed = k.failed
             /\ n.alone = (k.alone /\ d \notin BusyOn(s))
             /\ d \notin BusyOn(s) => n = k
        BY <1>5, <2>2, <3>1
    <3>3. /\ Placed(k) /\ (k.alone => BusyOn(k.id) = {d} /\ AloneRight(k))
          /\ promised[k.id] # NoStory => k.alone
          /\ k.id \in StoryIds
        BY <3>1, <3>2 DEF StoriesInv, StoryCall
    <3>4. Placed(n)
        BY <3>2, <3>3 DEF Placed
    <3>5. CASE k.id = s
      <4>1. d \in BusyOn(s)
          BY <3>1, <3>2, <3>5 DEF BusyOn
      <4>2. ~ n.alone /\ promised'[n.id] = NoStory
          BY <1>9, <3>2, <3>5, <4>1
      <4> QED BY <3>2, <3>4, <4>2
    <3>6. CASE k.id # s
      <4>1. d \notin BusyOn(s) /\ n = k
          BY <3>2, <3>6 DEF BusyOn
      <4>2. promised'[k.id] = promised[k.id] /\ BusyOn(k.id)' = BusyOn(k.id)
              /\ stories' = stories /\ bucket' = bucket
          BY <1>2, <1>8, <1>9, <3>3, <3>6
      <4>3. AloneRight(k) => AloneRight(k)'
          BY <4>2 DEF AloneRight, StoryExists, GetStory
      <4> QED BY <3>2, <3>3, <3>4, <4>1, <4>2, <4>3
    <3> QED BY <3>5, <3>6
  <2> QED BY <2>1, <2>2
<1>13. ASSUME NEW u \in StoryIds, promised'[u] # NoStory
       PROVE  /\ BusyOn(u)' = {} => bucket'[u] = promised'[u]
              /\ ~ StoryExists(u)' =>
                   promised'[u] = EmptyFolder \/ \E d \in BusyOn(u)' : Emptying(call'[d])
  <2>1. promised'[u] = promised[u] /\ bucket' = bucket /\ stories' = stories
      BY <1>2, <1>9, <1>13
  <2>2. CASE u = s
    <3>1. BusyOn(s) = {}
        BY <1>9, <1>13, <2>2
    <3>2. ~ StoryExists(s) => promised[s] = EmptyFolder
        BY <1>13, <2>1, <2>2, <3>1 DEF StoriesInv
    <3> QED BY <1>8, <2>1, <2>2, <3>2 DEF StoryExists, GetStory
  <2>3. CASE u # s
    <3>1. BusyOn(u)' = BusyOn(u)
        BY <1>8, <2>3
    <3>2. \A d \in BusyOn(u) : call'[d] = call[d]
        BY <1>2, <1>4, <2>3 DEF BusyOn, InFlight
    <3>3. /\ BusyOn(u) = {} => bucket[u] = promised[u]
          /\ ~ StoryExists(u) =>
               promised[u] = EmptyFolder \/ \E d \in BusyOn(u) : Emptying(call[d])
        BY <1>13, <2>1 DEF StoriesInv
    <3> QED BY <2>1, <3>1, <3>2, <3>3 DEF StoryExists, GetStory
  <2> QED BY <2>2, <2>3
<1> QED BY <1>10, <1>12, <1>13 DEF StoriesInv

LEMMA StartMoves ==
    ASSUME StoriesInv, NEW c \in StoryCalls, StartStoryCall(c)
    PROVE  StoriesInv'
<1>1. PICK s \in StoryIds, t \in StoryTeams, v \in Uploads :
        \/ \E fs \in SUBSET Files :
             \/ CreateStory(c, s, t, v, fs)
             \/ AppendStoryFiles(c, s, t, v, fs)
             \/ RecreateStoryFiles(c, s, t, v, fs)
        \/ CreateStoryForTeam(c, s, t, v)
        \/ DeleteStory(c, s, t, v)
        \/ \E g \in StoryTeams : UpdateStory(c, s, t, v, g)
    BY DEF StartStoryCall
<1>2. \E op \in Operations, fs \in SUBSET Files, g \in StoryTeams, step \in {"insert", "guard"} :
        ((step = "insert") <=> (op = "create")) /\ BeginStoryCall(c, op, s, t, v, fs, g, step)
  <2>1. ASSUME NEW fs \in SUBSET Files, CreateStory(c, s, t, v, fs)
        PROVE  BeginStoryCall(c, "create", s, t, v, fs, t, "insert")
      BY <2>1 DEF CreateStory
  <2>2. ASSUME NEW fs \in SUBSET Files, AppendStoryFiles(c, s, t, v, fs)
        PROVE  BeginStoryCall(c, "append", s, t, v, fs, t, "guard")
      BY <2>2 DEF AppendStoryFiles
  <2>3. ASSUME NEW fs \in SUBSET Files, RecreateStoryFiles(c, s, t, v, fs)
        PROVE  BeginStoryCall(c, "recreate", s, t, v, fs, t, "guard")
      BY <2>3 DEF RecreateStoryFiles
  <2>4. ASSUME CreateStoryForTeam(c, s, t, v)
        PROVE  BeginStoryCall(c, "create", s, t, v, {}, t, "insert")
      BY <2>4 DEF CreateStoryForTeam, CreateStory
  <2>5. ASSUME DeleteStory(c, s, t, v)
        PROVE  BeginStoryCall(c, "delete", s, t, v, {}, t, "guard")
      BY <2>5 DEF DeleteStory
  <2>6. ASSUME NEW g \in StoryTeams, UpdateStory(c, s, t, v, g)
        PROVE  BeginStoryCall(c, "update", s, t, v, {}, g, "guard")
      BY <2>6 DEF UpdateStory
  <2>7. {"create", "append", "recreate", "delete", "update"} \subseteq Operations
          /\ {} \in SUBSET Files
      BY DEF Operations
  <2> QED BY <1>1, <2>1, <2>2, <2>3, <2>4, <2>5, <2>6, <2>7
<1> QED BY <1>2, BeginMoves

-----------------------------------------------------------------------------
THEOREM StoriesInvariant == StoriesSpec => []StoriesInv
<1>1. StoriesInit => StoriesInv
  <2> SUFFICES ASSUME StoriesInit PROVE StoriesInv
      OBVIOUS
  <2>1. InFlight = {} /\ \A s \in StoryIds : promised[s] = EmptyFolder /\ bucket[s] = EmptyFolder
      BY DEF StoriesInit, InFlight
  <2>2. StoriesTypeOK
      BY EmptyIsFolder DEF StoriesInit, StoriesTypeOK
  <2> QED BY <2>1, <2>2 DEF StoriesInv
<1>2. StoriesInv /\ [StoriesNext]_storiesVars => StoriesInv'
  <2> SUFFICES ASSUME StoriesInv, [StoriesNext]_storiesVars
               PROVE  StoriesInv'
      OBVIOUS
  <2>1. ASSUME NEW c \in StoryCalls,
               \/ StartStoryCall(c)
               \/ StoryGuard(c)
               \/ CreateRow(c)
               \/ DeleteRow(c)
               \/ UpdateRow(c)
               \/ \E f \in Files : WriteFile(c, f) \/ DeleteObject(c, f) \/ CopyFails(c, f)
               \/ WrittenAll(c)
               \/ ListObjects(c)
               \/ Cleared(c)
               \/ StoryCallFails(c)
               \/ StoryCrash(c)
        PROVE  StoriesInv'
      BY <2>1, StartMoves, GuardMoves, CreateRowMoves, DeleteRowMoves, UpdateRowMoves,
         WriteMoves, DeleteObjectMoves, CopyFailsMoves, WrittenMoves, ListMoves,
         ClearedMoves, FailsMoves, CrashMoves
  <2>2. CASE UNCHANGED storiesVars
      BY <2>2 DEF storiesVars, StoriesInv, StoriesTypeOK, InFlight, BusyOn, AloneRight,
                  StoryExists, GetStory
  <2> QED BY <2>1, <2>2 DEF StoriesNext
<1> QED BY <1>1, <1>2, PTL DEF StoriesSpec

\* Every variable has its type.
THEOREM StoriesTypeCorrect == StoriesSpec => []StoriesTypeOK
<1>1. StoriesInv => StoriesTypeOK
    BY DEF StoriesInv
<1> QED BY <1>1, StoriesInvariant, PTL

\* A folder that nobody is at holds what the calls that succeeded put there.
THEOREM UploadsAreShown == StoriesSpec => []StoryShowsUploads
<1>1. StoriesInv => StoryShowsUploads
    BY DEF StoriesInv, StoryShowsUploads, GetObject
<1> QED BY <1>1, StoriesInvariant, PTL

\* Nothing is served of a story that is gone.
THEOREM DeletedStaysUnserved == StoriesSpec => []DeletedIsNotServed
<1>1. StoriesInv => DeletedIsNotServed
  <2> SUFFICES ASSUME StoriesInv, NEW s \in StoryIds, BusyOn(s) = {}, ~ StoryExists(s),
                      promised[s] # NoStory
               PROVE  GetIndexHtmlPath(bucket[s]) = NoStory
      BY DEF DeletedIsNotServed
  <2>1. bucket[s] = EmptyFolder
      BY DEF StoriesInv
  <2>2. Holds(bucket[s]) = {}
      BY <2>1 DEF Holds, EmptyFolder
  <2> QED BY <2>2 DEF GetIndexHtmlPath
<1> QED BY <1>1, StoriesInvariant, PTL

-----------------------------------------------------------------------------
(***************************************************************************)
(* Joinable views.  What BigQuery holds only grows, but for the readers of *)
(* views that have a row.  So it is enough to say, for each handler, what  *)
(* it has made so far: MakerMade.  The row comes last and takes over what  *)
(* the handler made, but for its readers: RowMade.  Who reads the views    *)
(* that have a row is said by StandingRight, an invariant of its own.      *)
(***************************************************************************)

\* The lowest and the highest of some sources
LEMMA LowestSource ==
    ASSUME NEW S \in SUBSET Sources, S # {}
    PROVE  Min(S) \in S
<1>1. S \in SUBSET Nat
    BY JoinableAssumption
<1>2. \E a \in S : \A b \in S : a =< b
    BY <1>1, LowestOf
<1> QED BY <1>2 DEF Min

LEMMA HighestSource ==
    ASSUME NEW S \in SUBSET Sources, S # {}
    PROVE  Max(S) \in S
<1> DEFINE Above(x) == {y \in S : y > x}
           Sizes == {k \in Nat : \E x \in S : Cardinality(Above(x)) = k}
<1>1. S \subseteq Nat /\ IsFiniteSet(S)
    BY JoinableAssumption, FS_Subset
<1>2. \A x \in S : IsFiniteSet(Above(x)) /\ Cardinality(Above(x)) \in Nat
    BY <1>1, FS_Subset, FS_CardinalityType
<1>3. Sizes # {} /\ Sizes \in SUBSET Nat
    BY <1>2
<1>4. PICK k \in Sizes : \A j \in Sizes : k <= j
  <2> HIDE DEF Sizes
  <2> QED BY <1>3, LowestOf
<1>5. PICK x \in S : Cardinality(Above(x)) = k
    OBVIOUS
<1>6. ASSUME NEW y \in S, y > x
      PROVE  FALSE
  <2>0. x \in Nat /\ y \in Nat
      BY <1>1
  <2>1. \A z \in S : z > y => z > x
      BY <1>1, <1>6, <2>0
  <2>2. Above(y) \in SUBSET Above(x) /\ Above(y) # Above(x)
    <3>1. y \in Above(x) /\ y \notin Above(y)
        BY <1>6, <2>0
    <3>2. Above(y) \in SUBSET Above(x)
        BY <2>1
    <3> QED BY <3>1, <3>2
  <2>3. Cardinality(Above(y)) <= Cardinality(Above(x))
          /\ Cardinality(Above(y)) # Cardinality(Above(x))
      BY <1>2, <2>2, FS_Subset
  <2>4. Cardinality(Above(y)) \in Sizes
      BY <1>2
  <2>5. k <= Cardinality(Above(y))
    <3> HIDE DEF Sizes, Above
    <3> QED BY <1>4, <2>4
  <2>6. Cardinality(Above(y)) \in Nat /\ k \in Nat
      BY <1>2
  <2> HIDE DEF Above
  <2> QED BY <1>5, <2>3, <2>5, <2>6
<1>7. \A y \in S : x >= y
    BY <1>1, <1>6
<1> QED BY <1>7 DEF Max

\* The source whose view is in the map is one of those asked for, and of that
\* BigQuery dataset.
LEMMA ViewInIsAsked ==
    ASSUME NEW asked \in SUBSET Sources, NEW s \in asked
    PROVE  /\ ViewIn(asked, place[s]) \in asked
           /\ place[ViewIn(asked, place[s])] = place[s]
<1> DEFINE S == {x \in asked : place[x] = place[s]}
<1>1. S # {} /\ S \in SUBSET Sources
    OBVIOUS
<1>2. Max(S) \in S
    BY <1>1, HighestSource
<1> QED BY <1>2 DEF ViewIn

-----------------------------------------------------------------------------
(* What a handler has made *)

\* A view is there and may read its table and the salts.
CanRead(j, s) == <<j, s>> \in authorized[place[s]] \cap authorized["vault"]

Later == {"secretTable", "secret", "view", "authorize", "authorizeVault", "grant"}
Viewing == {"authorize", "authorizeVault", "grant"}

MakerMade(m) ==
    /\ m.left \subseteq IF m.step = "grant" THEN MappedViews(m.asked) ELSE m.asked
    /\ m.step \in Later => m.name \in spaces /\ joinables[m.name] = NoView
    /\ m.step \in Viewing \cup {"view"} => m.name \in salts
    /\ m.step \in Viewing => \A s \in m.asked : <<m.name, s>> \in views
    /\ m.step = "view" => \A s \in m.asked \ m.left : <<m.name, s>> \in views
    /\ m.step \in {"authorize", "authorizeVault"} =>
         \A s \in m.asked \ m.left : CanRead(m.name, ViewIn(m.asked, place[s]))
    /\ m.step = "authorizeVault" =>
         /\ m.left # {}
         /\ LET s == Min(m.left)
            IN <<m.name, ViewIn(m.asked, place[s])>> \in authorized[place[s]]
    /\ m.step = "grant" =>
         /\ \A s \in m.asked : CanRead(m.name, ViewIn(m.asked, place[s]))
         /\ \A s \in MappedViews(m.asked) \ m.left : <<m.name, s, m.user>> \in viewers

\* What a handler has checked was there, or was deleted meanwhile.
MakerKnows(m) ==
    \A s \in m.asked : (m.step = "check" => s \notin m.left) =>
        s \in live \cup overlapped

\* And the user may read it.
MayRead(u, s) == <<u, s>> \in entitled
MakerMay(m) ==
    \A s \in m.asked : (m.step = "check" => s \notin m.left) => MayRead(m.user, s)

RowMade(j, row) ==
    /\ j \in spaces
    /\ \A s \in MappedViews(row.sources) :
         /\ j \in salts
         /\ <<j, s>> \in views
         /\ CanRead(j, s)
    /\ \A s \in row.sources : s \in live \cup row.deleted \cup overlapped
    /\ \A s \in row.sources : MayRead(row.owner, s)

\* Owners and accesses that are there were noted.
Owned == {us \in Users \X Sources : OwnsSource(us[1], us[2])}
Noted ==
    /\ Owned \subseteq entitled
    /\ \A u \in Users, s \in Sources, x \in Subjects :
         (accesses[s][x] > 1 \/ (accesses[s][x] = 1 /\ x \in GroupsOf[u] \cup {u})) =>
            <<u, s>> \in entitled

\* No two handlers make views under one name.
Named(c) == maker[c] # NoView /\ maker[c].step \in Later
NamesApart ==
    \A c, d \in ViewCalls :
        c # d /\ Named(c) /\ Named(d) => maker[c].name # maker[d].name

\* A grant or a revocation deals with views of that user and of that source.
ChangesKnow ==
    \A c \in AccessCalls : change[c] # NoView =>
        change[c].left \subseteq
            GetJoinableViewsForReferenceAndUser(change[c].user, change[c].source)

JoinablesInv ==
    /\ JoinablesTypeOK
    /\ Noted
    /\ \A c \in ViewCalls : maker[c] # NoView =>
         MakerMade(maker[c]) /\ MakerKnows(maker[c]) /\ MakerMay(maker[c])
    /\ \A j \in Joinables : joinables[j] # NoView => RowMade(j, joinables[j])
    /\ ViewersHadAccess
    /\ NamesApart
    /\ ChangesKnow

-----------------------------------------------------------------------------
(* The count.  If no subject has two active accesses, there are as many of *)
(* them as subjects that hold one.                                         *)

LEMMA RowsAreHolders ==
    ASSUME JoinablesTypeOK, NEW s \in Sources, \A x \in Subjects : accesses[s][x] <= 1
    PROVE  /\ IsFiniteSet(Holders(s))
           /\ Cardinality(ActiveRows(s)) = Cardinality(Holders(s))
<1> DEFINE f == [x \in Holders(s) |-> <<x, 1>>]
<1>1. Holders(s) \subseteq Subjects /\ \A x \in Subjects : accesses[s][x] \in 0..MaxRows
    BY DEF Holders, JoinablesTypeOK
<1>2. IsFiniteSet(Holders(s))
    BY <1>1, FS_Subset, SubjectsAssumption
<1>3. ASSUME NEW x \in Holders(s)
      PROVE  <<x, 1>> \in ActiveRows(s)
  <2>1. x \in Subjects /\ accesses[s][x] > 0 /\ accesses[s][x] \in 0..MaxRows
      BY <1>1 DEF Holders
  <2>2. MaxRows \in Nat /\ 1 \in 1..MaxRows /\ 1 <= accesses[s][x]
      BY <2>1, SubjectsAssumption
  <2> QED BY <2>1, <2>2 DEF ActiveRows
<1>4. ASSUME NEW row \in ActiveRows(s)
      PROVE  row[1] \in Holders(s) /\ row = <<row[1], 1>>
  <2>1. row \in Subjects \X (1..MaxRows) /\ row[2] <= accesses[s][row[1]]
      BY DEF ActiveRows
  <2>2. row[1] \in Subjects /\ row[2] \in 1..MaxRows /\ row = <<row[1], row[2]>>
      BY <2>1
  <2>3. accesses[s][row[1]] \in 0..MaxRows /\ accesses[s][row[1]] <= 1
      BY <1>1, <2>2
  <2>4. row[2] = 1 /\ accesses[s][row[1]] > 0
      BY <2>1, <2>2, <2>3, SubjectsAssumption
  <2> QED BY <2>2, <2>4 DEF Holders
<1>5. f \in Bijection(Holders(s), ActiveRows(s))
  <2>1. f \in [Holders(s) -> ActiveRows(s)]
      BY <1>3
  <2>2. \A a, b \in Holders(s) : f[a] = f[b] => a = b
      OBVIOUS
  <2>3. \A row \in ActiveRows(s) : \E a \in Holders(s) : f[a] = row
      BY <1>4
  <2> QED BY <2>1, <2>2, <2>3, Fun_IsBij, Zenon
<1>6. Cardinality(ActiveRows(s)) = Cardinality(Holders(s))
    BY <1>2, <1>5, FS_Bijection DEF ExistsBijection
<1> QED BY <1>2, <1>6

\* Who passes the check has, or has had, access.
LEMMA JoinerMayRead ==
    ASSUME JoinablesTypeOK, Noted, NEW u \in Users, NEW s \in Sources, MayJoin(u, s)
    PROVE  MayRead(u, s)
<1> SUFFICES ASSUME ~ OwnsSource(u, s), <<u, s>> \notin entitled
             PROVE  FALSE
    BY DEF MayRead, Noted, Owned
<1> DEFINE H == Holders(s)
           G == GroupsOf[u]
<1>1. \A x \in Subjects : accesses[s][x] \in Nat
    BY DEF JoinablesTypeOK
<1>2. \A x \in Subjects : accesses[s][x] <= 1 /\ (x \in G \cup {u} => accesses[s][x] # 1)
    BY <1>1 DEF Noted
<1>3. IsFiniteSet(H) /\ Cardinality(ActiveRows(s)) = Cardinality(H)
    BY <1>2, RowsAreHolders
<1>4. G \subseteq Subjects /\ u \notin G
    BY JoinableAssumption DEF Subjects
<1>5. IsFiniteSet(G)
    BY <1>4, FS_Subset, SubjectsAssumption
<1>6. H \cap (G \cup {u}) = {}
    BY <1>1, <1>2 DEF Holders
<1>7. IsFiniteSet(G \cup {u}) /\ Cardinality(G \cup {u}) = Cardinality(G) + 1
    BY <1>4, <1>5, FS_AddElement
<1>8. Cardinality(H \cup (G \cup {u})) =
        Cardinality(H) + Cardinality(G \cup {u}) - Cardinality(H \cap (G \cup {u}))
    BY <1>3, <1>7, FS_Union, Zenon
<1>9. Cardinality(H \cap (G \cup {u})) = 0
    BY <1>6, FS_EmptySet
<1>10. Cardinality(H) \in Nat /\ Cardinality(G) \in Nat
    BY <1>3, <1>5, FS_CardinalityType
<1>11. Cardinality(H \cup (G \cup {u})) = Cardinality(G) + 1 + Cardinality(H)
    BY <1>7, <1>8, <1>9, <1>10
<1>12. H \cup (G \cup {u}) = (H \cup G) \cup {u}
    OBVIOUS
<1> QED BY <1>3, <1>11, <1>12 DEF MayJoin

-----------------------------------------------------------------------------
(* The steps *)

\* What is made stays, and what was known stays known: so what is right of a
\* handler that takes no part in a step remains right.
Grows ==
    /\ place' = place
    /\ spaces \subseteq spaces'
    /\ salts \subseteq salts'
    /\ views \subseteq views'
    /\ \A d \in BqDatasets \cup {"vault"} : authorized[d] \subseteq authorized'[d]
    /\ \A j \in Joinables, s \in Sources, u \in Users :
         joinables[j] = NoView /\ <<j, s, u>> \in viewers => <<j, s, u>> \in viewers'
    /\ entitled \subseteq entitled'

LEMMA MadeStays ==
    ASSUME JoinablesTypeOK, Grows, NEW m \in Maker, MakerMade(m),
           m.step \in Later => joinables'[m.name] = NoView
    PROVE  MakerMade(m)'
<1>1. m.asked \subseteq Sources /\ m.left \subseteq Sources
    BY DEF Maker
<1>2. ASSUME NEW j, NEW s \in Sources, CanRead(j, s)
      PROVE  CanRead(j, s)'
    BY <1>2 DEF CanRead, Grows, JoinablesTypeOK
<1>3. \A asked, d : ViewIn(asked, d)' = ViewIn(asked, d)
    BY DEF Grows, ViewIn
<1>4. MappedViews(m.asked)' = MappedViews(m.asked)
    BY DEF Grows, MappedViews, ViewIn
<1>5. \A s \in m.asked : ViewIn(m.asked, place[s]) \in Sources
    BY <1>1, ViewInIsAsked
<1>6. m.step = "authorizeVault" => Min(m.left) \in Sources
    BY <1>1, LowestSource DEF MakerMade
<1>7. m.step \in {"authorize", "authorizeVault"} =>
         \A s \in m.asked \ m.left : CanRead(m.name, ViewIn(m.asked, place[s]))'
    BY <1>1, <1>2, <1>3, <1>5 DEF MakerMade, Grows
<1>8. (m.step = "authorizeVault" =>
         /\ m.left # {}
         /\ LET s == Min(m.left)
            IN <<m.name, ViewIn(m.asked, place[s])>> \in authorized[place[s]])'
    BY <1>3, <1>6 DEF MakerMade, Grows, JoinablesTypeOK
<1>9. (m.step = "grant" =>
         /\ \A s \in m.asked : CanRead(m.name, ViewIn(m.asked, place[s]))
         /\ \A s \in MappedViews(m.asked) \ m.left : <<m.name, s, m.user>> \in viewers)'
  <2>1. MappedViews(m.asked) \subseteq Sources
      BY <1>5 DEF MappedViews
  <2>2. ASSUME m.step = "grant", NEW s \in MappedViews(m.asked) \ m.left
        PROVE  <<m.name, s, m.user>> \in viewers'
    <3>1. m.name \in Joinables /\ joinables[m.name] = NoView
        BY <2>2 DEF MakerMade, Later, JoinablesTypeOK
    <3>2. s \in Sources /\ m.user \in Users /\ <<m.name, s, m.user>> \in viewers
        BY <2>1, <2>2 DEF MakerMade, Maker
    <3> QED BY <3>1, <3>2 DEF Grows
  <2> QED BY <1>1, <1>2, <1>3, <1>4, <1>5, <2>2 DEF MakerMade, Grows
<1> QED BY <1>4, <1>7, <1>8, <1>9 DEF MakerMade, Grows

LEMMA RowStays ==
    ASSUME JoinablesTypeOK, Grows, live' \cup overlapped' = live \cup overlapped,
           NEW j \in Joinables, NEW row \in JoinableRow, RowMade(j, row)
    PROVE  RowMade(j, row)'
<1>1. row.sources \subseteq Sources
    BY DEF JoinableRow
<1>2. MappedViews(row.sources)' = MappedViews(row.sources)
    BY DEF Grows, MappedViews, ViewIn
<1>3. MappedViews(row.sources) \subseteq Sources
    BY <1>1, ViewInIsAsked DEF MappedViews
<1>4. ASSUME NEW s \in MappedViews(row.sources)
      PROVE  CanRead(j, s)'
  <2>1. s \in Sources /\ CanRead(j, s)
      BY <1>3 DEF RowMade
  <2> QED BY <2>1 DEF CanRead, Grows, JoinablesTypeOK
<1> QED BY <1>1, <1>2, <1>4 DEF RowMade, Grows, MayRead

\* What was noted stays, so only what is active now is to be looked at.
LEMMA NotedStays ==
    ASSUME Noted, entitled \subseteq entitled',
           \A u \in Users, s \in Sources, x \in Subjects :
              (accesses'[s][x] > 1 \/ (accesses'[s][x] = 1 /\ x \in GroupsOf[u] \cup {u})) =>
                 <<u, s>> \in entitled'
    PROVE  Noted'
BY DEF Noted

\* A handler that moves: the others stay where they are, with what they made.
LEMMA HandlerMovesSo ==
    ASSUME JoinablesInv, Grows, JoinablesTypeOK', ViewersHadAccess',
           live' = live, accesses' = accesses, overlapped' = overlapped, entitled' = entitled,
           change' = change,
           NEW c \in ViewCalls, NEW m \in Maker \cup {NoView},
           maker' = [maker EXCEPT ![c] = m],
           m # NoView => MakerMade(m)' /\ MakerKnows(m)' /\ MakerMay(m)',
           m # NoView /\ m.step \in Later =>
             (m.name \notin spaces \/ (Named(c) /\ maker[c].name = m.name)),
           joinables' = joinables \/
             \E j \in Joinables, row \in JoinableRow :
                /\ joinables' = [joinables EXCEPT ![j] = row] /\ RowMade(j, row)
                /\ Named(c) /\ maker[c].name = j /\ m = NoView
    PROVE  JoinablesInv'
<1>1. Noted'
    BY NotedStays DEF JoinablesInv, Noted
<1>2. ASSUME NEW d \in ViewCalls, maker'[d] # NoView
      PROVE  MakerMade(maker[d])' /\ MakerKnows(maker[d])' /\ MakerMay(maker[d])'
  <2>1. CASE d = c
      BY <2>1, <1>2 DEF JoinablesInv, JoinablesTypeOK
  <2>2. CASE d # c
    <3>1. PICK k \in Maker : k = maker[d] /\ maker'[d] = k
        BY <2>2, <1>2 DEF JoinablesInv, JoinablesTypeOK
    <3>2. MakerMade(k) /\ MakerKnows(k) /\ MakerMay(k)
        BY <3>1, <1>2 DEF JoinablesInv
    <3>3. ASSUME k.step \in Later PROVE joinables'[k.name] = NoView
      <4>1. joinables[k.name] = NoView
          BY <3>2, <3>3 DEF MakerMade
      <4>2. Named(c) => maker[c].name # k.name
          BY <1>2, <2>2, <3>1, <3>3 DEF JoinablesInv, NamesApart, Named
      <4>3. ASSUME NEW j \in Joinables, NEW row, joinables' = [joinables EXCEPT ![j] = row],
                   j # k.name
            PROVE  joinables'[k.name] = joinables[k.name]
        <5>1. k.name \in Joinables
            BY <3>2, <3>3 DEF MakerMade, JoinablesInv, JoinablesTypeOK
        <5> QED BY <4>3, <5>1 DEF JoinablesInv, JoinablesTypeOK
      <4> QED BY <4>1, <4>2, <4>3
    <3>4. MakerMade(k)'
        BY <3>2, <3>3, MadeStays DEF JoinablesInv
    <3>5. MakerKnows(k)' /\ MakerMay(k)'
        BY <3>2 DEF MakerKnows, MakerMay, MayRead
    <3> QED BY <3>1, <3>4, <3>5
  <2> QED BY <2>1, <2>2
<1>3. ASSUME NEW j \in Joinables, joinables'[j] # NoView
      PROVE  RowMade(j, joinables[j])'
  <2>1. PICK row \in JoinableRow : row = joinables'[j] /\ RowMade(j, row)
      BY <1>3 DEF JoinablesInv, JoinablesTypeOK
  <2>2. RowMade(j, row)'
      BY <2>1, RowStays DEF JoinablesInv
  <2> QED BY <2>1, <2>2
<1>4. NamesApart'
  <2>1. ASSUME NEW d \in ViewCalls, d # c, Named(d), m # NoView, m.step \in Later
        PROVE  maker[d].name # m.name
    <3>1. maker[d].name \in spaces
        BY <2>1 DEF JoinablesInv, MakerMade, Named
    <3> QED BY <2>1, <3>1 DEF JoinablesInv, NamesApart
  <2>2. \A d \in ViewCalls \ {c} : maker'[d] = maker[d]
      BY DEF JoinablesInv, JoinablesTypeOK
  <2>3. maker'[c] = m
      BY DEF JoinablesInv, JoinablesTypeOK
  <2> QED BY <2>1, <2>2, <2>3 DEF JoinablesInv, NamesApart, Named
<1>5. ChangesKnow'
  <2>1. ASSUME NEW j \in Joinables, joinables[j] # NoView PROVE joinables'[j] = joinables[j]
    <3>1. Named(c) => joinables[maker[c].name] = NoView
        BY DEF JoinablesInv, MakerMade, Named
    <3> QED BY <2>1, <3>1 DEF JoinablesInv, JoinablesTypeOK
  <2> QED BY <2>1 DEF JoinablesInv, ChangesKnow, GetJoinableViewsForReferenceAndUser
<1> QED BY <1>1, <1>2, <1>3, <1>4, <1>5 DEF JoinablesInv

\* A step of the others, who leave handlers that create views and their rows alone
LEMMA OthersMoveSo ==
    ASSUME JoinablesInv, Grows, JoinablesTypeOK', ViewersHadAccess', Noted', ChangesKnow',
           live' = live, overlapped' = overlapped, maker' = maker, joinables' = joinables
    PROVE  JoinablesInv'
<1>1. ASSUME NEW c \in ViewCalls, maker'[c] # NoView
      PROVE  MakerMade(maker[c])' /\ MakerKnows(maker[c])' /\ MakerMay(maker[c])'
  <2>1. PICK k \in Maker : k = maker[c]
      BY <1>1 DEF JoinablesInv, JoinablesTypeOK
  <2>2. MakerMade(k) /\ MakerKnows(k) /\ MakerMay(k)
      BY <1>1, <2>1 DEF JoinablesInv
  <2>3. MakerMade(k)'
    <3>1. k.step \in Later => joinables'[k.name] = NoView
        BY <2>2 DEF MakerMade
    <3> QED BY <2>2, <3>1, MadeStays DEF JoinablesInv
  <2>4. MakerKnows(k)' /\ MakerMay(k)'
      BY <2>2 DEF MakerKnows, MakerMay, MayRead, Grows
  <2> QED BY <2>1, <2>3, <2>4
<1>2. ASSUME NEW j \in Joinables, joinables'[j] # NoView
      PROVE  RowMade(j, joinables[j])'
  <2>1. PICK row \in JoinableRow : row = joinables[j] /\ RowMade(j, row)
      BY <1>2 DEF JoinablesInv, JoinablesTypeOK
  <2>2. RowMade(j, row)'
      BY <2>1, RowStays DEF JoinablesInv
  <2> QED BY <2>1, <2>2
<1>3. NamesApart'
    BY DEF JoinablesInv, NamesApart, Named
<1> QED BY <1>1, <1>2, <1>3 DEF JoinablesInv

\* What is active is set, and noted.
LEMMA AccessesNoted ==
    ASSUME JoinablesInv, NEW s \in Sources, NEW x \in Subjects, NEW n \in 0..MaxRows,
           SetAccesses(s, x, n)
    PROVE  /\ Noted'
           /\ accesses' \in [Sources -> [Subjects -> 0..MaxRows]]
           /\ entitled' \subseteq Users \X Sources
           /\ entitled \subseteq entitled'
<1>1. entitled \subseteq entitled'
    BY DEF SetAccesses
<1>2. Noted'
  <2> SUFFICES ASSUME NEW u \in Users, NEW t \in Sources, NEW y \in Subjects,
                      \/ accesses'[t][y] > 1
                      \/ accesses'[t][y] = 1 /\ y \in GroupsOf[u] \cup {u}
               PROVE  <<u, t>> \in entitled'
      BY <1>1, NotedStays DEF JoinablesInv
  <2>1. CASE t = s /\ y = x
    <3>1. accesses'[t][y] = n
        BY <2>1 DEF SetAccesses, JoinablesInv, JoinablesTypeOK
    <3> QED BY <2>1, <3>1 DEF SetAccesses
  <2>2. CASE ~ (t = s /\ y = x)
    <3>1. accesses'[t][y] = accesses[t][y]
        BY <2>2 DEF SetAccesses, JoinablesInv, JoinablesTypeOK
    <3> QED BY <1>1, <3>1 DEF JoinablesInv, Noted
  <2> QED BY <2>1, <2>2
<1>3. /\ accesses' \in [Sources -> [Subjects -> 0..MaxRows]]
      /\ entitled' \subseteq Users \X Sources
    BY DEF SetAccesses, JoinablesInv, JoinablesTypeOK
<1> QED BY <1>1, <1>2, <1>3

\* Approvals and expiries
LEMMA AccessesMove ==
    ASSUME JoinablesInv, NEW s \in Sources, NEW x \in Subjects,
           ApproveAccessRequest(s, x) \/ AccessEnds(s, x)
    PROVE  JoinablesInv'
<1>1. PICK n \in 0..MaxRows : SetAccesses(s, x, n)
  <2>1. accesses[s][x] \in 0..MaxRows
      BY DEF JoinablesInv, JoinablesTypeOK
  <2>2. CASE ApproveAccessRequest(s, x)
    <3>1. accesses[s][x] + 1 \in 0..MaxRows
        BY <2>1, <2>2, SubjectsAssumption DEF ApproveAccessRequest
    <3> QED BY <2>2, <3>1 DEF ApproveAccessRequest
  <2>3. CASE AccessEnds(s, x)
    <3>1. accesses[s][x] - 1 \in 0..MaxRows
        BY <2>1, <2>3, SubjectsAssumption DEF AccessEnds
    <3> QED BY <2>3, <3>1 DEF AccessEnds
  <2> QED BY <2>2, <2>3
<1>2. UNCHANGED <<place, live, overlapped, bigquery, joinables, maker, change, standing>>
    BY DEF ApproveAccessRequest, AccessEnds
<1>3. /\ Noted' /\ accesses' \in [Sources -> [Subjects -> 0..MaxRows]]
      /\ entitled' \subseteq Users \X Sources /\ entitled \subseteq entitled'
    BY <1>1, AccessesNoted
<1>4. Grows /\ ViewersHadAccess'
    BY <1>2, <1>3 DEF Grows, bigquery, JoinablesInv, ViewersHadAccess
<1>5. JoinablesTypeOK' /\ ChangesKnow'
    BY <1>2, <1>3
    DEF bigquery, JoinablesInv, JoinablesTypeOK, ChangesKnow, GetJoinableViewsForReferenceAndUser
<1> QED BY <1>2, <1>3, <1>4, <1>5, OthersMoveSo

-----------------------------------------------------------------------------
(* Grants and revocations *)

\* A grant or a revocation begins with the views that the user has.
LEMMA ChangeBegins ==
    ASSUME JoinablesInv, NEW c \in AccessCalls, NEW op \in {"grant", "revoke"},
           NEW u \in Users, NEW s \in Sources, BeginChange(c, op, u, s)
    PROVE  \E m \in Change :
             /\ change' = [change EXCEPT ![c] = m]
             /\ m.op = op /\ m.user = u /\ m.source = s
             /\ m.left = GetJoinableViewsForReferenceAndUser(u, s)
<1> DEFINE m == [op |-> op, user |-> u, source |-> s,
                 left |-> GetJoinableViewsForReferenceAndUser(u, s)]
<1>1. /\ m \in Change /\ m.op = op /\ m.user = u /\ m.source = s
      /\ m.left = GetJoinableViewsForReferenceAndUser(u, s)
    BY DEF Change, GetJoinableViewsForReferenceAndUser
<1>2. change' = [change EXCEPT ![c] = m]
    BY DEF BeginChange
<1> QED BY <1>1, <1>2

LEMMA BeginsMove ==
    ASSUME JoinablesInv, NEW c \in AccessCalls, NEW u \in Users, NEW s \in Sources,
           GrantAccessToDataset(c, u, s) \/ RevokeAccessToDataset(c, u, s)
    PROVE  JoinablesInv'
<1>1. PICK op \in {"grant", "revoke"} : BeginChange(c, op, u, s)
    BY DEF GrantAccessToDataset, RevokeAccessToDataset
<1>2. PICK m \in Change : /\ change' = [change EXCEPT ![c] = m]
                          /\ m.user = u /\ m.source = s
                          /\ m.left = GetJoinableViewsForReferenceAndUser(u, s)
    BY <1>1, ChangeBegins
<1>3. UNCHANGED <<place, live, accesses, entitled, overlapped, bigquery, joinables, maker>>
    BY <1>1 DEF BeginChange
<1>4. standing' \in [Users -> [Sources -> Standing]]
  <2>1. PICK how \in Standing : Stands(u, s, how)
    <3>1. /\ "in" \in Standing /\ "out" \in Standing /\ "unsure" \in Standing
          /\ c \in Standing
        BY DEF Standing
    <3> QED BY <3>1 DEF GrantAccessToDataset, RevokeAccessToDataset
  <2> QED BY <2>1 DEF Stands, JoinablesInv, JoinablesTypeOK
<1>5. JoinablesTypeOK'
    BY <1>2, <1>3, <1>4 DEF bigquery, JoinablesInv, JoinablesTypeOK
<1>6. Grows /\ ViewersHadAccess' /\ Noted'
    BY <1>3 DEF Grows, bigquery, JoinablesInv, ViewersHadAccess, Noted
<1>7. ChangesKnow'
    BY <1>2, <1>3 DEF JoinablesInv, JoinablesTypeOK, ChangesKnow,
                      GetJoinableViewsForReferenceAndUser
<1> QED BY <1>3, <1>5, <1>6, <1>7, OthersMoveSo

\* The view that is dealt with next, and what is left then
LEMMA NextViewDone ==
    ASSUME JoinablesInv, NEW c \in AccessCalls, change[c] # NoView, NEW j \in Joinables,
           NextView(c, j)
    PROVE  \E k \in Change, m \in Change :
             /\ k = change[c] /\ j \in k.left
             /\ change' = [change EXCEPT ![c] = m]
             /\ m.op = k.op /\ m.user = k.user /\ m.source = k.source
             /\ m.left = k.left \ {j}
             /\ joinables[j] # NoView /\ joinables[j].owner = k.user
             /\ k.source \in joinables[j].sources
<1>1. PICK k \in Change : k = change[c] /\ j \in k.left
    BY DEF NextView, JoinablesInv, JoinablesTypeOK
<1> DEFINE m == [k EXCEPT !.left = k.left \ {j}]
<1>2. /\ m \in Change /\ m.op = k.op /\ m.user = k.user /\ m.source = k.source
      /\ m.left = k.left \ {j}
    BY DEF Change
<1>3. change' = [change EXCEPT ![c] = m]
    BY <1>1 DEF NextView
<1>4. j \in GetJoinableViewsForReferenceAndUser(k.user, k.source)
    BY <1>1 DEF JoinablesInv, ChangesKnow
<1> HIDE DEF m
<1> QED BY <1>1, <1>2, <1>3, <1>4 DEF GetJoinableViewsForReferenceAndUser

LEMMA ViewsMove ==
    ASSUME JoinablesInv, NEW c \in AccessCalls, NEW j \in Joinables,
           GrantJoinableView(c, j) \/ RevokeJoinableView(c, j)
    PROVE  JoinablesInv'
<1>1. change[c] # NoView /\ NextView(c, j)
    BY DEF GrantJoinableView, RevokeJoinableView, ChangeAt
<1>2. PICK k \in Change, m \in Change :
             /\ k = change[c] /\ j \in k.left
             /\ change' = [change EXCEPT ![c] = m]
             /\ m.user = k.user /\ m.source = k.source /\ m.left = k.left \ {j}
             /\ joinables[j] # NoView /\ joinables[j].owner = k.user
             /\ k.source \in joinables[j].sources
    BY <1>1, NextViewDone
<1>3. UNCHANGED <<place, live, accesses, entitled, overlapped, spaces, vault, salts, views,
                  authorized, joinables, maker, standing>>
    BY <1>1 DEF NextView
<1>4. k.user \in Users /\ k.source \in Sources
    BY DEF Change
<1>5. /\ viewers' \subseteq viewers \cup {<<j, k.source, k.user>>}
      /\ viewers \ {<<j, k.source, k.user>>} \subseteq viewers'
    BY <1>2 DEF GrantJoinableView, RevokeJoinableView
<1>6. <<k.user, k.source>> \in entitled
    BY <1>2 DEF JoinablesInv, RowMade, MayRead
<1>7. JoinablesTypeOK'
    BY <1>2, <1>3, <1>4, <1>5 DEF JoinablesInv, JoinablesTypeOK
<1>8. Grows /\ Noted'
    BY <1>2, <1>3, <1>5 DEF Grows, JoinablesInv, Noted
<1>9. ViewersHadAccess'
    BY <1>3, <1>5, <1>6 DEF JoinablesInv, ViewersHadAccess
<1>10. ChangesKnow'
  <2> SUFFICES ASSUME NEW d \in AccessCalls, change'[d] # NoView
               PROVE  change'[d].left \subseteq
                        GetJoinableViewsForReferenceAndUser(change'[d].user, change'[d].source)
      BY <1>3 DEF ChangesKnow, GetJoinableViewsForReferenceAndUser
  <2>1. CASE d = c
    <3>1. change'[d] = m
        BY <1>2, <2>1 DEF JoinablesInv, JoinablesTypeOK
    <3>2. k.left \subseteq GetJoinableViewsForReferenceAndUser(k.user, k.source)
        BY <1>1, <1>2 DEF JoinablesInv, ChangesKnow
    <3> QED BY <1>2, <3>1, <3>2
  <2>2. CASE d # c
    <3>1. change'[d] = change[d]
        BY <1>2, <2>2 DEF JoinablesInv, JoinablesTypeOK
    <3> QED BY <3>1 DEF JoinablesInv, ChangesKnow
  <2> QED BY <2>1, <2>2
<1> QED BY <1>3, <1>7, <1>8, <1>9, <1>10, OthersMoveSo

LEMMA EndsMove ==
    ASSUME JoinablesInv, NEW c \in AccessCalls,
           GrantAccessToDatasetAndRenew(c) \/ RevokeAccess(c) \/ ChangeFails(c)
    PROVE  JoinablesInv'
<1>1. PICK k \in Change : k = change[c]
    BY DEF GrantAccessToDatasetAndRenew, RevokeAccess, ChangeFails, ChangeAt,
           JoinablesInv, JoinablesTypeOK
<1>2. /\ change' = [change EXCEPT ![c] = NoView]
      /\ UNCHANGED <<place, live, overlapped, bigquery, joinables, maker>>
    BY DEF GrantAccessToDatasetAndRenew, RevokeAccess, ChangeFails, FinishChange, EndChange
<1>3. standing' \in [Users -> [Sources -> Standing]]
  <2>1. ASSUME NEW how \in Standing, Stands(k.user, k.source, how)
        PROVE  standing' \in [Users -> [Sources -> Standing]]
      BY <2>1 DEF Stands, JoinablesInv, JoinablesTypeOK
  <2>2. PICK how \in Standing : Stands(k.user, k.source, how) \/ standing' = standing
      BY <1>1 DEF GrantAccessToDatasetAndRenew, RevokeAccess, ChangeFails, FinishChange,
                  Standing
  <2> QED BY <2>1, <2>2 DEF JoinablesInv, JoinablesTypeOK
<1> DEFINE Settled == /\ Noted' /\ accesses' \in [Sources -> [Subjects -> 0..MaxRows]]
                      /\ entitled' \subseteq Users \X Sources /\ entitled \subseteq entitled'
<1>4. Settled
  <2>1. CASE ChangeFails(c)
      BY <2>1 DEF ChangeFails, JoinablesInv, JoinablesTypeOK, Noted
  <2>2. ASSUME NEW n \in 0..MaxRows, NEW how, FinishChange(c, n, how)
        PROVE  Settled
    <3>1. k.source \in Sources /\ k.user \in Subjects
        BY DEF Change, Subjects
    <3>2. SetAccesses(k.source, k.user, n)
        BY <1>1, <2>2 DEF FinishChange
    <3> QED BY <3>1, <3>2, AccessesNoted
  <2>3. 1..MaxRows \subseteq 0..MaxRows
      BY SubjectsAssumption
  <2> QED BY <2>1, <2>2, <2>3 DEF GrantAccessToDatasetAndRenew, RevokeAccess
<1>5. Grows /\ ViewersHadAccess'
    BY <1>2, <1>4 DEF Grows, bigquery, JoinablesInv, ViewersHadAccess
<1>6. JoinablesTypeOK'
    BY <1>2, <1>3, <1>4 DEF bigquery, JoinablesInv, JoinablesTypeOK
<1>7. ChangesKnow'
    BY <1>2 DEF JoinablesInv, JoinablesTypeOK, ChangesKnow, GetJoinableViewsForReferenceAndUser
<1> QED BY <1>2, <1>4, <1>5, <1>6, <1>7, OthersMoveSo

LEMMA DeleteMoves ==
    ASSUME JoinablesInv, NEW s \in Sources, DeleteSource(s)
    PROVE  JoinablesInv'
<1>1. Grows /\ maker' = maker /\ entitled' = entitled /\ viewers' = viewers
        /\ live' = live \ {s} /\ overlapped \subseteq overlapped'
    BY DEF DeleteSource, Grows, bigquery
<1>2. JoinablesTypeOK'
  <2>1. accesses' \in [Sources -> [Subjects -> 0..MaxRows]]
      BY SubjectsAssumption DEF DeleteSource, JoinablesInv, JoinablesTypeOK
  <2>2. joinables' \in [Joinables -> JoinableRow \cup {NoView}]
      BY DEF DeleteSource, JoinablesInv, JoinablesTypeOK, JoinableRow
  <2> QED BY <1>1, <2>1, <2>2 DEF DeleteSource, JoinablesInv, JoinablesTypeOK, bigquery
<1>3. Noted'
  <2> SUFFICES ASSUME NEW u \in Users, NEW t \in Sources, NEW y \in Subjects,
                      \/ accesses'[t][y] > 1
                      \/ accesses'[t][y] = 1 /\ y \in GroupsOf[u] \cup {u}
               PROVE  <<u, t>> \in entitled'
      BY <1>1, NotedStays DEF JoinablesInv
  <2>1. CASE t = s
      BY <2>1 DEF DeleteSource, JoinablesInv, JoinablesTypeOK
  <2>2. CASE t # s
    <3>1. accesses'[t][y] = accesses[t][y]
        BY <2>2 DEF DeleteSource, JoinablesInv, JoinablesTypeOK
    <3> QED BY <1>1, <3>1 DEF JoinablesInv, Noted
  <2> QED BY <2>1, <2>2
<1>4. ASSUME NEW c \in ViewCalls, maker'[c] # NoView
      PROVE  MakerMade(maker[c])' /\ MakerKnows(maker[c])' /\ MakerMay(maker[c])'
  <2>1. PICK k \in Maker : k = maker[c]
      BY <1>1, <1>4 DEF JoinablesInv, JoinablesTypeOK
  <2>2. MakerMade(k) /\ MakerKnows(k) /\ MakerMay(k)
      BY <1>1, <1>4, <2>1 DEF JoinablesInv
  <2>3. MakerMade(k)'
    <3>1. k.step \in Later => k.name \in Joinables /\ joinables[k.name] = NoView
        BY <2>2 DEF MakerMade, JoinablesInv, JoinablesTypeOK
    <3>2. k.step \in Later => joinables'[k.name] = NoView
        BY <3>1 DEF DeleteSource
    <3> QED BY <1>1, <2>2, <3>2, MadeStays DEF JoinablesInv
  <2>4. s \in k.asked => s \in overlapped'
      BY <1>1, <1>4, <2>1 DEF DeleteSource
  <2>5. MakerKnows(k)'
      BY <1>1, <2>2, <2>4 DEF MakerKnows
  <2>6. MakerMay(k)'
      BY <1>1, <2>2 DEF MakerMay, MayRead
  <2> QED BY <1>1, <2>1, <2>3, <2>5, <2>6
<1>5. ASSUME NEW j \in Joinables, joinables'[j] # NoView
      PROVE  RowMade(j, joinables[j])'
  <2>1. joinables[j] # NoView
      BY <1>5 DEF DeleteSource
  <2>2. PICK row \in JoinableRow : row = joinables[j] /\ RowMade(j, row)
      BY <2>1 DEF JoinablesInv, JoinablesTypeOK
  <2>3. PICK new \in JoinableRow : /\ new = joinables'[j]
                                   /\ new.owner = row.owner
                                   /\ new.sources = row.sources
                                   /\ new.deleted = row.deleted \cup ({s} \cap row.sources)
      BY <2>1, <2>2 DEF DeleteSource, JoinableRow
  <2>4. MappedViews(row.sources)' = MappedViews(row.sources)
      BY <1>1 DEF Grows, MappedViews, ViewIn
  <2>5. row.sources \subseteq Sources
      BY DEF JoinableRow
  <2>6. MappedViews(row.sources) \subseteq Sources
      BY <2>5, ViewInIsAsked DEF MappedViews
  <2>7. ASSUME NEW t \in MappedViews(row.sources)
        PROVE  CanRead(j, t)'
    <3>1. t \in Sources /\ CanRead(j, t)
        BY <2>2, <2>6 DEF RowMade
    <3> QED BY <1>1, <3>1 DEF CanRead, Grows, JoinablesInv, JoinablesTypeOK
  <2>8. \A t \in row.sources : t \in live' \cup new.deleted \cup overlapped'
      BY <1>1, <2>2, <2>3 DEF RowMade
  <2>9. RowMade(j, new)'
    <3>1. MappedViews(new.sources)' = MappedViews(row.sources)
        BY <2>3, <2>4
    <3> QED BY <1>1, <2>2, <2>3, <2>7, <2>8, <3>1 DEF RowMade, Grows, MayRead
  <2> QED BY <2>3, <2>9
<1>6. ViewersHadAccess'
    BY <1>1 DEF JoinablesInv, ViewersHadAccess
<1>7. NamesApart'
    BY <1>1 DEF JoinablesInv, NamesApart, Named
<1>8. ChangesKnow'
  <2>1. change' = change
      BY DEF DeleteSource
  <2>2. \A u \in Users, t \in Sources :
           GetJoinableViewsForReferenceAndUser(u, t)' = GetJoinableViewsForReferenceAndUser(u, t)
    <3>1. ASSUME NEW j \in Joinables
          PROVE  /\ joinables'[j] = NoView <=> joinables[j] = NoView
                 /\ joinables[j] # NoView => /\ joinables'[j].owner = joinables[j].owner
                                            /\ joinables'[j].sources = joinables[j].sources
      <4>1. CASE joinables[j] = NoView
          BY <4>1 DEF DeleteSource
      <4>2. CASE joinables[j] # NoView
        <5>1. PICK row \in JoinableRow : row = joinables[j]
            BY <4>2 DEF JoinablesInv, JoinablesTypeOK
        <5>2. PICK new \in JoinableRow : /\ new = joinables'[j] /\ new.owner = row.owner
                                         /\ new.sources = row.sources
            BY <4>2, <5>1 DEF DeleteSource, JoinableRow
        <5>3. joinables'[j] # NoView
            BY <5>2, NoViewAssumption
        <5> QED BY <4>2, <5>1, <5>2, <5>3
      <4> QED BY <4>1, <4>2
    <3> QED BY <3>1 DEF GetJoinableViewsForReferenceAndUser
  <2> QED BY <2>1, <2>2 DEF JoinablesInv, JoinablesTypeOK, ChangesKnow, Change
<1> QED BY <1>2, <1>3, <1>4, <1>5, <1>6, <1>7, <1>8 DEF JoinablesInv

\* What is right of a handler, where it is found
LEMMA HandlerAt ==
    ASSUME JoinablesInv, NEW c \in ViewCalls, maker[c] # NoView
    PROVE  \E k \in Maker : /\ k = maker[c]
                            /\ MakerMade(k) /\ MakerKnows(k) /\ MakerMay(k)
BY DEF JoinablesInv, JoinablesTypeOK

LEMMA CreateMoves ==
    ASSUME JoinablesInv, NEW c \in ViewCalls, NEW u \in Users, NEW asked \in SUBSET Sources,
           CreateJoinableViews(c, u, asked)
    PROVE  JoinablesInv'
<1>1. PICK m \in Maker : /\ maker' = [maker EXCEPT ![c] = m]
                         /\ m.step = "check" /\ m.left = asked /\ m.asked = asked
  <2> DEFINE m == [user |-> u, asked |-> asked, name |-> NoView, step |-> "check", left |-> asked]
  <2>1. m \in Maker /\ m.step = "check" /\ m.left = asked /\ m.asked = asked
      BY DEF Maker
  <2>2. maker' = [maker EXCEPT ![c] = m]
      BY DEF CreateJoinableViews
  <2> QED BY <2>1, <2>2
<1>2. /\ UNCHANGED <<registered, bigquery, joinables>>
      /\ standing' \in [Users -> [Sources -> Standing]]
    BY DEF CreateJoinableViews, Standing, JoinablesInv, JoinablesTypeOK
<1>3. Grows /\ ViewersHadAccess'
    BY <1>2 DEF Grows, registered, bigquery, JoinablesInv, ViewersHadAccess
<1>4. JoinablesTypeOK'
    BY <1>1, <1>2 DEF registered, bigquery, JoinablesInv, JoinablesTypeOK
<1>5. MakerMade(m)' /\ MakerKnows(m)' /\ MakerMay(m)'
    BY <1>1 DEF MakerMade, MakerKnows, MakerMay, Later, Viewing
<1> QED BY <1>1, <1>2, <1>3, <1>4, <1>5, HandlerMovesSo DEF registered, Later

LEMMA CheckMoves ==
    ASSUME JoinablesInv, NEW c \in ViewCalls, CheckDataset(c)
    PROVE  JoinablesInv'
<1>0. PICK k \in Maker : k = maker[c] /\ MakerMade(k) /\ MakerKnows(k) /\ MakerMay(k)
    BY HandlerAt DEF CheckDataset, MakerAt
<1>1. k.step = "check" /\ k.left \subseteq k.asked /\ k.asked \subseteq Sources /\ k.user \in Users
    BY <1>0 DEF CheckDataset, MakerAt, MakerMade, Maker
<1>2. UNCHANGED <<registered, standing, bigquery, joinables>>
    BY DEF CheckDataset
<1>3. Grows /\ ViewersHadAccess'
    BY <1>2 DEF Grows, registered, bigquery, JoinablesInv, ViewersHadAccess
<1>4. CASE k.left = {}
  <2>1. PICK m \in Maker : /\ maker' = [maker EXCEPT ![c] = m]
                           /\ m.step = "space" /\ m.left = {}
                           /\ m.asked = k.asked /\ m.user = k.user
    <3> DEFINE m == [k EXCEPT !.step = "space", !.left = {}]
    <3>1. m \in Maker /\ m.step = "space" /\ m.left = {} /\ m.asked = k.asked /\ m.user = k.user
        BY <1>1 DEF Maker
    <3>2. maker' = [maker EXCEPT ![c] = m]
        BY <1>0, <1>4 DEF CheckDataset, MakerGoto, JoinablesInv, JoinablesTypeOK
    <3> QED BY <3>1, <3>2
  <2>2. JoinablesTypeOK'
      BY <1>2, <2>1 DEF registered, bigquery, JoinablesInv, JoinablesTypeOK
  <2>3. MakerMade(m)' /\ MakerKnows(m)' /\ MakerMay(m)'
      BY <1>0, <1>1, <1>2, <1>4, <2>1
      DEF MakerMade, MakerKnows, MakerMay, MayRead, Later, Viewing, registered
  <2> QED BY <1>2, <1>3, <2>1, <2>2, <2>3, HandlerMovesSo DEF registered, Later
<1>5. CASE k.left # {}
  <2> DEFINE s == Min(k.left)
  <2>1. s \in k.left /\ s \in Sources
      BY <1>1, <1>5, LowestSource
  <2>2. s \in live /\ MayJoin(k.user, s)
      BY <1>0, <1>5 DEF CheckDataset
  <2>3. MayRead(k.user, s)
      BY <1>1, <2>1, <2>2, JoinerMayRead DEF JoinablesInv
  <2>4. PICK m \in Maker : /\ maker' = [maker EXCEPT ![c] = m]
                           /\ m.step = "check" /\ m.left = k.left \ {s}
                           /\ m.asked = k.asked /\ m.user = k.user
    <3> DEFINE m == [k EXCEPT !.step = "check", !.left = k.left \ {s}]
    <3>1. m \in Maker /\ m.step = "check" /\ m.left = k.left \ {s}
            /\ m.asked = k.asked /\ m.user = k.user
        BY <1>1 DEF Maker
    <3>2. maker' = [maker EXCEPT ![c] = m]
        BY <1>0, <1>5 DEF CheckDataset, MakerGoto, JoinablesInv, JoinablesTypeOK
    <3> QED BY <3>1, <3>2
  <2>5. JoinablesTypeOK'
      BY <1>2, <2>4 DEF registered, bigquery, JoinablesInv, JoinablesTypeOK
  <2>6. MakerMade(m)'
      BY <1>1, <2>4 DEF MakerMade, Later, Viewing
  <2>7. MakerKnows(m)' /\ MakerMay(m)'
      BY <1>0, <1>1, <1>2, <2>2, <2>3, <2>4
      DEF MakerKnows, MakerMay, MayRead, registered
  <2> QED BY <1>2, <1>3, <2>4, <2>5, <2>6, <2>7, HandlerMovesSo DEF registered, Later
<1> QED BY <1>4, <1>5

LEMMA SpaceMoves ==
    ASSUME JoinablesInv, NEW c \in ViewCalls, NEW j \in Joinables,
           createDatasetInCentralProject(c, j)
    PROVE  JoinablesInv'
<1>0. PICK k \in Maker : k = maker[c] /\ MakerMade(k) /\ MakerKnows(k) /\ MakerMay(k)
    BY HandlerAt DEF createDatasetInCentralProject, MakerAt
<1>1. k.step = "space" /\ k.left \subseteq k.asked
    BY <1>0 DEF createDatasetInCentralProject, MakerAt, MakerMade
<1>1a. j \notin spaces /\ joinables[j] = NoView
    BY DEF createDatasetInCentralProject, JoinablesInv, RowMade
<1>2. UNCHANGED <<registered, standing, vault, salts, views, authorized, viewers, joinables>>
    BY DEF createDatasetInCentralProject
<1>3. Grows /\ ViewersHadAccess'
    BY <1>2 DEF createDatasetInCentralProject, Grows, registered, JoinablesInv,
                ViewersHadAccess
<1>4. PICK m \in Maker : /\ maker' = [maker EXCEPT ![c] = m]
                         /\ m.step = "secretTable" /\ m.left = k.left /\ m.name = j
                         /\ m.asked = k.asked /\ m.user = k.user
  <2> DEFINE m == [k EXCEPT !.step = "secretTable", !.name = j]
  <2>1. m \in Maker /\ m.step = "secretTable" /\ m.left = k.left /\ m.name = j
          /\ m.asked = k.asked /\ m.user = k.user
      BY DEF Maker
  <2>2. maker' = [maker EXCEPT ![c] = m]
      BY <1>0 DEF createDatasetInCentralProject, JoinablesInv, JoinablesTypeOK
  <2> QED BY <2>1, <2>2
<1>5. JoinablesTypeOK'
    BY <1>2, <1>4 DEF createDatasetInCentralProject, registered, JoinablesInv, JoinablesTypeOK
<1>6. MakerMade(m)'
    BY <1>1, <1>1a, <1>2, <1>4 DEF createDatasetInCentralProject, MakerMade, Later, Viewing
<1>7. MakerKnows(m)' /\ MakerMay(m)'
    BY <1>0, <1>1, <1>2, <1>4 DEF MakerKnows, MakerMay, MayRead, registered
<1> QED BY <1>1a, <1>2, <1>3, <1>4, <1>5, <1>6, <1>7, HandlerMovesSo DEF registered

LEMMA SecretTableMoves ==
    ASSUME JoinablesInv, NEW c \in ViewCalls, createSecretTable(c)
    PROVE  JoinablesInv'
<1>0. PICK k \in Maker : k = maker[c] /\ MakerMade(k) /\ MakerKnows(k) /\ MakerMay(k)
    BY HandlerAt DEF createSecretTable, MakerAt
<1>1. k.step = "secretTable" /\ k.name \in spaces
    BY <1>0 DEF createSecretTable, MakerAt, MakerMade, Later
<1>1a. Named(c) /\ maker[c].name = k.name /\ joinables[k.name] = NoView
    BY <1>0, <1>1 DEF createSecretTable, MakerAt, MakerMade, Named, Later
<1>2. UNCHANGED <<registered, standing, spaces, salts, views, authorized, viewers, joinables>>
    BY DEF createSecretTable
<1>3. Grows /\ ViewersHadAccess'
    BY <1>2 DEF Grows, registered, JoinablesInv, ViewersHadAccess
<1>4. PICK m \in Maker : /\ maker' = [maker EXCEPT ![c] = m]
                         /\ m.step = "secret" /\ m.left = {} /\ m.name = k.name
                         /\ m.asked = k.asked /\ m.user = k.user
  <2> DEFINE m == [k EXCEPT !.step = "secret", !.left = {}]
  <2>1. m \in Maker /\ m.step = "secret" /\ m.left = {} /\ m.name = k.name
          /\ m.asked = k.asked /\ m.user = k.user
      BY DEF Maker
  <2>2. maker' = [maker EXCEPT ![c] = m]
      BY <1>0 DEF createSecretTable, MakerGoto, JoinablesInv, JoinablesTypeOK
  <2> QED BY <2>1, <2>2
<1>5. JoinablesTypeOK'
    BY <1>2, <1>4 DEF createSecretTable, registered, JoinablesInv, JoinablesTypeOK
<1>6. MakerMade(m)'
    BY <1>1a, <1>1, <1>2, <1>4 DEF MakerMade, Later, Viewing
<1>7. MakerKnows(m)' /\ MakerMay(m)'
    BY <1>0, <1>1, <1>2, <1>4 DEF MakerKnows, MakerMay, MayRead, registered
<1> QED BY <1>1a, <1>2, <1>3, <1>4, <1>5, <1>6, <1>7, HandlerMovesSo DEF registered

LEMMA SecretMoves ==
    ASSUME JoinablesInv, NEW c \in ViewCalls, insertSecretIfNotExists(c)
    PROVE  JoinablesInv'
<1>0. PICK k \in Maker : k = maker[c] /\ MakerMade(k) /\ MakerKnows(k) /\ MakerMay(k)
    BY HandlerAt DEF insertSecretIfNotExists, MakerAt
<1>1. k.step = "secret" /\ k.name \in spaces
    BY <1>0 DEF insertSecretIfNotExists, MakerAt, MakerMade, Later
<1>1a. Named(c) /\ maker[c].name = k.name /\ joinables[k.name] = NoView
    BY <1>0, <1>1 DEF insertSecretIfNotExists, MakerAt, MakerMade, Named, Later
<1>2. /\ UNCHANGED <<registered, standing, spaces, vault, views, authorized, viewers, joinables>>
      /\ salts' = salts \cup {k.name}
    BY <1>0 DEF insertSecretIfNotExists
<1>3. Grows /\ ViewersHadAccess'
    BY <1>2 DEF Grows, registered, JoinablesInv, ViewersHadAccess
<1>4. PICK m \in Maker : /\ maker' = [maker EXCEPT ![c] = m]
                         /\ m.step = "view" /\ m.left = k.asked /\ m.name = k.name
                         /\ m.asked = k.asked /\ m.user = k.user
  <2> DEFINE m == [k EXCEPT !.step = "view", !.left = k.asked]
  <2>1. m \in Maker /\ m.step = "view" /\ m.left = k.asked /\ m.name = k.name
          /\ m.asked = k.asked /\ m.user = k.user
      BY DEF Maker
  <2>2. maker' = [maker EXCEPT ![c] = m]
      BY <1>0 DEF insertSecretIfNotExists, MakerGoto, JoinablesInv, JoinablesTypeOK
  <2> QED BY <2>1, <2>2
<1>5. JoinablesTypeOK'
    BY <1>1, <1>2, <1>4 DEF registered, JoinablesInv, JoinablesTypeOK
<1>6. MakerMade(m)'
    BY <1>1a, <1>1, <1>2, <1>4 DEF MakerMade, Later, Viewing
<1>7. MakerKnows(m)' /\ MakerMay(m)'
    BY <1>0, <1>1, <1>2, <1>4 DEF MakerKnows, MakerMay, MayRead, registered
<1> QED BY <1>1a, <1>2, <1>3, <1>4, <1>5, <1>6, <1>7, HandlerMovesSo DEF registered

LEMMA ViewMoves ==
    ASSUME JoinablesInv, NEW c \in ViewCalls, CreateJoinableView(c)
    PROVE  JoinablesInv'
<1>0. PICK k \in Maker : k = maker[c] /\ MakerMade(k) /\ MakerKnows(k) /\ MakerMay(k)
    BY HandlerAt DEF CreateJoinableView, MakerAt
<1>1. /\ k.step = "view" /\ k.name \in spaces /\ k.name \in salts
      /\ k.left \subseteq k.asked /\ k.asked \subseteq Sources
      /\ \A s \in k.asked \ k.left : <<k.name, s>> \in views
    BY <1>0 DEF CreateJoinableView, MakerAt, MakerMade, Later, Viewing, Maker
<1>1a. Named(c) /\ maker[c].name = k.name /\ joinables[k.name] = NoView
    BY <1>0, <1>1 DEF CreateJoinableView, MakerAt, MakerMade, Named, Later
<1>2. UNCHANGED <<registered, standing, spaces, vault, salts, authorized, viewers, joinables>>
    BY DEF CreateJoinableView
<1>3. views \subseteq views'
    BY DEF CreateJoinableView
<1>4. Grows /\ ViewersHadAccess'
    BY <1>2, <1>3 DEF Grows, registered, JoinablesInv, ViewersHadAccess
<1>5. k.name \in Joinables
    BY <1>1 DEF JoinablesInv, JoinablesTypeOK
<1>6. CASE k.left = {}
  <2>1. PICK m \in Maker : /\ maker' = [maker EXCEPT ![c] = m]
                           /\ m.step = "authorize" /\ m.left = k.asked /\ m.name = k.name
                           /\ m.asked = k.asked /\ m.user = k.user
    <3> DEFINE m == [k EXCEPT !.step = "authorize", !.left = k.asked]
    <3>1. m \in Maker /\ m.step = "authorize" /\ m.left = k.asked /\ m.name = k.name
            /\ m.asked = k.asked /\ m.user = k.user
        BY DEF Maker
    <3>2. maker' = [maker EXCEPT ![c] = m]
        BY <1>0, <1>6 DEF CreateJoinableView, MakerGoto, JoinablesInv, JoinablesTypeOK
    <3> QED BY <3>1, <3>2
  <2>2. views' = views
      BY <1>0, <1>6 DEF CreateJoinableView
  <2>3. JoinablesTypeOK'
      BY <1>2, <2>1, <2>2 DEF registered, JoinablesInv, JoinablesTypeOK
  <2>4. MakerMade(m)'
      BY <1>1a, <1>1, <1>2, <1>6, <2>1, <2>2 DEF MakerMade, Later, Viewing
  <2>5. MakerKnows(m)' /\ MakerMay(m)'
      BY <1>0, <1>1, <1>2, <2>1 DEF MakerKnows, MakerMay, MayRead, registered
  <2> QED BY <1>1a, <1>2, <1>4, <2>1, <2>3, <2>4, <2>5, HandlerMovesSo DEF registered
<1>7. CASE k.left # {}
  <2> DEFINE s == Min(k.left)
  <2>1. s \in k.left /\ s \in Sources
      BY <1>1, <1>7, LowestSource
  <2>2. PICK m \in Maker : /\ maker' = [maker EXCEPT ![c] = m]
                           /\ m.step = "view" /\ m.left = k.left \ {s} /\ m.name = k.name
                           /\ m.asked = k.asked /\ m.user = k.user
    <3> DEFINE m == [k EXCEPT !.step = "view", !.left = k.left \ {s}]
    <3>1. m \in Maker /\ m.step = "view" /\ m.left = k.left \ {s} /\ m.name = k.name
            /\ m.asked = k.asked /\ m.user = k.user
        BY DEF Maker
    <3>2. maker' = [maker EXCEPT ![c] = m]
        BY <1>0, <1>7 DEF CreateJoinableView, MakerGoto, JoinablesInv, JoinablesTypeOK
    <3> QED BY <3>1, <3>2
  <2>3. views' = views \cup {<<k.name, s>>}
      BY <1>0, <1>7 DEF CreateJoinableView
  <2>4. JoinablesTypeOK'
      BY <1>2, <1>5, <2>1, <2>2, <2>3 DEF registered, JoinablesInv, JoinablesTypeOK
  <2>5. MakerMade(m)'
      BY <1>1a, <1>1, <1>2, <2>2, <2>3 DEF MakerMade, Later, Viewing
  <2>6. MakerKnows(m)' /\ MakerMay(m)'
      BY <1>0, <1>1, <1>2, <2>2 DEF MakerKnows, MakerMay, MayRead, registered
  <2> QED BY <1>1a, <1>2, <1>4, <2>2, <2>4, <2>5, <2>6, HandlerMovesSo DEF registered
<1> QED BY <1>6, <1>7

\* One more view may read, of a BigQuery dataset or of the salts.
LEMMA AuthorizedGrows ==
    ASSUME JoinablesInv, NEW c \in ViewCalls, NEW k \in Maker, k = maker[c],
           k.left # {}, k.left \subseteq k.asked, k.name \in Joinables,
           NEW d \in BqDatasets \cup {"vault"}, AuthorizeIn(c, d)
    PROVE  LET view == <<k.name, ViewIn(k.asked, place[Min(k.left)])>>
           IN /\ view \in Joinables \X Sources
              /\ authorized' \in [BqDatasets \cup {"vault"} -> SUBSET (Joinables \X Sources)]
              /\ authorized'[d] = authorized[d] \cup {view}
              /\ \A e \in BqDatasets \cup {"vault"} : authorized[e] \subseteq authorized'[e]
<1> DEFINE view == <<k.name, ViewIn(k.asked, place[Min(k.left)])>>
<1>1. k.asked \subseteq Sources
    BY DEF Maker
<1>2. Min(k.left) \in k.asked
    BY <1>1, LowestSource
<1>3. ViewIn(k.asked, place[Min(k.left)]) \in Sources
    BY <1>1, <1>2, ViewInIsAsked
<1>4. authorized' = [authorized EXCEPT ![d] = @ \cup {view}]
    BY DEF AuthorizeIn
<1>5. view \in Joinables \X Sources
    BY <1>3
<1> HIDE DEF view
<1>6. authorized \in [BqDatasets \cup {"vault"} -> SUBSET (Joinables \X Sources)]
    BY DEF JoinablesInv, JoinablesTypeOK
<1>7. /\ authorized' \in [BqDatasets \cup {"vault"} -> SUBSET (Joinables \X Sources)]
      /\ authorized'[d] = authorized[d] \cup {view}
      /\ \A e \in BqDatasets \cup {"vault"} : authorized[e] \subseteq authorized'[e]
    BY <1>4, <1>5, <1>6
<1> QED BY <1>5, <1>7 DEF view

LEMMA AuthorizeMoves ==
    ASSUME JoinablesInv, NEW c \in ViewCalls, AuthorizeOnSource(c)
    PROVE  JoinablesInv'
<1>0. PICK k \in Maker : k = maker[c] /\ MakerMade(k) /\ MakerKnows(k) /\ MakerMay(k)
    BY HandlerAt DEF AuthorizeOnSource, MakerAt
<1>1. /\ k.step = "authorize" /\ k.name \in spaces /\ k.name \in salts
      /\ k.left \subseteq k.asked /\ k.asked \subseteq Sources
      /\ \A s \in k.asked : <<k.name, s>> \in views
      /\ \A s \in k.asked \ k.left : CanRead(k.name, ViewIn(k.asked, place[s]))
    BY <1>0 DEF AuthorizeOnSource, MakerAt, MakerMade, Later, Viewing, Maker
<1>1a. Named(c) /\ maker[c].name = k.name /\ joinables[k.name] = NoView
    BY <1>0, <1>1 DEF AuthorizeOnSource, MakerAt, MakerMade, Named, Later
<1>2. UNCHANGED <<registered, standing, spaces, vault, salts, views, viewers, joinables>>
    BY DEF AuthorizeOnSource
<1>3. k.name \in Joinables
    BY <1>1 DEF JoinablesInv, JoinablesTypeOK
<1>4. CASE k.left = {}
  <2>1. PICK m \in Maker : /\ maker' = [maker EXCEPT ![c] = m]
                           /\ m.step = "grant" /\ m.left = MappedViews(k.asked)
                           /\ m.name = k.name /\ m.asked = k.asked /\ m.user = k.user
    <3> DEFINE m == [k EXCEPT !.step = "grant", !.left = MappedViews(k.asked)]
    <3>1. MappedViews(k.asked) \subseteq Sources
        BY <1>1, ViewInIsAsked DEF MappedViews
    <3>2. m \in Maker /\ m.step = "grant" /\ m.left = MappedViews(k.asked)
            /\ m.name = k.name /\ m.asked = k.asked /\ m.user = k.user
        BY <3>1 DEF Maker
    <3>3. maker' = [maker EXCEPT ![c] = m]
        BY <1>0, <1>4 DEF AuthorizeOnSource, MakerGoto, JoinablesInv, JoinablesTypeOK
    <3> QED BY <3>2, <3>3
  <2>2. authorized' = authorized
      BY <1>0, <1>4 DEF AuthorizeOnSource
  <2>3. JoinablesTypeOK'
      BY <1>2, <2>1, <2>2 DEF registered, JoinablesInv, JoinablesTypeOK
  <2>4. Grows /\ ViewersHadAccess'
      BY <1>2, <2>2 DEF Grows, registered, JoinablesInv, ViewersHadAccess
  <2>5. MakerMade(m)
      BY <1>1a, <1>1, <1>4, <2>1 DEF MakerMade, Later, Viewing
  <2>6. MakerMade(m)'
      BY <1>1a, <1>2, <2>1, <2>4, <2>5, MadeStays DEF JoinablesInv
  <2>7. MakerKnows(m)' /\ MakerMay(m)'
      BY <1>0, <1>1, <1>2, <2>1 DEF MakerKnows, MakerMay, MayRead, registered
  <2> QED BY <1>1a, <1>2, <2>1, <2>3, <2>4, <2>6, <2>7, HandlerMovesSo DEF registered
<1>5. CASE k.left # {}
  <2> DEFINE s == Min(k.left)
             view == <<k.name, ViewIn(k.asked, place[s])>>
  <2>1. s \in k.left /\ s \in Sources /\ place[s] \in BqDatasets
      BY <1>1, <1>5, LowestSource DEF JoinablesInv, JoinablesTypeOK
  <2>2. AuthorizeIn(c, place[s])
      BY <1>0, <1>5 DEF AuthorizeOnSource
  <2>3. /\ authorized' \in [BqDatasets \cup {"vault"} -> SUBSET (Joinables \X Sources)]
        /\ authorized'[place[s]] = authorized[place[s]] \cup {view}
        /\ \A e \in BqDatasets \cup {"vault"} : authorized[e] \subseteq authorized'[e]
      BY <1>0, <1>1, <1>3, <1>5, <2>1, <2>2, AuthorizedGrows
  <2>4. PICK m \in Maker : /\ maker' = [maker EXCEPT ![c] = m]
                           /\ m.step = "authorizeVault" /\ m.left = k.left
                           /\ m.name = k.name /\ m.asked = k.asked /\ m.user = k.user
    <3> DEFINE m == [k EXCEPT !.step = "authorizeVault", !.left = k.left]
    <3>1. m \in Maker /\ m.step = "authorizeVault" /\ m.left = k.left
            /\ m.name = k.name /\ m.asked = k.asked /\ m.user = k.user
        BY DEF Maker
    <3>2. maker' = [maker EXCEPT ![c] = m]
        BY <1>0, <1>5 DEF AuthorizeOnSource, MakerGoto, JoinablesInv, JoinablesTypeOK
    <3> QED BY <3>1, <3>2
  <2>5. JoinablesTypeOK'
      BY <1>2, <2>3, <2>4 DEF registered, JoinablesInv, JoinablesTypeOK
  <2>6. Grows /\ ViewersHadAccess'
      BY <1>2, <2>3 DEF Grows, registered, JoinablesInv, ViewersHadAccess
  <2>7. MakerMade(k)'
      BY <1>1a, <1>2, <1>0, <2>6, MadeStays DEF JoinablesInv
  <2>8. place' = place
      BY <2>6 DEF Grows
  <2>9. view \in authorized'[place[s]]
      BY <2>3
  <2>10. \A d : ViewIn(k.asked, d)' = ViewIn(k.asked, d)
      BY <2>8 DEF ViewIn
  <2>11. (LET x == Min(m.left)
          IN <<m.name, ViewIn(m.asked, place[x])>> \in authorized[place[x]])'
      BY <2>4, <2>8, <2>9, <2>10
  <2>12. MakerMade(m)'
      BY <1>1a, <1>1, <1>5, <2>4, <2>7, <2>11 DEF MakerMade, Later, Viewing
  <2>13. MakerKnows(m)' /\ MakerMay(m)'
      BY <1>0, <1>1, <1>2, <2>4 DEF MakerKnows, MakerMay, MayRead, registered
  <2> QED BY <1>1a, <1>2, <2>4, <2>5, <2>6, <2>12, <2>13, HandlerMovesSo DEF registered
<1> QED BY <1>4, <1>5

LEMMA VaultMoves ==
    ASSUME JoinablesInv, NEW c \in ViewCalls, AuthorizeOnVault(c)
    PROVE  JoinablesInv'
<1>0. PICK k \in Maker : k = maker[c] /\ MakerMade(k) /\ MakerKnows(k) /\ MakerMay(k)
    BY HandlerAt DEF AuthorizeOnVault, MakerAt
<1> DEFINE s == Min(k.left)
           view == <<k.name, ViewIn(k.asked, place[s])>>
<1>1. /\ k.step = "authorizeVault" /\ k.name \in spaces /\ k.name \in salts
      /\ k.left \subseteq k.asked /\ k.asked \subseteq Sources /\ k.left # {}
      /\ \A x \in k.asked : <<k.name, x>> \in views
      /\ \A x \in k.asked \ k.left : CanRead(k.name, ViewIn(k.asked, place[x]))
      /\ view \in authorized[place[s]]
    BY <1>0 DEF AuthorizeOnVault, MakerAt, MakerMade, Later, Viewing, Maker
<1>1a. Named(c) /\ maker[c].name = k.name /\ joinables[k.name] = NoView
    BY <1>0, <1>1 DEF AuthorizeOnVault, MakerAt, MakerMade, Named, Later
<1>2. UNCHANGED <<registered, standing, spaces, vault, salts, views, viewers, joinables>>
    BY DEF AuthorizeOnVault
<1>3. k.name \in Joinables
    BY <1>1 DEF JoinablesInv, JoinablesTypeOK
<1>4. s \in k.left /\ s \in k.asked /\ s \in Sources
    BY <1>1, LowestSource
<1>5. /\ authorized' \in [BqDatasets \cup {"vault"} -> SUBSET (Joinables \X Sources)]
      /\ authorized'["vault"] = authorized["vault"] \cup {view}
      /\ \A e \in BqDatasets \cup {"vault"} : authorized[e] \subseteq authorized'[e]
  <2>1. AuthorizeIn(c, "vault")
      BY DEF AuthorizeOnVault
  <2> QED BY <1>0, <1>1, <1>3, <2>1, AuthorizedGrows
<1>6. PICK m \in Maker : /\ maker' = [maker EXCEPT ![c] = m]
                         /\ m.step = "authorize" /\ m.left = k.left \ {s}
                         /\ m.name = k.name /\ m.asked = k.asked /\ m.user = k.user
  <2> DEFINE m == [k EXCEPT !.step = "authorize", !.left = k.left \ {s}]
  <2>1. m \in Maker /\ m.step = "authorize" /\ m.left = k.left \ {s}
          /\ m.name = k.name /\ m.asked = k.asked /\ m.user = k.user
      BY DEF Maker
  <2>2. maker' = [maker EXCEPT ![c] = m]
      BY <1>0 DEF AuthorizeOnVault, MakerGoto, JoinablesInv, JoinablesTypeOK
  <2> QED BY <2>1, <2>2
<1>7. JoinablesTypeOK'
    BY <1>2, <1>5, <1>6 DEF registered, JoinablesInv, JoinablesTypeOK
<1>8. Grows /\ ViewersHadAccess'
    BY <1>2, <1>5 DEF Grows, registered, JoinablesInv, ViewersHadAccess
<1>9. MakerMade(k)'
    BY <1>1a, <1>2, <1>0, <1>8, MadeStays DEF JoinablesInv
<1>10. CanRead(k.name, ViewIn(k.asked, place[s]))'
  <2>1. place[ViewIn(k.asked, place[s])] = place[s] /\ place[s] \in BqDatasets
      BY <1>1, <1>4, ViewInIsAsked DEF JoinablesInv, JoinablesTypeOK
  <2>2. place' = place /\ ViewIn(k.asked, place[s])' = ViewIn(k.asked, place[s])
      BY <1>8 DEF Grows, ViewIn
  <2>3. view \in authorized'[place[s]] /\ view \in authorized'["vault"]
      BY <1>1, <1>5, <2>1
  <2> QED BY <2>1, <2>2, <2>3 DEF CanRead
<1>11. MakerMade(m)'
  <2>1. (\A x \in k.asked \ k.left : CanRead(k.name, ViewIn(k.asked, place[x])))'
      BY <1>1, <1>9 DEF MakerMade
  <2>2. (\A x \in m.asked \ m.left : CanRead(m.name, ViewIn(m.asked, place[x])))'
      BY <1>6, <1>10, <2>1
  <2> QED BY <1>1a, <1>1, <1>2, <1>6, <2>2 DEF MakerMade, Later, Viewing
<1>12. MakerKnows(m)' /\ MakerMay(m)'
    BY <1>0, <1>1, <1>2, <1>6 DEF MakerKnows, MakerMay, MayRead, registered
<1> QED BY <1>1a, <1>2, <1>6, <1>7, <1>8, <1>11, <1>12, HandlerMovesSo DEF registered

LEMMA GrantMoves ==
    ASSUME JoinablesInv, NEW c \in ViewCalls, NEW s \in Sources, GrantView(c, s)
    PROVE  JoinablesInv'
<1>0. PICK k \in Maker : k = maker[c] /\ MakerMade(k) /\ MakerKnows(k) /\ MakerMay(k)
    BY HandlerAt DEF GrantView, MakerAt
<1>1. /\ k.step = "grant" /\ k.name \in spaces /\ k.name \in salts
      /\ k.left \subseteq MappedViews(k.asked) /\ k.asked \subseteq Sources
      /\ \A x \in k.asked : <<k.name, x>> \in views
      /\ \A x \in k.asked : CanRead(k.name, ViewIn(k.asked, place[x]))
      /\ \A x \in MappedViews(k.asked) \ k.left : <<k.name, x, k.user>> \in viewers
      /\ s \in k.left
    BY <1>0 DEF GrantView, MakerAt, MakerMade, Later, Viewing, Maker
<1>1a. Named(c) /\ maker[c].name = k.name /\ joinables[k.name] = NoView
    BY <1>0, <1>1 DEF GrantView, MakerAt, MakerMade, Named, Later
<1>2. /\ UNCHANGED <<registered, standing, spaces, vault, salts, views, authorized, joinables>>
      /\ viewers' = viewers \cup {<<k.name, s, k.user>>}
    BY <1>0 DEF GrantView
<1>3. k.name \in Joinables /\ k.user \in Users
    BY <1>1 DEF JoinablesInv, JoinablesTypeOK, Maker
<1>4. MayRead(k.user, s)
  <2>1. s \in k.asked
      BY <1>1, ViewInIsAsked DEF MappedViews
  <2> QED BY <1>0, <1>1, <2>1 DEF MakerMay
<1>5. PICK m \in Maker : /\ maker' = [maker EXCEPT ![c] = m]
                         /\ m.step = "grant" /\ m.left = k.left \ {s}
                         /\ m.name = k.name /\ m.asked = k.asked /\ m.user = k.user
  <2> DEFINE m == [k EXCEPT !.step = "grant", !.left = k.left \ {s}]
  <2>1. m \in Maker /\ m.step = "grant" /\ m.left = k.left \ {s}
          /\ m.name = k.name /\ m.asked = k.asked /\ m.user = k.user
      BY DEF Maker
  <2>2. maker' = [maker EXCEPT ![c] = m]
      BY <1>0 DEF GrantView, MakerGoto, JoinablesInv, JoinablesTypeOK
  <2> QED BY <2>1, <2>2
<1>6. JoinablesTypeOK'
    BY <1>2, <1>3, <1>5 DEF registered, JoinablesInv, JoinablesTypeOK
<1>7. Grows
    BY <1>2 DEF Grows, registered
<1>8. ViewersHadAccess'
    BY <1>2, <1>4 DEF JoinablesInv, ViewersHadAccess, MayRead, registered
<1>9. MakerMade(k)'
    BY <1>1a, <1>2, <1>0, <1>7, MadeStays DEF JoinablesInv
<1>10. MakerMade(m)'
  <2>1. (\A x \in MappedViews(m.asked) \ m.left : <<m.name, x, m.user>> \in viewers)'
      BY <1>1, <1>2, <1>5, <1>9 DEF MakerMade
  <2> QED BY <1>1a, <1>1, <1>5, <1>9, <2>1 DEF MakerMade, Later, Viewing
<1>11. MakerKnows(m)' /\ MakerMay(m)'
    BY <1>0, <1>1, <1>2, <1>5 DEF MakerKnows, MakerMay, MayRead, registered
<1> QED BY <1>1a, <1>2, <1>5, <1>6, <1>7, <1>8, <1>10, <1>11, HandlerMovesSo DEF registered

LEMMA StoreMoves ==
    ASSUME JoinablesInv, NEW c \in ViewCalls, CreateJoinableViewsDB(c)
    PROVE  JoinablesInv'
<1>0. PICK k \in Maker : k = maker[c] /\ MakerMade(k) /\ MakerKnows(k) /\ MakerMay(k)
    BY HandlerAt DEF CreateJoinableViewsDB, MakerAt
<1>1. /\ k.step = "grant" /\ k.name \in spaces /\ k.name \in salts /\ k.left = {}
      /\ k.asked \subseteq Sources /\ k.user \in Users
      /\ \A x \in k.asked : <<k.name, x>> \in views
      /\ \A x \in k.asked : CanRead(k.name, ViewIn(k.asked, place[x]))
    BY <1>0 DEF CreateJoinableViewsDB, MakerAt, MakerMade, Later, Viewing, Maker
<1>1a. Named(c) /\ maker[c].name = k.name /\ joinables[k.name] = NoView
    BY <1>0, <1>1 DEF CreateJoinableViewsDB, MakerAt, MakerMade, Named, Later
<1>2. UNCHANGED <<registered, standing, bigquery>>
    BY DEF CreateJoinableViewsDB
<1>3. PICK row \in JoinableRow : /\ joinables' = [joinables EXCEPT ![k.name] = row]
                                 /\ row.owner = k.user /\ row.sources = k.asked
  <2> DEFINE row == [owner |-> k.user, sources |-> k.asked, deleted |-> {}]
  <2>1. row \in JoinableRow /\ row.owner = k.user /\ row.sources = k.asked
      BY <1>1 DEF JoinableRow
  <2>2. joinables' = [joinables EXCEPT ![k.name] = row]
      BY <1>0 DEF CreateJoinableViewsDB, InsertJoinableView
  <2> QED BY <2>1, <2>2
<1>4. k.name \in Joinables
    BY <1>1 DEF JoinablesInv, JoinablesTypeOK
<1>5. RowMade(k.name, row)
  <2>1. ASSUME NEW x \in MappedViews(k.asked)
        PROVE  x \in k.asked /\ CanRead(k.name, x)
      BY <1>1, ViewInIsAsked DEF MappedViews
  <2>2. \A x \in k.asked : x \in live \cup overlapped /\ MayRead(k.user, x)
      BY <1>0, <1>1 DEF MakerKnows, MakerMay
  <2> QED BY <1>1, <1>3, <2>1, <2>2 DEF RowMade
<1>6. maker' = [maker EXCEPT ![c] = NoView]
    BY DEF CreateJoinableViewsDB, EndMaker
<1>7. JoinablesTypeOK'
    BY <1>2, <1>3, <1>4, <1>6 DEF registered, bigquery, JoinablesInv, JoinablesTypeOK
<1>8. Grows /\ ViewersHadAccess'
    BY <1>2 DEF Grows, registered, bigquery, JoinablesInv, ViewersHadAccess
<1> QED BY <1>1a, <1>2, <1>3, <1>4, <1>5, <1>6, <1>7, <1>8, HandlerMovesSo DEF registered

LEMMA FailureMoves ==
    ASSUME JoinablesInv, NEW c \in ViewCalls, MakerFails(c)
    PROVE  JoinablesInv'
<1>1. /\ UNCHANGED <<registered, standing, bigquery, joinables>>
      /\ maker' = [maker EXCEPT ![c] = NoView]
    BY DEF MakerFails, EndMaker
<1>2. JoinablesTypeOK'
    BY <1>1 DEF registered, bigquery, JoinablesInv, JoinablesTypeOK
<1>3. Grows /\ ViewersHadAccess'
    BY <1>1 DEF Grows, registered, bigquery, JoinablesInv, ViewersHadAccess
<1> QED BY <1>1, <1>2, <1>3, HandlerMovesSo DEF registered

-----------------------------------------------------------------------------
THEOREM JoinablesInvariant == JoinablesSpec => []JoinablesInv
<1>1. JoinablesInit => JoinablesInv
  <2> SUFFICES ASSUME JoinablesInit PROVE JoinablesInv
      OBVIOUS
  <2>0. accesses \in [Sources -> [Subjects -> 0..MaxRows]]
    <3>1. 0 \in 0..MaxRows
        BY SubjectsAssumption
    <3> QED BY <3>1 DEF JoinablesInit
  <2>1. JoinablesTypeOK
      BY <2>0 DEF JoinablesInit, JoinablesTypeOK, Standing
  <2>2. Noted
      BY DEF JoinablesInit, Noted, Owned
  <2> QED BY <2>1, <2>2 DEF JoinablesInit, JoinablesInv, ViewersHadAccess, NamesApart, Named,
                            ChangesKnow
<1>2. JoinablesInv /\ [JoinablesNext]_joinableVars => JoinablesInv'
  <2> SUFFICES ASSUME JoinablesInv, [JoinablesNext]_joinableVars
               PROVE  JoinablesInv'
      OBVIOUS
  <2>1. CASE \E s \in Sources, x \in Subjects : ApproveAccessRequest(s, x) \/ AccessEnds(s, x)
      BY <2>1, AccessesMove
  <2>2. CASE \E s \in Sources : DeleteSource(s)
      BY <2>2, DeleteMoves
  <2>3. ASSUME NEW c \in ViewCalls,
               \/ \E u \in Users, asked \in SUBSET Sources : CreateJoinableViews(c, u, asked)
               \/ CheckDataset(c)
               \/ \E j \in Joinables : createDatasetInCentralProject(c, j)
               \/ createSecretTable(c)
               \/ insertSecretIfNotExists(c)
               \/ CreateJoinableView(c)
               \/ AuthorizeOnSource(c)
               \/ AuthorizeOnVault(c)
               \/ \E s \in Sources : GrantView(c, s)
               \/ CreateJoinableViewsDB(c)
               \/ MakerFails(c)
        PROVE  JoinablesInv'
      BY <2>3, CreateMoves, CheckMoves, SpaceMoves, SecretTableMoves, SecretMoves,
         ViewMoves, AuthorizeMoves, VaultMoves, GrantMoves, StoreMoves, FailureMoves
  <2>4. ASSUME NEW c \in AccessCalls,
               \/ \E u \in Users, s \in Sources :
                     GrantAccessToDataset(c, u, s) \/ RevokeAccessToDataset(c, u, s)
               \/ \E j \in Joinables : GrantJoinableView(c, j) \/ RevokeJoinableView(c, j)
               \/ GrantAccessToDatasetAndRenew(c)
               \/ RevokeAccess(c)
               \/ ChangeFails(c)
        PROVE  JoinablesInv'
      BY <2>4, BeginsMove, ViewsMove, EndsMove
  <2>5. CASE UNCHANGED joinableVars
    <3>1. /\ UNCHANGED <<registered, bigquery, standing>>
          /\ joinables' = joinables /\ maker' = maker
        BY <2>5 DEF joinableVars, registered, bigquery
    <3>2. Grows /\ JoinablesTypeOK' /\ Noted' /\ ViewersHadAccess'
        BY <3>1 DEF registered, bigquery, Grows, JoinablesInv, JoinablesTypeOK, Noted,
                    ViewersHadAccess
    <3>3. ChangesKnow'
        BY <3>1 DEF registered, JoinablesInv, ChangesKnow, GetJoinableViewsForReferenceAndUser
    <3> QED BY <3>1, <3>2, <3>3, OthersMoveSo DEF registered
  <2> QED BY <2>1, <2>2, <2>3, <2>4, <2>5 DEF JoinablesNext
<1> QED BY <1>1, <1>2, PTL DEF JoinablesSpec

-----------------------------------------------------------------------------
(***************************************************************************)
(* Who reads the views that have a row.  Who stands "in" reads all views   *)
(* of the source, whoever stands "out" none, and nobody is at work who     *)
(* would undo it; of a handler that may yet make it so, this holds of the  *)
(* views that it has dealt with.  JoinablesInv is used, and not disturbed. *)
(***************************************************************************)
Mapped(j, s) == s \in MappedViews(joinables[j].sources)

ReadsAll(u, s, left) ==
    \A j \in GetJoinableViewsForReferenceAndUser(u, s) \ left :
        Mapped(j, s) => <<j, s, u>> \in viewers
ReadsNone(u, s, left) ==
    \A j \in GetJoinableViewsForReferenceAndUser(u, s) \ left : <<j, s, u>> \notin viewers

StandsIn(u, s, left) == ~ Changing(u, s, "revoke") /\ ReadsAll(u, s, left)
StandsOut(u, s, left) ==
    ~ Changing(u, s, "grant") /\ ~ Making(u, s) /\ ReadsNone(u, s, left)

Pending(u, s, c) ==
    /\ change[c] # NoView /\ change[c].user = u /\ change[c].source = s
    /\ change[c].op = "grant" => StandsIn(u, s, change[c].left)
    /\ change[c].op = "revoke" => StandsOut(u, s, change[c].left)

StandsRight(u, s) ==
    /\ standing[u][s] = "in" => StandsIn(u, s, {})
    /\ standing[u][s] = "out" => StandsOut(u, s, {})
    /\ \A c \in AccessCalls : standing[u][s] = c => Pending(u, s, c)

StandingRight == \A u \in Users, s \in Sources : StandsRight(u, s)

\* No view is added to those of a user and a source, and its readers stay.
ViewsKept(u, s) ==
    \A j \in Joinables : j \in GetJoinableViewsForReferenceAndUser(u, s)' =>
        /\ j \in GetJoinableViewsForReferenceAndUser(u, s)
        /\ Mapped(j, s)' => Mapped(j, s)
        /\ <<j, s, u>> \in viewers' <=> <<j, s, u>> \in viewers

\* What has to hold of each view for "in" and for "out" to go on
LEMMA InStays ==
    ASSUME NEW u \in Users, NEW s \in Sources, NEW left, NEW rest, StandsIn(u, s, left),
           Changing(u, s, "revoke")' => Changing(u, s, "revoke"),
           \A j \in Joinables : j \in GetJoinableViewsForReferenceAndUser(u, s)' /\ j \notin rest =>
              \/ <<j, s, u>> \in viewers'
              \/ /\ j \in GetJoinableViewsForReferenceAndUser(u, s) \ left
                 /\ Mapped(j, s)' => Mapped(j, s)
                 /\ <<j, s, u>> \in viewers => <<j, s, u>> \in viewers'
    PROVE  StandsIn(u, s, rest)'
BY DEF StandsIn, ReadsAll, GetJoinableViewsForReferenceAndUser

LEMMA OutStays ==
    ASSUME NEW u \in Users, NEW s \in Sources, NEW left, NEW rest, StandsOut(u, s, left),
           Changing(u, s, "grant")' => Changing(u, s, "grant"), Making(u, s)' => Making(u, s),
           \A j \in Joinables : j \in GetJoinableViewsForReferenceAndUser(u, s)' /\ j \notin rest =>
              \/ <<j, s, u>> \notin viewers'
              \/ /\ j \in GetJoinableViewsForReferenceAndUser(u, s) \ left
                 /\ <<j, s, u>> \in viewers' => <<j, s, u>> \in viewers
    PROVE  StandsOut(u, s, rest)'
BY DEF StandsOut, ReadsNone, GetJoinableViewsForReferenceAndUser

\* A step that adds nobody at work on an access, nor touches its views
LEMMA PairStays ==
    ASSUME NEW u \in Users, NEW s \in Sources, StandsRight(u, s),
           standing'[u][s] = standing[u][s],
           \A op \in {"grant", "revoke"} : Changing(u, s, op)' => Changing(u, s, op),
           Making(u, s)' => Making(u, s),
           \A c \in AccessCalls : standing[u][s] = c => change'[c] = change[c],
           ViewsKept(u, s)
    PROVE  StandsRight(u, s)'
<1>1. ASSUME NEW left, StandsIn(u, s, left) PROVE StandsIn(u, s, left)'
    BY <1>1, InStays DEF ViewsKept
<1>2. ASSUME NEW left, StandsOut(u, s, left) PROVE StandsOut(u, s, left)'
    BY <1>2, OutStays DEF ViewsKept
<1>3. ASSUME NEW c \in AccessCalls, standing[u][s] = c PROVE Pending(u, s, c)'
  <2>1. Pending(u, s, c) /\ change'[c] = change[c]
      BY <1>3 DEF StandsRight
  <2>2. PICK left : left = change[c].left
      OBVIOUS
  <2> QED BY <1>1, <1>2, <2>1, <2>2 DEF Pending
<1> QED BY <1>1, <1>2, <1>3 DEF StandsRight

\* The views are kept when their rows and readers are.
LEMMA ViewsAreKept ==
    ASSUME place' = place, joinables' = joinables, NEW u \in Users, NEW s \in Sources,
           \A j \in Joinables : joinables[j] # NoView =>
              (<<j, s, u>> \in viewers' <=> <<j, s, u>> \in viewers)
    PROVE  ViewsKept(u, s)
<1>1. \A j \in Joinables : Mapped(j, s)' = Mapped(j, s)
    BY DEF Mapped, MappedViews, ViewIn
<1>2. GetJoinableViewsForReferenceAndUser(u, s)' = GetJoinableViewsForReferenceAndUser(u, s)
    BY DEF GetJoinableViewsForReferenceAndUser
<1> QED BY <1>1, <1>2 DEF ViewsKept, GetJoinableViewsForReferenceAndUser

\* A step of those who are at work on no access
LEMMA QuietStep ==
    ASSUME StandingRight, standing' = standing, change' = change,
           \A u \in Users, s \in Sources : Making(u, s)' => Making(u, s),
           \A u \in Users, s \in Sources : ViewsKept(u, s)
    PROVE  StandingRight'
<1>1. \A u, s, op : Changing(u, s, op)' = Changing(u, s, op)
    BY DEF Changing, ChangeAt
<1> QED BY <1>1, PairStays DEF StandingRight

\* Accesses that come and go with no view of theirs, and deletions
LEMMA AccessesStand ==
    ASSUME JoinablesInv, StandingRight, NEW s \in Sources, NEW x \in Subjects,
           ApproveAccessRequest(s, x) \/ AccessEnds(s, x)
    PROVE  StandingRight'
<1>1. UNCHANGED <<place, bigquery, joinables, maker, change, standing>>
    BY DEF ApproveAccessRequest, AccessEnds
<1>2. \A u \in Users, t \in Sources : Making(u, t)' => Making(u, t)
    BY <1>1 DEF Making
<1>3. \A u \in Users, t \in Sources : ViewsKept(u, t)
    BY <1>1, ViewsAreKept DEF bigquery
<1> QED BY <1>1, <1>2, <1>3, QuietStep

LEMMA DeletionStands ==
    ASSUME JoinablesInv, StandingRight, NEW s \in Sources, DeleteSource(s)
    PROVE  StandingRight'
<1>1. UNCHANGED <<place, bigquery, maker, change, standing>>
    BY DEF DeleteSource
<1>2. \A u \in Users, t \in Sources : Making(u, t)' => Making(u, t)
    BY <1>1 DEF Making
<1>3. ASSUME NEW u \in Users, NEW t \in Sources, NEW j \in Joinables,
             j \in GetJoinableViewsForReferenceAndUser(u, t)'
      PROVE  /\ j \in GetJoinableViewsForReferenceAndUser(u, t)
             /\ Mapped(j, t)' => Mapped(j, t)
  <2>1. joinables[j] # NoView
      BY <1>3 DEF DeleteSource, GetJoinableViewsForReferenceAndUser
  <2>2. PICK row \in JoinableRow : row = joinables[j]
      BY <2>1 DEF JoinablesInv, JoinablesTypeOK
  <2>3. joinables'[j].owner = row.owner /\ joinables'[j].sources = row.sources
      BY <2>1, <2>2 DEF DeleteSource, JoinableRow
  <2>4. MappedViews(row.sources)' = MappedViews(row.sources)
      BY <1>1 DEF MappedViews, ViewIn
  <2> QED BY <1>3, <2>1, <2>2, <2>3, <2>4 DEF Mapped, GetJoinableViewsForReferenceAndUser
<1>4. \A u \in Users, t \in Sources : ViewsKept(u, t)
    BY <1>1, <1>3 DEF ViewsKept, bigquery
<1> QED BY <1>1, <1>2, <1>4, QuietStep

\* Handlers that create views, on the way: what they grant is in no row yet.
LEMMA MakersStand ==
    ASSUME JoinablesInv, StandingRight, NEW c \in ViewCalls,
           \/ CheckDataset(c)
           \/ \E j \in Joinables : createDatasetInCentralProject(c, j)
           \/ createSecretTable(c)
           \/ insertSecretIfNotExists(c)
           \/ CreateJoinableView(c)
           \/ AuthorizeOnSource(c)
           \/ AuthorizeOnVault(c)
           \/ \E s \in Sources : GrantView(c, s)
           \/ MakerFails(c)
    PROVE  StandingRight'
<1>1. UNCHANGED <<registered, joinables, standing>>
    BY DEF CheckDataset, createDatasetInCentralProject, createSecretTable,
           insertSecretIfNotExists, CreateJoinableView, AuthorizeOnSource, AuthorizeOnVault,
           GrantView, MakerFails
<1>2. PICK k \in Maker : k = maker[c] /\ maker[c] # NoView /\ MakerMade(k)
    BY HandlerAt DEF CheckDataset, createDatasetInCentralProject, createSecretTable,
           insertSecretIfNotExists, CreateJoinableView, AuthorizeOnSource, AuthorizeOnVault,
           GrantView, MakerFails, MakerAt
<1>3. \/ \E step, rest : MakerGoto(c, step, rest)
      \/ \E j : maker' = [maker EXCEPT ![c].step = "secretTable", ![c].name = j]
      \/ EndMaker(c)
    BY DEF CheckDataset, createDatasetInCentralProject, createSecretTable,
           insertSecretIfNotExists, CreateJoinableView, AuthorizeOnSource, AuthorizeOnVault,
           GrantView, MakerFails
<1>4. maker'[c] = NoView \/ (maker'[c].user = k.user /\ maker'[c].asked = k.asked)
  <2>1. CASE \E step, rest : MakerGoto(c, step, rest)
    <3>1. PICK step, rest : MakerGoto(c, step, rest)
        BY <2>1
    <3> DEFINE m == [k EXCEPT !.step = step, !.left = rest]
    <3>2. maker' = [maker EXCEPT ![c] = m] /\ m.user = k.user /\ m.asked = k.asked
        BY <1>2, <3>1 DEF MakerGoto, Maker, JoinablesInv, JoinablesTypeOK
    <3> HIDE DEF m
    <3> QED BY <3>2 DEF JoinablesInv, JoinablesTypeOK
  <2>2. CASE \E j : maker' = [maker EXCEPT ![c].step = "secretTable", ![c].name = j]
    <3>1. PICK j : maker' = [maker EXCEPT ![c].step = "secretTable", ![c].name = j]
        BY <2>2
    <3> DEFINE m == [k EXCEPT !.step = "secretTable", !.name = j]
    <3>2. maker' = [maker EXCEPT ![c] = m] /\ m.user = k.user /\ m.asked = k.asked
        BY <1>2, <3>1 DEF Maker, JoinablesInv, JoinablesTypeOK
    <3> HIDE DEF m
    <3> QED BY <3>2 DEF JoinablesInv, JoinablesTypeOK
  <2>3. CASE EndMaker(c)
      BY <2>3 DEF EndMaker, JoinablesInv, JoinablesTypeOK
  <2> QED BY <1>3, <2>1, <2>2, <2>3
<1>5. \A d \in ViewCalls \ {c} : maker'[d] = maker[d]
    BY <1>3 DEF MakerGoto, EndMaker, JoinablesInv, JoinablesTypeOK
<1>6. \A u \in Users, s \in Sources : Making(u, s)' => Making(u, s)
    BY <1>2, <1>4, <1>5 DEF Making
<1>7. ASSUME NEW j \in Joinables, joinables[j] # NoView, NEW s \in Sources, NEW u \in Users
      PROVE  <<j, s, u>> \in viewers' <=> <<j, s, u>> \in viewers
  <2>1. CASE viewers' = viewers
      BY <2>1
  <2>2. CASE \E t \in Sources : GrantView(c, t)
    <3>1. PICK t \in Sources : viewers' = viewers \cup {<<k.name, t, k.user>>}
        BY <1>2, <2>2 DEF GrantView
    <3>2. joinables[k.name] = NoView
        BY <1>2, <2>2 DEF GrantView, MakerAt, MakerMade, Later
    <3> QED BY <1>7, <3>1, <3>2
  <2> QED BY <2>1, <2>2 DEF CheckDataset, createDatasetInCentralProject, createSecretTable,
           insertSecretIfNotExists, CreateJoinableView, AuthorizeOnSource, AuthorizeOnVault,
           MakerFails, bigquery
<1>8. \A u \in Users, s \in Sources : ViewsKept(u, s)
    BY <1>1, <1>7, ViewsAreKept DEF registered
<1> QED BY <1>1, <1>6, <1>8, QuietStep DEF registered

\* Who sets out to make a view of a source that he was out of is in doubt.
LEMMA CreationStands ==
    ASSUME JoinablesInv, StandingRight, NEW c \in ViewCalls, NEW u \in Users,
           NEW asked \in SUBSET Sources, CreateJoinableViews(c, u, asked)
    PROVE  StandingRight'
<1>1. UNCHANGED <<registered, bigquery, joinables>>
    BY DEF CreateJoinableViews
<1>2. /\ maker'[c].user = u /\ maker'[c].asked = asked
      /\ \A d \in ViewCalls \ {c} : maker'[d] = maker[d]
    BY DEF CreateJoinableViews, JoinablesInv, JoinablesTypeOK
<1>3. ASSUME NEW v \in Users, NEW s \in Sources PROVE StandsRight(v, s)'
  <2>0. /\ StandsRight(v, s) /\ ViewsKept(v, s)
        /\ \A op : Changing(v, s, op)' = Changing(v, s, op)
      BY <1>1, ViewsAreKept DEF StandingRight, registered, bigquery, Changing, ChangeAt
  <2>1. CASE v = u /\ s \in asked /\ (standing[v][s] = "out" \/ Changing(v, s, "revoke"))
    <3>1. standing'[v][s] = "unsure"
        BY <2>1 DEF CreateJoinableViews, JoinablesInv, JoinablesTypeOK
    <3> QED BY <3>1, JoinableAssumption DEF StandsRight
  <2>2. CASE v = u /\ s \in asked /\ ~ (standing[v][s] = "out" \/ Changing(v, s, "revoke"))
    <3>1. standing'[v][s] = standing[v][s]
        BY <2>2 DEF CreateJoinableViews, JoinablesInv, JoinablesTypeOK
    <3>2. ASSUME NEW left, StandsIn(v, s, left) PROVE StandsIn(v, s, left)'
        BY <2>0, <3>2, InStays DEF ViewsKept
    <3>3. ASSUME NEW d \in AccessCalls, standing[v][s] = d PROVE Pending(v, s, d)'
      <4>1. /\ Pending(v, s, d) /\ change'[d] = change[d]
            /\ change[d].op # "revoke"
          BY <1>1, <2>0, <2>2, <3>3 DEF StandsRight, Pending, registered, Changing, ChangeAt
      <4>2. PICK left : left = change[d].left
          OBVIOUS
      <4> QED BY <3>2, <4>1, <4>2 DEF Pending
    <3> QED BY <2>0, <2>2, <3>1, <3>2, <3>3 DEF StandsRight
  <2>3. CASE ~ (v = u /\ s \in asked)
    <3>1. standing'[v][s] = standing[v][s]
        BY <2>3 DEF CreateJoinableViews, JoinablesInv, JoinablesTypeOK
    <3>2. Making(v, s)' => Making(v, s)
        BY <1>2, <2>3 DEF Making
    <3> QED BY <1>1, <2>0, <3>1, <3>2, PairStays DEF registered
  <2> QED BY <2>1, <2>2, <2>3
<1> QED BY <1>3 DEF StandingRight

\* The row makes a view that its owner reads one of the listed; nobody whom it is
\* about stands out then.
LEMMA StoreStands ==
    ASSUME JoinablesInv, StandingRight, NEW c \in ViewCalls, CreateJoinableViewsDB(c)
    PROVE  StandingRight'
<1>1. PICK k \in Maker : k = maker[c] /\ maker[c] # NoView /\ MakerMade(k)
    BY HandlerAt DEF CreateJoinableViewsDB, MakerAt
<1>2. /\ k.step = "grant" /\ k.name \in Joinables /\ joinables[k.name] = NoView
      /\ \A s \in MappedViews(k.asked) : <<k.name, s, k.user>> \in viewers
    BY <1>1 DEF CreateJoinableViewsDB, MakerAt, MakerMade, Later, JoinablesInv, JoinablesTypeOK
<1>3. UNCHANGED <<registered, standing, bigquery>>
    BY DEF CreateJoinableViewsDB
<1>4. /\ joinables'[k.name].owner = k.user /\ joinables'[k.name].sources = k.asked
      /\ \A j \in Joinables \ {k.name} : joinables'[j] = joinables[j]
    BY <1>1, <1>2 DEF CreateJoinableViewsDB, InsertJoinableView, JoinablesInv, JoinablesTypeOK
<1>5. \A u \in Users, s \in Sources : Making(u, s)' => Making(u, s)
    BY DEF CreateJoinableViewsDB, EndMaker, Making, JoinablesInv, JoinablesTypeOK
<1>6. \A S : MappedViews(S)' = MappedViews(S)
    BY <1>3 DEF MappedViews, ViewIn, registered
<1>7. ASSUME NEW u \in Users, NEW s \in Sources PROVE StandsRight(u, s)'
  <2>0. /\ StandsRight(u, s)
        /\ \A op : Changing(u, s, op)' = Changing(u, s, op)
      BY <1>3 DEF StandingRight, registered, Changing, ChangeAt
  <2>1. ASSUME NEW j \in Joinables, j # k.name,
               j \in GetJoinableViewsForReferenceAndUser(u, s)'
        PROVE  /\ j \in GetJoinableViewsForReferenceAndUser(u, s)
               /\ Mapped(j, s)' => Mapped(j, s)
               /\ <<j, s, u>> \in viewers' <=> <<j, s, u>> \in viewers
    <3>1. joinables'[j] = joinables[j]
        BY <1>4, <2>1
    <3>2. PICK S : S = joinables[j].sources
        OBVIOUS
    <3> QED BY <1>3, <1>6, <2>1, <3>1, <3>2
            DEF GetJoinableViewsForReferenceAndUser, Mapped, bigquery
  <2>2. CASE u = k.user /\ s \in k.asked
    <3>1. Making(u, s)
        BY <1>1, <2>2 DEF Making
    <3>2. Mapped(k.name, s)' => <<k.name, s, u>> \in viewers'
      <4>1. PICK S : S = k.asked
          OBVIOUS
      <4> QED BY <1>2, <1>3, <1>4, <1>6, <2>2, <4>1 DEF Mapped, bigquery
    <3>3. ASSUME NEW left, StandsIn(u, s, left) PROVE StandsIn(u, s, left)'
        BY <2>0, <2>1, <3>2, <3>3
        DEF StandsIn, ReadsAll, GetJoinableViewsForReferenceAndUser
    <3>4. ASSUME NEW d \in AccessCalls, standing[u][s] = d PROVE Pending(u, s, d)'
      <4>1. /\ Pending(u, s, d) /\ change'[d] = change[d]
            /\ change[d].op # "revoke"
          BY <1>3, <2>0, <3>1, <3>4 DEF StandsRight, Pending, StandsOut, registered
      <4>2. PICK left : left = change[d].left
          OBVIOUS
      <4> QED BY <3>3, <4>1, <4>2 DEF Pending
    <3> QED BY <1>3, <2>0, <3>1, <3>3, <3>4 DEF StandsRight, StandsOut
  <2>3. CASE ~ (u = k.user /\ s \in k.asked)
    <3>1. k.name \notin GetJoinableViewsForReferenceAndUser(u, s)'
        BY <1>4, <2>3 DEF GetJoinableViewsForReferenceAndUser
    <3>2. ViewsKept(u, s)
        BY <2>1, <3>1 DEF ViewsKept
    <3> QED BY <1>3, <1>5, <2>0, <3>2, PairStays DEF registered
  <2> QED BY <2>2, <2>3
<1> QED BY <1>7 DEF StandingRight

\* Of other users and sources, a handler changes nothing.
LEMMA ElsewhereStands ==
    ASSUME StandingRight, NEW c \in AccessCalls, NEW u \in Users, NEW s \in Sources,
           \A d \in AccessCalls \ {c} : change'[d] = change[d],
           change[c] # NoView => change[c].user = u /\ change[c].source = s,
           change'[c] # NoView => change'[c].user = u /\ change'[c].source = s,
           place' = place, joinables' = joinables, maker' = maker,
           NEW v \in Users, NEW t \in Sources, v # u \/ t # s,
           standing'[v][t] = standing[v][t],
           \A j \in Joinables : <<j, t, v>> \in viewers' <=> <<j, t, v>> \in viewers
    PROVE  StandsRight(v, t)'
<1>1. \A op : Changing(v, t, op)' => Changing(v, t, op)
    BY DEF Changing, ChangeAt
<1>2. Making(v, t)' => Making(v, t)
    BY DEF Making
<1>3. StandsRight(v, t)
    BY DEF StandingRight
<1>4. \A d \in AccessCalls : standing[v][t] = d => change'[d] = change[d]
    BY <1>3 DEF StandsRight, Pending
<1>5. ViewsKept(v, t)
    BY ViewsAreKept
<1> QED BY <1>1, <1>2, <1>3, <1>4, <1>5, PairStays

\* A grant sets out
LEMMA GrantBeginStands ==
    ASSUME JoinablesInv, StandingRight, NEW c \in AccessCalls, NEW u \in Users,
           NEW s \in Sources, GrantAccessToDataset(c, u, s)
    PROVE  StandingRight'
<1>1. PICK m \in Change : /\ change' = [change EXCEPT ![c] = m] /\ m.op = "grant"
                          /\ m.user = u /\ m.source = s
                          /\ m.left = GetJoinableViewsForReferenceAndUser(u, s)
    BY ChangeBegins DEF GrantAccessToDataset
<1>2. UNCHANGED <<place, viewers, joinables, maker>> /\ change[c] = NoView
    BY DEF GrantAccessToDataset, BeginChange, bigquery
<1>3. change'[c] = m /\ \A d \in AccessCalls \ {c} : change'[d] = change[d]
    BY <1>1 DEF JoinablesInv, JoinablesTypeOK
<1>4. StandsRight(u, s)'
  <2>0. StandsRight(u, s) /\ ViewsKept(u, s)
      BY <1>2, ViewsAreKept DEF StandingRight
  <2>1. Changing(u, s, "revoke")' => Changing(u, s, "revoke")
      BY <1>1, <1>3 DEF Changing, ChangeAt
  <2>2. standing'[u][s] = IF Changing(u, s, "revoke") THEN "unsure"
                          ELSE IF standing[u][s] = "in" THEN "in" ELSE c
      BY DEF GrantAccessToDataset, Stands, JoinablesInv, JoinablesTypeOK
  <2>3. CASE Changing(u, s, "revoke")
      BY <2>2, <2>3, JoinableAssumption DEF StandsRight
  <2>4. CASE ~ Changing(u, s, "revoke") /\ standing[u][s] = "in"
    <3>1. StandsIn(u, s, {})'
        BY <2>0, <2>1, <2>4, InStays DEF StandsRight, ViewsKept
    <3> QED BY <2>2, <2>4, <3>1, JoinableAssumption DEF StandsRight
  <2>5. CASE ~ Changing(u, s, "revoke") /\ standing[u][s] # "in"
    <3>1. StandsIn(u, s, m.left)'
        BY <1>1, <2>0, <2>1, <2>5 DEF StandsIn, ReadsAll, ViewsKept,
                                      GetJoinableViewsForReferenceAndUser
    <3>2. Pending(u, s, c)'
        BY <1>1, <1>3, <3>1, NoViewAssumption DEF Pending
    <3> QED BY <2>2, <2>5, <3>2, JoinableAssumption DEF StandsRight
  <2> QED BY <2>3, <2>4, <2>5
<1>5. ASSUME NEW v \in Users, NEW t \in Sources, v # u \/ t # s PROVE StandsRight(v, t)'
  <2>1. standing'[v][t] = standing[v][t]
      BY <1>5 DEF GrantAccessToDataset, Stands, JoinablesInv, JoinablesTypeOK
  <2> QED BY <1>1, <1>2, <1>3, <1>5, <2>1, ElsewhereStands
<1> QED BY <1>4, <1>5 DEF StandingRight

\* A revocation sets out
LEMMA RevokeBeginStands ==
    ASSUME JoinablesInv, StandingRight, NEW c \in AccessCalls, NEW u \in Users,
           NEW s \in Sources, RevokeAccessToDataset(c, u, s)
    PROVE  StandingRight'
<1>1. PICK m \in Change : /\ change' = [change EXCEPT ![c] = m] /\ m.op = "revoke"
                          /\ m.user = u /\ m.source = s
                          /\ m.left = GetJoinableViewsForReferenceAndUser(u, s)
    BY ChangeBegins DEF RevokeAccessToDataset
<1>2. UNCHANGED <<place, viewers, joinables, maker>> /\ change[c] = NoView
    BY DEF RevokeAccessToDataset, BeginChange, bigquery
<1>3. change'[c] = m /\ \A d \in AccessCalls \ {c} : change'[d] = change[d]
    BY <1>1 DEF JoinablesInv, JoinablesTypeOK
<1> DEFINE Doubt == Changing(u, s, "grant") \/ Making(u, s)
<1>4. StandsRight(u, s)'
  <2>0. StandsRight(u, s) /\ ViewsKept(u, s)
      BY <1>2, ViewsAreKept DEF StandingRight
  <2>1. /\ Changing(u, s, "grant")' => Changing(u, s, "grant")
        /\ Making(u, s)' => Making(u, s)
      BY <1>1, <1>2, <1>3 DEF Changing, ChangeAt, Making
  <2>2. standing'[u][s] = IF Doubt THEN "unsure"
                          ELSE IF standing[u][s] = "out" THEN "out" ELSE c
      BY DEF RevokeAccessToDataset, Stands, JoinablesInv, JoinablesTypeOK
  <2>3. CASE Doubt
      BY <2>2, <2>3, JoinableAssumption DEF StandsRight
  <2>4. CASE ~ Doubt /\ standing[u][s] = "out"
    <3>1. StandsOut(u, s, {})'
        BY <2>0, <2>1, <2>4, OutStays DEF StandsRight, ViewsKept
    <3> QED BY <2>2, <2>4, <3>1, JoinableAssumption DEF StandsRight
  <2>5. CASE ~ Doubt /\ standing[u][s] # "out"
    <3>1. StandsOut(u, s, m.left)'
        BY <1>1, <2>0, <2>1, <2>5 DEF StandsOut, ReadsNone, ViewsKept,
                                      GetJoinableViewsForReferenceAndUser
    <3>2. Pending(u, s, c)'
        BY <1>1, <1>3, <3>1, NoViewAssumption DEF Pending
    <3> QED BY <2>2, <2>5, <3>2, JoinableAssumption DEF StandsRight
  <2> QED BY <2>3, <2>4, <2>5
<1>5. ASSUME NEW v \in Users, NEW t \in Sources, v # u \/ t # s PROVE StandsRight(v, t)'
  <2>1. standing'[v][t] = standing[v][t]
      BY <1>5 DEF RevokeAccessToDataset, Stands, JoinablesInv, JoinablesTypeOK
  <2> QED BY <1>1, <1>2, <1>3, <1>5, <2>1, ElsewhereStands
<1> QED BY <1>4, <1>5 DEF StandingRight

\* One view more is granted
LEMMA GrantViewStands ==
    ASSUME JoinablesInv, StandingRight, NEW c \in AccessCalls, NEW j \in Joinables,
           GrantJoinableView(c, j)
    PROVE  StandingRight'
<1>1. NextView(c, j) /\ change[c] # NoView /\ change[c].op = "grant"
    BY DEF GrantJoinableView, ChangeAt
<1>2. PICK k \in Change, m \in Change :
             /\ k = change[c] /\ change' = [change EXCEPT ![c] = m]
             /\ m.op = k.op /\ m.user = k.user /\ m.source = k.source
             /\ m.left = k.left \ {j}
    BY <1>1, NextViewDone
<1>3. k.op = "grant" /\ k.user \in Users /\ k.source \in Sources
    BY <1>1, <1>2 DEF Change
<1> DEFINE u == k.user
           s == k.source
<1>4. /\ UNCHANGED <<place, joinables, maker, standing>>
      /\ viewers' = viewers \cup {<<j, s, u>>}
    BY <1>1, <1>2 DEF GrantJoinableView, NextView
<1>5. change'[c] = m /\ \A d \in AccessCalls \ {c} : change'[d] = change[d]
    BY <1>2 DEF JoinablesInv, JoinablesTypeOK
<1>6. StandsRight(u, s)'
  <2>0. StandsRight(u, s) /\ Changing(u, s, "grant")
      BY <1>2, <1>3, <1>1 DEF StandingRight, Changing, ChangeAt
  <2>1. Changing(u, s, "revoke")' => Changing(u, s, "revoke")
      BY <1>2, <1>3, <1>5 DEF Changing, ChangeAt
  <2>2. \A i \in Joinables :
           /\ (i \in GetJoinableViewsForReferenceAndUser(u, s))'
                = (i \in GetJoinableViewsForReferenceAndUser(u, s))
           /\ Mapped(i, s)' = Mapped(i, s)
      BY <1>4 DEF GetJoinableViewsForReferenceAndUser, Mapped, MappedViews, ViewIn
  <2>3. ASSUME NEW left, NEW rest, StandsIn(u, s, left), left \subseteq rest \cup {j}
        PROVE  StandsIn(u, s, rest)'
    <3>1. \A i \in Joinables : i \in GetJoinableViewsForReferenceAndUser(u, s)' /\ i \notin rest =>
              \/ <<i, s, u>> \in viewers'
              \/ /\ i \in GetJoinableViewsForReferenceAndUser(u, s) \ left
                 /\ Mapped(i, s)' => Mapped(i, s)
                 /\ <<i, s, u>> \in viewers => <<i, s, u>> \in viewers'
        BY <1>4, <2>2, <2>3
    <3> QED BY <1>3, <2>1, <2>3, <3>1, InStays
  <2>4. ASSUME NEW d \in AccessCalls, standing[u][s] = d PROVE Pending(u, s, d)'
    <3>1. Pending(u, s, d) /\ change[d].op # "revoke"
        BY <2>0, <2>4 DEF StandsRight, Pending, StandsOut
    <3>2. CASE d = c
      <4>1. StandsIn(u, s, m.left)'
          BY <1>2, <1>3, <2>3, <3>1, <3>2 DEF Pending
      <4> QED BY <1>2, <1>3, <1>5, <3>2, <4>1, NoViewAssumption DEF Pending
    <3>3. CASE d # c
      <4>1. PICK left : left = change[d].left
          OBVIOUS
      <4>2. change[d].op = "grant" => StandsIn(u, s, left)'
          BY <2>3, <3>1, <4>1 DEF Pending
      <4> QED BY <1>5, <3>1, <3>3, <4>1, <4>2 DEF Pending
    <3> QED BY <3>2, <3>3
  <2>5. standing[u][s] = "in" => StandsIn(u, s, {})'
      BY <2>0, <2>3 DEF StandsRight
  <2>6. standing[u][s] # "out"
      BY <2>0 DEF StandsRight, StandsOut
  <2> HIDE DEF u, s
  <2> QED BY <1>4, <2>4, <2>5, <2>6 DEF StandsRight
<1>7. ASSUME NEW v \in Users, NEW t \in Sources, v # u \/ t # s PROVE StandsRight(v, t)'
  <2>1. \A i \in Joinables : <<i, t, v>> \in viewers' <=> <<i, t, v>> \in viewers
      BY <1>4, <1>7
  <2> QED BY <1>2, <1>3, <1>4, <1>5, <1>7, <2>1, ElsewhereStands
<1> QED BY <1>3, <1>6, <1>7 DEF StandingRight

\* One view more is revoked
LEMMA RevokeViewStands ==
    ASSUME JoinablesInv, StandingRight, NEW c \in AccessCalls, NEW j \in Joinables,
           RevokeJoinableView(c, j)
    PROVE  StandingRight'
<1>1. NextView(c, j) /\ change[c] # NoView /\ change[c].op = "revoke"
    BY DEF RevokeJoinableView, ChangeAt
<1>2. PICK k \in Change, m \in Change :
             /\ k = change[c] /\ change' = [change EXCEPT ![c] = m]
             /\ m.op = k.op /\ m.user = k.user /\ m.source = k.source
             /\ m.left = k.left \ {j}
    BY <1>1, NextViewDone
<1>3. k.op = "revoke" /\ k.user \in Users /\ k.source \in Sources
    BY <1>1, <1>2 DEF Change
<1> DEFINE u == k.user
           s == k.source
<1>4. /\ UNCHANGED <<place, joinables, maker, standing>>
      /\ viewers' = viewers \ {<<j, s, u>>}
    BY <1>1, <1>2 DEF RevokeJoinableView, NextView
<1>5. change'[c] = m /\ \A d \in AccessCalls \ {c} : change'[d] = change[d]
    BY <1>2 DEF JoinablesInv, JoinablesTypeOK
<1>6. StandsRight(u, s)'
  <2>0. StandsRight(u, s) /\ Changing(u, s, "revoke")
      BY <1>2, <1>3, <1>1 DEF StandingRight, Changing, ChangeAt
  <2>1. /\ Changing(u, s, "grant")' => Changing(u, s, "grant")
        /\ Making(u, s)' => Making(u, s)
      BY <1>2, <1>3, <1>4, <1>5 DEF Changing, ChangeAt, Making
  <2>2. \A i \in Joinables :
           (i \in GetJoinableViewsForReferenceAndUser(u, s))'
             = (i \in GetJoinableViewsForReferenceAndUser(u, s))
      BY <1>4 DEF GetJoinableViewsForReferenceAndUser
  <2>3. ASSUME NEW left, NEW rest, StandsOut(u, s, left), left \subseteq rest \cup {j}
        PROVE  StandsOut(u, s, rest)'
    <3>1. \A i \in Joinables : i \in GetJoinableViewsForReferenceAndUser(u, s)' /\ i \notin rest =>
              \/ <<i, s, u>> \notin viewers'
              \/ /\ i \in GetJoinableViewsForReferenceAndUser(u, s) \ left
                 /\ <<i, s, u>> \in viewers' => <<i, s, u>> \in viewers
        BY <1>4, <2>2, <2>3
    <3> QED BY <1>3, <2>1, <2>3, <3>1, OutStays
  <2>4. ASSUME NEW d \in AccessCalls, standing[u][s] = d PROVE Pending(u, s, d)'
    <3>1. Pending(u, s, d) /\ change[d].op # "grant"
        BY <2>0, <2>4 DEF StandsRight, Pending, StandsIn
    <3>2. CASE d = c
      <4>1. StandsOut(u, s, m.left)'
          BY <1>2, <1>3, <2>3, <3>1, <3>2 DEF Pending
      <4> QED BY <1>2, <1>3, <1>5, <3>2, <4>1, NoViewAssumption DEF Pending
    <3>3. CASE d # c
      <4>1. PICK left : left = change[d].left
          OBVIOUS
      <4>2. change[d].op = "revoke" => StandsOut(u, s, left)'
          BY <2>3, <3>1, <4>1 DEF Pending
      <4> QED BY <1>5, <3>1, <3>3, <4>1, <4>2 DEF Pending
    <3> QED BY <3>2, <3>3
  <2>5. standing[u][s] = "out" => StandsOut(u, s, {})'
      BY <2>0, <2>3 DEF StandsRight
  <2>6. standing[u][s] # "in"
      BY <2>0 DEF StandsRight, StandsIn
  <2> HIDE DEF u, s
  <2> QED BY <1>4, <2>4, <2>5, <2>6 DEF StandsRight
<1>7. ASSUME NEW v \in Users, NEW t \in Sources, v # u \/ t # s PROVE StandsRight(v, t)'
  <2>1. \A i \in Joinables : <<i, t, v>> \in viewers' <=> <<i, t, v>> \in viewers
      BY <1>4, <1>7
  <2> QED BY <1>2, <1>3, <1>4, <1>5, <1>7, <2>1, ElsewhereStands
<1> QED BY <1>3, <1>6, <1>7 DEF StandingRight

\* A handler ends: if nothing got in its way, what it did to all views stands.
LEMMA EndsStand ==
    ASSUME JoinablesInv, StandingRight, NEW c \in AccessCalls,
           GrantAccessToDatasetAndRenew(c) \/ RevokeAccess(c) \/ ChangeFails(c)
    PROVE  StandingRight'
<1>1. PICK k \in Change : k = change[c] /\ change[c] # NoView
    BY DEF GrantAccessToDatasetAndRenew, RevokeAccess, ChangeFails, ChangeAt,
           JoinablesInv, JoinablesTypeOK
<1>2. k.user \in Users /\ k.source \in Sources
    BY DEF Change
<1> DEFINE u == k.user
           s == k.source
<1>3. UNCHANGED <<place, viewers, joinables, maker>> /\ change' = [change EXCEPT ![c] = NoView]
    BY DEF GrantAccessToDatasetAndRenew, RevokeAccess, ChangeFails, FinishChange, EndChange,
           bigquery
<1>4. change'[c] = NoView /\ \A d \in AccessCalls \ {c} : change'[d] = change[d]
    BY <1>3 DEF JoinablesInv, JoinablesTypeOK
<1>5. PICK how : /\ IF standing[u][s] = c THEN Stands(u, s, how) ELSE standing' = standing
                 /\ \/ how = "in" /\ k.op = "grant" /\ k.left = {}
                    \/ how = "out" /\ k.op = "revoke" /\ k.left = {}
                    \/ how = "unsure"
    BY <1>1 DEF GrantAccessToDatasetAndRenew, RevokeAccess, ChangeFails, FinishChange, ChangeAt
<1>6. StandsRight(u, s)'
  <2>0. /\ StandsRight(u, s) /\ ViewsKept(u, s)
        /\ \A op : Changing(u, s, op)' => Changing(u, s, op)
        /\ Making(u, s)' => Making(u, s)
      BY <1>2, <1>3, <1>4, ViewsAreKept DEF StandingRight, Changing, ChangeAt, Making
  <2>1. CASE standing[u][s] # c
    <3>1. standing'[u][s] = standing[u][s]
        BY <1>5, <2>1
    <3> QED BY <1>2, <1>4, <2>0, <2>1, <3>1, PairStays
  <2>2. CASE standing[u][s] = c
    <3>1. standing'[u][s] = how
        BY <1>2, <1>5, <2>2 DEF Stands, JoinablesInv, JoinablesTypeOK
    <3>2. Pending(u, s, c)
        BY <2>0, <2>2 DEF StandsRight
    <3>3. how = "in" => StandsIn(u, s, {})'
      <4>1. how = "in" => StandsIn(u, s, {})
          BY <1>1, <1>5, <3>2 DEF Pending
      <4> QED BY <1>2, <2>0, <4>1, InStays DEF ViewsKept
    <3>4. how = "out" => StandsOut(u, s, {})'
      <4>1. how = "out" => StandsOut(u, s, {})
          BY <1>1, <1>5, <3>2 DEF Pending
      <4> QED BY <1>2, <2>0, <4>1, OutStays DEF ViewsKept
    <3> HIDE DEF u, s
    <3> QED BY <1>5, <3>1, <3>3, <3>4, JoinableAssumption DEF StandsRight
  <2> QED BY <2>1, <2>2
<1>7. ASSUME NEW v \in Users, NEW t \in Sources, v # u \/ t # s PROVE StandsRight(v, t)'
  <2>1. standing'[v][t] = standing[v][t]
      BY <1>5, <1>7 DEF Stands, JoinablesInv, JoinablesTypeOK
  <2> QED BY <1>1, <1>2, <1>3, <1>4, <1>7, <2>1, ElsewhereStands
<1> QED BY <1>2, <1>6, <1>7 DEF StandingRight

\* Who stands in reads all of his listed views, who stands out reads none.
THEOREM StandingInvariant == JoinablesSpec => []StandingRight
<1>1. JoinablesInit => StandingRight
    BY JoinableAssumption
    DEF JoinablesInit, StandingRight, StandsRight, StandsIn, ReadsAll, Changing, ChangeAt,
        GetJoinableViewsForReferenceAndUser
<1>2. JoinablesInv /\ StandingRight /\ [JoinablesNext]_joinableVars => StandingRight'
  <2> SUFFICES ASSUME JoinablesInv, StandingRight, [JoinablesNext]_joinableVars
               PROVE  StandingRight'
      OBVIOUS
  <2>1. CASE \E s \in Sources, x \in Subjects : ApproveAccessRequest(s, x) \/ AccessEnds(s, x)
      BY <2>1, AccessesStand
  <2>2. CASE \E s \in Sources : DeleteSource(s)
      BY <2>2, DeletionStands
  <2>3. ASSUME NEW c \in ViewCalls,
               \/ \E u \in Users, asked \in SUBSET Sources : CreateJoinableViews(c, u, asked)
               \/ CheckDataset(c)
               \/ \E j \in Joinables : createDatasetInCentralProject(c, j)
               \/ createSecretTable(c)
               \/ insertSecretIfNotExists(c)
               \/ CreateJoinableView(c)
               \/ AuthorizeOnSource(c)
               \/ AuthorizeOnVault(c)
               \/ \E s \in Sources : GrantView(c, s)
               \/ CreateJoinableViewsDB(c)
               \/ MakerFails(c)
        PROVE  StandingRight'
      BY <2>3, CreationStands, MakersStand, StoreStands
  <2>4. ASSUME NEW c \in AccessCalls,
               \/ \E u \in Users, s \in Sources :
                     GrantAccessToDataset(c, u, s) \/ RevokeAccessToDataset(c, u, s)
               \/ \E j \in Joinables : GrantJoinableView(c, j) \/ RevokeJoinableView(c, j)
               \/ GrantAccessToDatasetAndRenew(c)
               \/ RevokeAccess(c)
               \/ ChangeFails(c)
        PROVE  StandingRight'
      BY <2>4, GrantBeginStands, RevokeBeginStands, GrantViewStands, RevokeViewStands, EndsStand
  <2>5. CASE UNCHANGED joinableVars
    <3>1. UNCHANGED <<place, viewers, joinables, maker, change, standing>>
        BY <2>5 DEF joinableVars
    <3>2. /\ \A u \in Users, s \in Sources : Making(u, s)' => Making(u, s)
          /\ \A u \in Users, s \in Sources : ViewsKept(u, s)
        BY <3>1, ViewsAreKept DEF Making
    <3> QED BY <3>1, <3>2, QuietStep
  <2> QED BY <2>1, <2>2, <2>3, <2>4, <2>5 DEF JoinablesNext
<1> QED BY <1>1, <1>2, JoinablesInvariant, PTL DEF JoinablesSpec

-----------------------------------------------------------------------------
\* Every variable has its type.
THEOREM JoinablesTypeCorrect == JoinablesSpec => []JoinablesTypeOK
<1>1. JoinablesInv => JoinablesTypeOK
    BY DEF JoinablesInv
<1> QED BY <1>1, JoinablesInvariant, PTL

\* What the portal lists can be queried, by whoever stands in.
THEOREM ListedCanBeQueried == JoinablesSpec => []ListedIsUsable
<1>1. JoinablesInv /\ StandingRight => ListedIsUsable
  <2> SUFFICES ASSUME JoinablesInv, StandingRight, NEW u \in Users, NEW j \in ListedFor(u)
               PROVE  \A s \in MappedViews(joinables[j].sources) :
                        /\ j \in spaces /\ j \in salts
                        /\ <<j, s>> \in views \cap authorized[place[s]] \cap authorized["vault"]
                        /\ standing[u][s] = "in" => <<j, s, u>> \in viewers
      BY Zenon DEF ListedIsUsable
  <2> TAKE s \in MappedViews(joinables[j].sources)
  <2>1. j \in Joinables /\ joinables[j].owner = u
      BY DEF ListedFor
  <2>2. PICK row \in JoinableRow : row = joinables[j] /\ RowMade(j, row)
      BY <2>1 DEF ListedFor, JoinablesInv, JoinablesTypeOK
  <2>3. s \in row.sources /\ row.sources \subseteq Sources
      BY <2>2, ViewInIsAsked DEF JoinableRow, MappedViews
  <2>4. standing[u][s] = "in" => <<j, s, u>> \in viewers
      BY <2>1, <2>2, <2>3 DEF StandingRight, StandsRight, StandsIn, ReadsAll, Mapped, ListedFor,
                              GetJoinableViewsForReferenceAndUser
  <2> QED BY <2>2, <2>4 DEF RowMade, CanRead
<1> QED BY <1>1, JoinablesInvariant, StandingInvariant, PTL

\* Whose access was revoked reads no listed view of that source.
THEOREM RevokedStayOut == JoinablesSpec => []RevokedAreOut
<1>1. JoinablesInv /\ StandingRight => RevokedAreOut
  <2> SUFFICES ASSUME JoinablesInv, StandingRight, NEW u \in Users, NEW j \in ListedFor(u),
                      NEW s \in joinables[j].sources, standing[u][s] = "out"
               PROVE  <<j, s, u>> \notin viewers
      BY DEF RevokedAreOut
  <2>1. s \in Sources
      BY DEF ListedFor, JoinablesInv, JoinablesTypeOK, JoinableRow
  <2> QED BY <2>1 DEF StandingRight, StandsRight, StandsOut, ReadsNone, ListedFor,
                      GetJoinableViewsForReferenceAndUser
<1> QED BY <1>1, JoinablesInvariant, StandingInvariant, PTL

\* Nobody gets to read a view of a dataset to which he never had access.
THEOREM ViewersWereEntitled == JoinablesSpec => []ViewersHadAccess
<1>1. JoinablesInv => ViewersHadAccess
    BY DEF JoinablesInv
<1> QED BY <1>1, JoinablesInvariant, PTL

\* What was deleted is shown as such.
THEOREM DeletedShows == JoinablesSpec => []DeletedIsShown
<1>1. JoinablesInv => DeletedIsShown
    BY DEF JoinablesInv, DeletedIsShown, ListedFor, RowMade, ShownDeleted
<1> QED BY <1>1, JoinablesInvariant, PTL

-----------------------------------------------------------------------------
(* All that teams publish *)

\* Each part does, in the whole, only what it may do alone.
LEMMA PartsKeepToThemselves ==
    PublishingSpec =>
        /\ StoriesSpec /\ JoinablesSpec /\ CatalogueSpec
        /\ SyncSpec /\ KeywordsSpec /\ TeamCatalogueSpec
<1>1. PublishingInit => /\ StoriesInit /\ JoinablesInit /\ CatalogueInit
                        /\ SyncInit /\ KeywordsInit /\ TeamCatalogueInit
    BY DEF PublishingInit
<1>2. [PublishingNext]_publishingVars =>
        /\ [StoriesNext]_storiesVars /\ [JoinablesNext]_joinableVars
        /\ [CatalogueNext]_catalogueVars /\ [SyncNext]_syncVars
        /\ [KeywordsNext]_keywordsVars /\ [TeamCatalogueNext]_teamCatalogueVars
    BY DEF PublishingNext, publishingVars, StillPublishing
<1> QED BY <1>1, <1>2, PTL DEF PublishingSpec, StoriesSpec, JoinablesSpec, CatalogueSpec,
                               SyncSpec, KeywordsSpec, TeamCatalogueSpec

\* Every variable of the part in motion has its type, and of those at rest too.
THEOREM PublishingTypeCorrect == PublishingSpec => []PublishingTypeOK
<1>1. StoriesTypeOK /\ JoinablesTypeOK /\ CatalogueTypeOK /\ SyncTypeOK
        /\ KeywordsTypeOK /\ TeamCatalogueTypeOK => PublishingTypeOK
    BY DEF PublishingTypeOK
<1>2. SyncInv => SyncTypeOK
    BY DEF SyncInv
<1> QED BY <1>1, <1>2, PartsKeepToThemselves, StoriesTypeCorrect, JoinablesTypeCorrect,
           CatalogueTypeCorrect, SyncInvariant, KeywordsTypeCorrect, TeamsTypeCorrect, PTL

\* However the parts interleave, what is served, listed and shown of stories,
\* views, datasets and their schemas, keywords and product areas is right, and
\* who may change what: no part reads or writes what another keeps.
THEOREM PartsTogetherAreSound ==
    StoriesSpec /\ JoinablesSpec /\ CatalogueSpec /\ SyncSpec /\ KeywordsSpec
        /\ TeamCatalogueSpec
    =>  /\ [](StoryShowsUploads /\ DeletedIsNotServed)
        /\ [](ListedIsUsable /\ RevokedAreOut /\ ViewersHadAccess /\ DeletedIsShown)
        /\ [](HiddenColumnsAreHidden /\ ShownIsFresh /\ RetiredIsGone)
        /\ OwnerNeverChanges /\ OnlyOwnersChangeDatasets /\ StoredAreaIsRecent
<1>1. StoriesSpec => [](StoryShowsUploads /\ DeletedIsNotServed)
    BY UploadsAreShown, DeletedStaysUnserved, PTL
<1>2. JoinablesSpec => [](ListedIsUsable /\ RevokedAreOut /\ ViewersHadAccess /\ DeletedIsShown)
    BY ListedCanBeQueried, RevokedStayOut, ViewersWereEntitled, DeletedShows, PTL
<1>3. CatalogueSpec /\ SyncSpec /\ KeywordsSpec =>
        [](HiddenColumnsAreHidden /\ ShownIsFresh /\ RetiredIsGone)
    BY ColumnsStayHidden, SyncShowsFresh, RetiredStaysGone, PTL
<1>4. CatalogueSpec => OwnerNeverChanges /\ OnlyOwnersChangeDatasets
    BY OwnersStay, OwnersAlone
<1>5. TeamCatalogueSpec => StoredAreaIsRecent
    BY StoredAreasAreRecent
<1> QED BY <1>1, <1>2, <1>3, <1>4, <1>5

\* The same of the composition that is model-checked, where one part moves.
THEOREM PublishingIsSound ==
    PublishingSpec =>
        /\ [](StoryShowsUploads /\ DeletedIsNotServed)
        /\ [](ListedIsUsable /\ RevokedAreOut /\ ViewersHadAccess /\ DeletedIsShown)
        /\ [](HiddenColumnsAreHidden /\ ShownIsFresh /\ RetiredIsGone)
        /\ OwnerNeverChanges /\ OnlyOwnersChangeDatasets /\ StoredAreaIsRecent
BY PartsKeepToThemselves, PartsTogetherAreSound
==============================================================================
