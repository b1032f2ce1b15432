----------------------- MODULE MetabaseCollections ----------------------
(***************************************************************************)
(* The collections syncer. On the pod that leads, it puts the restricted   *)
(* tag into the names of the collections of restricted datasets in         *)
(* Metabase. People name collections meanwhile, the mapper adds and        *)
(* removes datasets, and a pod that has lost the lead ends its pass.       *)
(***************************************************************************)
EXTENDS Integers

CONSTANTS
  Mapped,        \* datasets mapped to Metabase
  Names,         \* what people call a collection, the tag left out
  Taggers,       \* pods that lead, or led when their pass began
  NoRow          \* no metadata, no collection

ASSUME CollectionsAssumption == Names # {} /\ NoRow \notin Names

VARIABLES
  metadata,     \* metabase_metadata of each dataset
  collection,   \* the collections in Metabase: a name and its tags
  tagging       \* the syncers

collectionsVars == <<metadata, collection, tagging>>

\* Two tags stand for two or more.
Tags == 0..2

MetadataRow == [restricted : BOOLEAN, synced : BOOLEAN]

Collection == [name : Names, tags : Tags]

IdleTagger == [rows |-> {}, left |-> {}, read |-> [d \in Mapped |-> NoRow]]

CollectionsInit ==
  /\ metadata = [d \in Mapped |-> NoRow]
  /\ collection = [d \in Mapped |-> NoRow]
  /\ tagging = [p \in Taggers |-> IdleTagger]

(***************************************************************************)
(* What the mapper leaves behind: createRestricted names the collection    *)
(* with the tag, and the work completes later or never. Removal archives   *)
(* the collection.                                                         *)
(***************************************************************************)
MapRestricted(d) ==
  /\ metadata[d] = NoRow
  /\ metadata' = [metadata EXCEPT ![d] = [restricted |-> TRUE, synced |-> FALSE]]
  /\ \E n \in Names : collection' = [collection EXCEPT ![d] = [name |-> n, tags |-> 1]]
  /\ UNCHANGED tagging

MapOpen(d) ==
  /\ metadata[d] = NoRow
  /\ metadata' = [metadata EXCEPT ![d] = [restricted |-> FALSE, synced |-> FALSE]]
  /\ UNCHANGED <<collection, tagging>>

CompleteMapping(d) ==
  /\ metadata[d] # NoRow /\ ~metadata[d].synced
  /\ metadata' = [metadata EXCEPT ![d].synced = TRUE]
  /\ UNCHANGED <<collection, tagging>>

RemoveMapped(d) ==
  /\ metadata[d] # NoRow
  /\ metadata' = [metadata EXCEPT ![d] = NoRow]
  /\ collection' = [collection EXCEPT ![d] = NoRow]
  /\ UNCHANGED tagging

\* People rename a collection, with the tag or without it.
RenameCollection(d, n, tags) ==
  /\ collection[d] # NoRow
  /\ collection' = [collection EXCEPT ![d] = [name |-> n, tags |-> tags]]
  /\ UNCHANGED <<metadata, tagging>>

(***************************************************************************)
(* AddRestrictedTagToCollections: reads the rows, then the collections,    *)
(* then writes back, one request a collection, names made from what it     *)
(* read.                                                                   *)
(***************************************************************************)
GetAllMetadata(p) ==
  /\ tagging[p] = IdleTagger
  /\ tagging' = [tagging EXCEPT ![p].rows =
       {d \in Mapped : metadata[d] # NoRow /\ metadata[d].synced
                       /\ metadata[d].restricted}]
  /\ UNCHANGED <<metadata, collection>>

GetCollections(p) ==
  /\ tagging[p].rows # {}
  /\ tagging' = [tagging EXCEPT ![p] =
       [rows |-> {}, read |-> collection,
        left |-> {d \in @.rows : collection[d] # NoRow}]]
  /\ UNCHANGED <<metadata, collection>>

\* mutant: the name is not looked at
NeedsTagAlways(c) == TRUE

NeedsTag(c) == c.tags = 0

WithTag(c) == [c EXCEPT !.tags = IF @ = 2 THEN 2 ELSE @ + 1]

\* A collection gone meanwhile answers with an error, and ends the pass.
UpdateCollection(p, d) ==
  /\ d \in tagging[p].left
  /\ collection' = IF NeedsTag(tagging[p].read[d])
       THEN [collection EXCEPT ![d] = WithTag(tagging[p].read[d])]
       ELSE collection
  /\ NeedsTag(tagging[p].read[d]) => collection[d] # NoRow
  /\ tagging' = [tagging EXCEPT ![p] =
       IF @.left = {d} THEN IdleTagger
       ELSE [tagging[p] EXCEPT !.left = @ \ {d}]]
  /\ UNCHANGED metadata

TaggingEnds(p) ==
  /\ tagging[p] # IdleTagger
  /\ tagging' = [tagging EXCEPT ![p] = IdleTagger]
  /\ UNCHANGED <<metadata, collection>>

CollectionsNext ==
  \/ \E d \in Mapped :
       \/ MapRestricted(d)
       \/ MapOpen(d)
       \/ CompleteMapping(d)
       \/ RemoveMapped(d)
       \/ \E n \in Names, tags \in {0, 1} : RenameCollection(d, n, tags)
  \/ \E p \in Taggers :
       \/ GetAllMetadata(p)
       \/ GetCollections(p)
       \/ \E d \in Mapped : UpdateCollection(p, d)
       \/ TaggingEnds(p)

CollectionsSpec == CollectionsInit /\ [][CollectionsNext]_collectionsVars

\* Every variable has its type.
CollectionsTypeOK ==
  /\ \A d \in Mapped : metadata[d] = NoRow \/ metadata[d] \in MetadataRow
  /\ \A d \in Mapped : collection[d] = NoRow \/ collection[d] \in Collection
  /\ \A p \in Taggers :
       /\ tagging[p].rows \subseteq Mapped /\ tagging[p].left \subseteq Mapped
       /\ \A d \in Mapped : tagging[p].read[d] = NoRow \/
                            tagging[p].read[d] \in Collection

\* No collection's name ever carries the restricted tag twice, though two
\* leaders may tag at once, from names read before people renamed them.
TaggedOnce == \A d \in Mapped : collection[d] # NoRow => collection[d].tags < 2

=============================================================================
