----------------------------- MODULE Marketplace -----------------------------
(***************************************************************************)
(* One marketplace item with an artefact in the object store, a tenant's   *)
(* subscription to it, and the IDE extension that pulls subscribed items   *)
(* into a workspace.  The row and the artefact are written by separate     *)
(* calls, and an editor saves the whole row it read.                       *)
(***************************************************************************)
EXTENDS Naturals

CONSTANTS
  Editors,   \* calls of an administrator under way: create, update, delete
  MaxEdits,  \* bound of the model: calls made
  Artefacts, \* names of uploaded files, part of the object key
  NoItem,
  NoFile

ASSUME MarketConstants == MaxEdits \in Nat

VARIABLES
  mItem,        \* the row: whether it is published, and the key in its payload
  edits,        \* calls made; the first creates the item
  objects,      \* keys in the object store
  editing,      \* per call: its next step, the row it will save and the artefact it brings
  subscription, \* of the tenant
  syncing,      \* the extension's sync under way, if any: the key the manifest had
  workspace,    \* the artefact unpacked under .cursor/
  editRaced,    \* history: edits overlapped
  editFailed    \* history: a call failed between its steps

marketVars == <<mItem, edits, objects, editing, subscription, syncing, workspace, editRaced,
                editFailed>>

ItemRow == [published : BOOLEAN, key : Artefacts]
Resting == [does |-> "nothing"]

MarketTypeOK ==
  /\ mItem \in ItemRow \cup {NoItem}
  /\ edits \in 0 .. MaxEdits /\ editRaced \in BOOLEAN /\ editFailed \in BOOLEAN
  /\ objects \subseteq Artefacts
  /\ \A e \in Editors : editing[e] = Resting \/ editing[e] \in
       [does : {"puts", "removes", "saves", "deletes"}, copy : ItemRow, brings : Artefacts \cup {NoFile}]
  /\ subscription \in {"none", "active", "revoked"}
  /\ syncing \in SUBSET (Artefacts \cup {NoFile})
  /\ workspace \in Artefacts \cup {NoFile}

MarketInit ==
  /\ mItem = NoItem /\ edits = 0
  /\ objects = {}
  /\ editing = [e \in Editors |-> Resting]
  /\ subscription = "none"
  /\ syncing = {}
  /\ workspace = NoFile
  /\ editRaced = FALSE /\ editFailed = FALSE

-----------------------------------------------------------------------------

EditGoes(e, step) == editing' = [editing EXCEPT ![e] = step]

Enters(e, step) ==
  /\ editing[e] = Resting
  /\ edits < MaxEdits
  /\ edits' = edits + 1
  /\ EditGoes(e, step)
  /\ editRaced' = (editRaced \/ \E o \in Editors \ {e} : editing[o] # Resting)
  /\ UNCHANGED <<subscription, syncing, workspace, editFailed>>

\* The artefact is uploaded before the row is written.
CreateMarketplaceItem(e) ==
  /\ edits = 0
  /\ \E f \in Artefacts, published \in BOOLEAN :
       /\ objects' = objects \cup {f}
       /\ Enters(e, [does |-> "saves", copy |-> [published |-> published, key |-> f],
                     brings |-> NoFile])
  /\ UNCHANGED mItem

\* With or without a file; the seed of the IDE extension at each start is an update with one.
UpdateMarketplaceItem(e) ==
  /\ mItem # NoItem
  /\ \E f \in Artefacts \cup {NoFile}, published \in BOOLEAN :
       Enters(e, [does |-> IF f = NoFile THEN "saves" ELSE "puts",
                  copy |-> [mItem EXCEPT !.published = published], brings |-> f])
  /\ UNCHANGED <<mItem, objects>>

\* The artefact is removed before the row is; that it could not be removed is ignored.
DeleteMarketplaceItem(e) ==
  /\ mItem # NoItem
  /\ Enters(e, [does |-> "deletes", copy |-> mItem, brings |-> NoFile])
  /\ objects' \in {objects, objects \ {mItem.key}}
  /\ UNCHANGED mItem

EditSteps(e, step) ==
  /\ editing[e].does = step
  /\ UNCHANGED <<edits, subscription, syncing, workspace, editRaced>>

PutArtefact(e) ==
  /\ EditSteps(e, "puts")
  /\ objects' = objects \cup {editing[e].brings}
  /\ EditGoes(e, [editing[e] EXCEPT !.does = "removes"])
  /\ UNCHANGED <<mItem, editFailed>>

Brought(e) ==
  [does |-> "saves", copy |-> [editing[e].copy EXCEPT !.key = editing[e].brings],
   brings |-> NoFile]

\* A slip: the old artefact is removed although the new one has its name.
RemoveReplacedAnyway(e) ==
  /\ EditSteps(e, "removes")
  /\ objects' \in {objects, objects \ {editing[e].copy.key}}
  /\ EditGoes(e, Brought(e))
  /\ UNCHANGED <<mItem, editFailed>>

RemoveReplaced(e) ==
  /\ EditSteps(e, "removes")
  /\ objects' \in {objects, objects \ ({editing[e].copy.key} \ {editing[e].brings})}
  /\ EditGoes(e, Brought(e))
  /\ UNCHANGED <<mItem, editFailed>>

\* Saving a row that is gone inserts it again.
SaveItem(e) ==
  /\ EditSteps(e, "saves")
  /\ mItem' = editing[e].copy
  /\ EditGoes(e, Resting)
  /\ UNCHANGED <<objects, editFailed>>

DeleteRow(e) ==
  /\ EditSteps(e, "deletes")
  /\ mItem' = NoItem
  /\ EditGoes(e, Resting)
  /\ UNCHANGED <<objects, editFailed>>

\* An upload that fails leaves everything as it was; after it, nothing is taken back.
EditFails(e) ==
  /\ editing[e] # Resting
  /\ EditGoes(e, Resting)
  /\ editFailed' = (editFailed \/ editing[e].does # "puts")
  /\ UNCHANGED <<mItem, edits, objects, subscription, syncing, workspace, editRaced>>

-----------------------------------------------------------------------------

\* Also from revoked; the unique key keeps a second row out.
SubscribeItem ==
  /\ mItem # NoItem
  /\ mItem.published
  /\ subscription # "active"
  /\ subscription' = "active"
  /\ UNCHANGED <<mItem, edits, objects, editing, syncing, workspace, editRaced, editFailed>>

UnsubscribeItem ==
  /\ subscription = "active"
  /\ subscription' = "revoked"
  /\ UNCHANGED <<mItem, edits, objects, editing, syncing, workspace, editRaced, editFailed>>

\* The manifest has every item with an active subscription, published or not.
FetchIdeSyncManifest ==
  /\ syncing = {}
  /\ syncing' = {IF subscription = "active" /\ mItem # NoItem THEN mItem.key ELSE NoFile}
  /\ UNCHANGED <<mItem, edits, objects, editing, subscription, workspace, editRaced, editFailed>>

\* The item is downloaded by the link in its payload, which is signed for seven days, and
\* unpacked; nothing is ever removed from the workspace.  An item that fails, this one or another,
\* stops the sync.
SyncWrites ==
  /\ syncing # {}
  /\ syncing' = {}
  /\ \/ \E key \in syncing \cap objects : workspace' = key
     \/ UNCHANGED workspace
  /\ UNCHANGED <<mItem, edits, objects, editing, subscription, editRaced, editFailed>>

MarketNext ==
  \/ \E e \in Editors :
       \/ CreateMarketplaceItem(e) \/ UpdateMarketplaceItem(e) \/ DeleteMarketplaceItem(e)
       \/ PutArtefact(e) \/ RemoveReplaced(e) \/ SaveItem(e) \/ DeleteRow(e) \/ EditFails(e)
  \/ SubscribeItem \/ UnsubscribeItem \/ FetchIdeSyncManifest \/ SyncWrites

MarketSpec == MarketInit /\ [][MarketNext]_marketVars

-----------------------------------------------------------------------------

\* Edits one at a time, none of them cut short, leave an item whose artefact is there to be
\* downloaded, whatever was replaced by what, also under the same name (service.go
\* UpdateMarketplaceItem, DeleteMarketplaceItem: object and row change in separate calls).
ArtefactKept ==
  ~editRaced /\ ~editFailed /\ (\A e \in Editors : editing[e] = Resting) /\ mItem # NoItem
    => mItem.key \in objects

=============================================================================
