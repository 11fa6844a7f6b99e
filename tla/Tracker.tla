------------------------------- MODULE Tracker -------------------------------
(***************************************************************************)
(* The administrators' tracker: work items under parent items, and the     *)
(* updates written about them. Saving an item locks its own row, refuses a *)
(* parent found below the item, and updates the row; the foreign key on    *)
(* parent_work_item_id then asks for a key share lock of the parent's row, *)
(* and waits while another save holds that row FOR UPDATE.                 *)
(***************************************************************************)
EXTENDS Naturals, FiniteSets

CONSTANTS
    Savers,       \* saves of existing items at the same time
    MaxItems,     \* bound: items ever created; none is ever deleted
    MaxUpdates    \* bound: updates ever written

ASSUME TrackerAssumption == MaxItems \in Nat /\ MaxUpdates \in Nat

VARIABLES
    itemCount,      \* items are numbered from 1 as they are created
    parentOf,       \* parent_work_item_id, or NoItem
    archivedItem,   \* the items with is_archived
    updateItem,     \* work_item_id of every update
    saving          \* the open transaction of each save

tracker == <<itemCount, parentOf, archivedItem, updateItem, saving>>

NoItem == 0
Items == 1..itemCount
\* Title, state, level, pillars, status, assignee and origin of an item are data
\* that no operation decides anything by.
Save == [item : 1..MaxItems, parent : 0..MaxItems, checked : BOOLEAN]
NoSave == [item |-> NoItem, parent |-> NoItem, checked |-> FALSE]

\* Items, parents and open saves are rows that exist.
TrackerTypeOK ==
    /\ itemCount \in 0..MaxItems
    /\ parentOf \in [Items -> Items \cup {NoItem}]
    /\ archivedItem \subseteq Items
    /\ \E n \in 0..MaxUpdates : updateItem \in [1..n -> Items]
    /\ \A s \in Savers : saving[s] # NoSave => saving[s] \in Save /\ saving[s].item \in Items

TrackerInit ==
    /\ itemCount = 0
    /\ parentOf = [i \in {} |-> NoItem]
    /\ archivedItem = {}
    /\ updateItem = [u \in {} |-> NoItem]
    /\ saving = [s \in Savers |-> NoSave]

\* The row is held FOR UPDATE: other locks of it, key share locks included, wait.
RowLocked(i) == \E s \in Savers : saving[s] # NoSave /\ saving[s].item = i
RowLockedByOther(s, i) == \E o \in Savers \ {s} : saving[o] # NoSave /\ saving[o].item = i

Children(is) == {j \in Items : parentOf[j] \in is}
\* The rows of the WITH RECURSIVE query: what is below i in the stored tree.
Descendants(i) ==
    LET below[n \in Nat] == IF n = 0 THEN Children({i}) ELSE below[n - 1] \cup Children(below[n - 1])
    IN  below[itemCount]
\* UNION ALL keeps duplicates: below a cycle it never stops producing rows.
Terminates(i) == \A j \in Descendants(i) : j \notin Descendants(j)

-----------------------------------------------------------------------------
(* Saving a work item                                                       *)

\* The parent must exist; the foreign key waits for it like any other lock.
CreateItem(parent) ==
    /\ itemCount < MaxItems
    /\ parent \in Items \cup {NoItem} /\ ~RowLocked(parent)
    /\ itemCount' = itemCount + 1
    /\ parentOf' = [i \in 1..(itemCount + 1) |-> IF i \in Items THEN parentOf[i] ELSE parent]
    /\ UNCHANGED <<archivedItem, updateItem, saving>>

\* Not its own parent, the parent exists, and the item's row FOR UPDATE.
LockItem(s, i, parent) ==
    /\ saving[s] = NoSave
    /\ i \in Items /\ parent \in Items \cup {NoItem} /\ parent # i
    /\ ~RowLocked(i)
    /\ saving' = [saving EXCEPT ![s] = [item |-> i, parent |-> parent, checked |-> FALSE]]
    /\ UNCHANGED <<itemCount, parentOf, archivedItem, updateItem>>

\* The descendants query reads what is committed; a parent among them is refused.
CheckParent(s) ==
    LET save == saving[s] IN
    /\ save # NoSave /\ ~save.checked
    /\ save.parent # NoItem => save.parent \in Descendants(save.item) \/ Terminates(save.item)
    /\ saving' = [saving EXCEPT ![s] =
          IF save.parent # NoItem /\ save.parent \in Descendants(save.item)
          THEN NoSave
          ELSE [save EXCEPT !.checked = TRUE]]
    /\ UNCHANGED <<itemCount, parentOf, archivedItem, updateItem>>

Bug_NoKeyShare(s) == FALSE

\* A parent that changes is locked FOR KEY SHARE: whoever holds it is waited for.
WaitsForParent(s) ==
    LET save == saving[s] IN
    /\ save # NoSave /\ save.checked
    /\ save.parent \notin {NoItem, parentOf[save.item]}
    /\ RowLockedByOther(s, save.parent)

\* UPDATE and commit.
SaveItem(s) ==
    LET save == saving[s] IN
    /\ save # NoSave /\ save.checked /\ ~WaitsForParent(s)
    /\ parentOf' = [parentOf EXCEPT ![save.item] = save.parent]
    /\ saving' = [saving EXCEPT ![s] = NoSave]
    /\ UNCHANGED <<itemCount, archivedItem, updateItem>>

\* Two saves wait for each other's row, or the database is lost: nothing is saved.
SaveRollsBack(s) ==
    /\ saving[s] # NoSave
    /\ saving' = [saving EXCEPT ![s] = NoSave]
    /\ UNCHANGED <<itemCount, parentOf, archivedItem, updateItem>>

-----------------------------------------------------------------------------
(* Archiving, and updates. Each transaction locks the item's row first and  *)
(* waits for nothing after it but the row of the update it moves.           *)

ArchiveItem(i, archived) ==
    /\ i \in Items /\ ~RowLocked(i)
    /\ archivedItem' = IF archived THEN archivedItem \cup {i} ELSE archivedItem \ {i}
    /\ UNCHANGED <<itemCount, parentOf, updateItem, saving>>

CreateUpdate(i) ==
    LET n == Cardinality(DOMAIN updateItem) + 1 IN
    /\ n <= MaxUpdates
    /\ i \in Items /\ ~RowLocked(i)
    /\ updateItem' = [u \in 1..n |-> IF u = n THEN i ELSE updateItem[u]]
    /\ UNCHANGED <<itemCount, parentOf, archivedItem, saving>>

\* An update may be saved under another item.
SaveUpdate(u, i) ==
    /\ u \in DOMAIN updateItem
    /\ i \in Items /\ ~RowLocked(i)
    /\ updateItem' = [updateItem EXCEPT ![u] = i]
    /\ UNCHANGED <<itemCount, parentOf, archivedItem, saving>>

TrackerNext ==
    \/ \E parent \in Items \cup {NoItem} : CreateItem(parent)
    \/ \E s \in Savers :
          \/ \E i \in Items, parent \in Items \cup {NoItem} : LockItem(s, i, parent)
          \/ CheckParent(s) \/ SaveItem(s) \/ SaveRollsBack(s)
    \/ \E i \in Items :
          \/ \E archived \in BOOLEAN : ArchiveItem(i, archived)
          \/ CreateUpdate(i)
          \/ \E u \in DOMAIN updateItem : SaveUpdate(u, i)

TrackerSpec == TrackerInit /\ [][TrackerNext]_tracker

-----------------------------------------------------------------------------
(* Properties                                                               *)

\* No two items are each other's parent, however saves overlap. The descendants
\* query alone cannot see to that, two crossed saves each read a tree without the
\* other's parent; the foreign key does, because its key share lock waits for the
\* row the other save holds, and one of the two is rolled back
\* (save_dcx_admin_tracker_work_item.py).
ParentsAreNotMutual ==
    \A i \in Items : parentOf[i] # NoItem => parentOf[parentOf[i]] # i

\* "Rejects direct or nested parent cycles": no item is below itself. Does not
\* hold: a save that checks its parent before another one moves that parent under
\* a descendant closes a cycle of three items (save_dcx_admin_tracker_work_item.py).
NoItemIsItsOwnAncestor ==
    \A i \in Items : i \notin Descendants(i)
=============================================================================
