-------------------------------- MODULE Ranks --------------------------------
(***************************************************************************)
(* Rows whose place is computed from the rows there are, of one user: the  *)
(* sort_order of chat folders (modules/folders), and which of the linked   *)
(* UPI accounts is the primary one (modules/wallet).  Neither computation  *)
(* locks anything, and no index compares its results.                      *)
(***************************************************************************)
EXTENDS Handlers, FiniteSetsExt

CONSTANTS
    Upis,         \* upi_id of UPI accounts
    Filed,        \* chats that can be put into folders
    MaxFolders    \* bound: folders made

ASSUME RanksAssumption == MaxFolders \in Nat

VARIABLES
    folders,      \* chat_folders, in the order of their commits
    items,        \* chat_folder_items: <<folder, chat>>
    upi           \* upi_linked_accounts by upi_id

rankTables == <<folders, items, upi>>
rankVars == <<rankTables, handlers>>

RanksInit == folders = <<>> /\ items = {} /\ upi = [a \in Upis |-> "none"]

\* seen (history): the folders there had been when sort_order was computed.
Folder == [order : 0..MaxFolders, live : BOOLEAN, seen : 0..MaxFolders]

Live == {i \in DOMAIN folders : folders[i].live}
Linked == {a \in Upis : upi[a] # "none"}

\* A second primary account (history) is one whose INSERT met another's.
RanksTypeOK ==
    /\ folders \in Seq(Folder) /\ Len(folders) <= MaxFolders
    /\ items \subseteq Live \X Filed
    /\ upi \in [Upis -> {"none", "linked", "primary", "second"}]
    /\ \A p \in Procs :
          \/ pc[p] = "idle" /\ task[p] = NoTask
          \/ pc[p] = "folder" /\ task[p] \in [row : Folder, chats : SUBSET Filed]
          \/ pc[p] = "link" /\ task[p] \in [upi : Upis, first : BOOLEAN, met : BOOLEAN]

-----------------------------------------------------------------------------
Orders == {folders[i].order : i \in Live}

\* Variant with a fault: COUNT(*).
NextOrderCounted == Cardinality(Live)

\* COALESCE(MAX(sort_order), -1) + 1.
NextOrder == IF Live = {} THEN 0 ELSE Max(Orders) + 1

(* POST /folders: BEGIN, and the SELECT of MAX(sort_order). *)
BeginFolder(p, chats) ==
    /\ pc[p] = "idle"
    /\ Len(folders) + Cardinality(Running({"folder"})) < MaxFolders
    /\ At(p, "folder", [row |-> [order |-> NextOrder, live |-> TRUE, seen |-> Len(folders)],
                        chats |-> chats])
    /\ UNCHANGED rankTables

(* The INSERTs of the folder and of its chats, and COMMIT. *)
CommitFolder(p) ==
    /\ pc[p] = "folder"
    /\ folders' = Append(folders, task[p].row)
    /\ items' = items \cup ({Len(folders')} \X task[p].chats)
    /\ Answer(p)
    /\ UNCHANGED upi

(* PATCH /folders/:id: name, icon and filters. *)
UpdateFolder(i) == i \in Live /\ UNCHANGED rankVars

(* DELETE /folders/:id; its items go with it (ON DELETE CASCADE). *)
DeleteFolder(i) ==
    /\ i \in Live
    /\ folders' = [folders EXCEPT ![i].live = FALSE]
    /\ items' = {x \in items : x[1] # i}
    /\ UNCHANGED <<upi, pc, task>>

(* POST and DELETE /folders/:id/chats/:chatId; the foreign key refuses a   *)
(* folder that is gone.                                                    *)
FileChat(i, c) ==
    /\ i \in Live
    /\ items' = items \cup {<<i, c>>}
    /\ UNCHANGED <<folders, upi, pc, task>>

UnfileChat(i, c) ==
    /\ items' = items \ {<<i, c>>}
    /\ UNCHANGED <<folders, upi, pc, task>>

-----------------------------------------------------------------------------
(* linkUpiAccount: one INSERT, whose subquery counts the accounts in the   *)
(* snapshot the statement begins with.                                     *)
BeginLink(p, a) ==
    /\ pc[p] = "idle"
    /\ At(p, "link", [upi |-> a, first |-> Linked = {}, met |-> FALSE])
    /\ UNCHANGED rankTables

\* History: every other INSERT under way has met one that ended.
Met(p) ==
    task' = [q \in Procs |->
               IF q = p THEN NoTask ELSE
               IF pc[q] = "link" THEN [task[q] EXCEPT !.met = TRUE] ELSE task[q]]

(* It inserts; ON CONFLICT the provider is updated, and nothing else. *)
EndLink(p) ==
    /\ pc[p] = "link"
    /\ LET t == task[p]
           rank == IF ~ t.first THEN "linked" ELSE IF t.met THEN "second" ELSE "primary"
       IN upi' = [upi EXCEPT ![t.upi] = IF @ = "none" THEN rank ELSE @]
    /\ pc' = [pc EXCEPT ![p] = "idle"] /\ Met(p)
    /\ UNCHANGED <<folders, items>>

(* DELETE /wallet/upi/:id: unlinkUpiAccount.  No other one becomes primary. *)
UnlinkUpi(a) ==
    /\ a \in Linked
    /\ upi' = [upi EXCEPT ![a] = "none"]
    /\ UNCHANGED <<folders, items, pc, task>>

-----------------------------------------------------------------------------
(* A statement fails: ROLLBACK of the folder, next(err). *)
RankFails(p) == Fails(p) /\ UNCHANGED rankTables
RanksRestart == Restarts /\ UNCHANGED rankTables

RanksNext ==
    \/ Works /\ \/ \E p \in Procs : \/ \E chats \in SUBSET Filed : BeginFolder(p, chats)
                                    \/ \E a \in Upis : BeginLink(p, a)
                                    \/ CommitFolder(p) \/ EndLink(p)
                \/ \E i \in Live : \/ UpdateFolder(i) \/ DeleteFolder(i)
                                   \/ \E c \in Filed : FileChat(i, c) \/ UnfileChat(i, c)
                \/ \E a \in Upis : UnlinkUpi(a)
    \/ RanksRestart \/ \E p \in Procs : RankFails(p)

-----------------------------------------------------------------------------
(* A folder comes after all the folders that were there when it was made,  *)
(* whatever was deleted since, and at most one account is the primary one: *)
(* only creations that overlap can tie, whatever fails or is removed in    *)
(* between.                                                                *)
RanksAreApart ==
    /\ \A i, j \in Live : i <= folders[j].seen => folders[i].order < folders[j].order
    /\ Cardinality({a \in Upis : upi[a] = "primary"}) <= 1

=============================================================================
