---------------------------- MODULE DocumentSets ----------------------------
(***************************************************************************)
(* Sets of documents (domains/sets, handlers/setHandlers.js).              *)
(*                                                                         *)
(* A set is changed through its page.  The page brings back the row_version*)
(* that it showed; the handler reads the set, and every statement of the   *)
(* batch repeats the version and, except for locking, that the set is not  *)
(* locked.  Documents leave the ledger or are deleted without asking the   *)
(* sets that they are in.                                                  *)
(***************************************************************************)
EXTENDS Naturals, FiniteSets

CONSTANTS
    Sets,       \* ids of sets
    NoSet,      \* no set
    Names,      \* names of sets
    NoName,     \* the name of a set that does not exist
    Docs,       \* documents
    Users,      \* requests under way
    MaxChanges  \* bound: committed changes

ASSUME SetsAssumption ==
    /\ NoSet \notin Sets /\ NoName \notin Names /\ MaxChanges \in Nat

SetRow == [name : Names \cup {NoName}, version : Nat, locked : BOOLEAN, members : SUBSET Docs]
NoRow == [name |-> NoName, version |-> 0, locked |-> FALSE, members |-> {}]

VARIABLES
    set,      \* document_sets and document_set_items
    doc,      \* what became of each document
    changes,  \* committed changes so far
    pc,       \* what each request does next
    on,       \* the set that it works on
    shown     \* the set as its page showed it

tables == <<set, doc, changes>>
vars == <<set, doc, changes, pc, on, shown>>

Exists(s) == set[s].name # NoName
Current == {d \in Docs : doc[d] = "current"}
Free(n) == \A s \in Sets : set[s].name # n

Init ==
    /\ set = [s \in Sets |-> NoRow]
    /\ doc = [d \in Docs |-> "current"]
    /\ changes = 0
    /\ pc = [u \in Users |-> "idle"]
    /\ on = [u \in Users |-> NoSet]
    /\ shown = [u \in Users |-> NoRow]

Commit == changes < MaxChanges /\ changes' = changes + 1
Done(u) ==
    /\ pc' = [pc EXCEPT ![u] = "idle"]
    /\ on' = [on EXCEPT ![u] = NoSet]
    /\ shown' = [shown EXCEPT ![u] = NoRow]

-----------------------------------------------------------------------------
\* The row of a new set.
NewSet(n, D) == [name |-> n, version |-> 1, locked |-> FALSE, members |-> D]

\* upsertDocumentSet without an id; document_sets.name is unique.
CreateSet(u, s, n) ==
    /\ pc[u] = "idle" /\ ~Exists(s) /\ set[s].version = 0 /\ Free(n)
    /\ set' = [set EXCEPT ![s] = NewSet(n, {})]
    /\ Commit
    /\ UNCHANGED <<doc, pc, on, shown>>

\* GET /sets/:id: the set, and in a second query its documents.
OpenSet(u, s) ==
    /\ pc[u] = "idle" /\ Exists(s)
    /\ pc' = [pc EXCEPT ![u] = "open"]
    /\ on' = [on EXCEPT ![u] = s]
    /\ shown' = [shown EXCEPT ![u] = [set[s] EXCEPT !.members = {}]]
    /\ UNCHANGED tables

ReadMembers(u, s) ==
    /\ pc[u] = "open" /\ on[u] = s
    /\ pc' = [pc EXCEPT ![u] = "page"]
    /\ shown' = [shown EXCEPT ![u].members = set[s].members]
    /\ UNCHANGED <<tables, on>>

\* The POST handler reads the set: it is there, at that version, and not locked.
Submit(u, a, s) ==
    /\ pc[u] = "page" /\ on[u] = s
    /\ IF set[s].version = shown[u].version /\ Exists(s) /\ (a # "lock" => ~set[s].locked)
       THEN pc' = [pc EXCEPT ![u] = a] /\ UNCHANGED <<on, shown>>
       ELSE Done(u)
    /\ UNCHANGED tables

\* The guard of every statement of a batch that locks or clones, and of the others.
AtAnyVersion(u, s) == Exists(s)
AtVersion(u, s) == Exists(s) /\ set[s].version = shown[u].version
AtVersionUnlessLocked(u, s) == AtVersion(u, s) /\ ~set[s].locked

\* A batch writes the row, raising its version, or is aborted.
NextVersion(v) == v + 1
Write(u, s, guard, row) ==
    /\ IF guard
       THEN set' = [set EXCEPT ![s] = [row EXCEPT !.version = NextVersion(@)]] /\ Commit
       ELSE UNCHANGED <<set, changes>>
    /\ Done(u)
    /\ UNCHANGED doc

\* upsertDocumentSet with an id; it reads nothing beforehand.
Rename(u, s, n) ==
    /\ pc[u] = "page" /\ on[u] = s /\ (Free(n) \/ set[s].name = n)
    /\ Write(u, s, AtVersionUnlessLocked(u, s), [set[s] EXCEPT !.name = n])

\* addDocumentsToSet: those of the documents that are current and not members by then.
Addable(s, D) == (D \cap Current) \ set[s].members
Add(u, s, D) ==
    /\ pc[u] = "add" /\ on[u] = s
    /\ Write(u, s, AtVersionUnlessLocked(u, s) /\ Addable(s, D) # {},
             [set[s] EXCEPT !.members = @ \cup Addable(s, D)])

\* removeDocumentFromSet
Remove(u, s, d) ==
    /\ pc[u] = "remove" /\ on[u] = s
    /\ Write(u, s, AtVersionUnlessLocked(u, s) /\ d \in set[s].members,
             [set[s] EXCEPT !.members = @ \ {d}])

\* setDocumentSetLock: the page offers the other state.
Lock(u, s) ==
    /\ pc[u] = "lock" /\ on[u] = s
    /\ Write(u, s, AtVersion(u, s), [set[s] EXCEPT !.locked = ~@])

\* cloneDocumentSet: a locked set may be cloned.
SubmitClone(u, s) ==
    /\ pc[u] = "page" /\ on[u] = s
    /\ IF AtVersion(u, s)
       THEN pc' = [pc EXCEPT ![u] = "clone"] /\ UNCHANGED <<on, shown>>
       ELSE Done(u)
    /\ UNCHANGED tables

Clone(u, s, t, n) ==
    /\ pc[u] = "clone" /\ on[u] = s /\ ~Exists(t) /\ set[t].version = 0
    /\ IF AtVersion(u, s) /\ Free(n)
       THEN /\ set' = [set EXCEPT ![t] = NewSet(n, set[s].members)]
            /\ Commit
       ELSE UNCHANGED <<set, changes>>
    /\ Done(u)
    /\ UNCHANGED doc

\* deleteDocumentSet; the id is not used again.
Delete(u, s) ==
    /\ pc[u] = "delete" /\ on[u] = s
    /\ IF AtVersionUnlessLocked(u, s)
       THEN set' = [set EXCEPT ![s] = [NoRow EXCEPT !.version = set[s].version + 1]] /\ Commit
       ELSE UNCHANGED <<set, changes>>
    /\ Done(u)
    /\ UNCHANGED doc

-----------------------------------------------------------------------------
\* A workbook takes a document out of the ledger or back into it; the sets keep it.
SyncDocument(d) ==
    /\ doc[d] \in {"current", "excluded"}
    /\ doc' = [doc EXCEPT ![d] = IF @ = "current" THEN "excluded" ELSE "current"]
    /\ Commit
    /\ UNCHANGED <<set, pc, on, shown>>

\* permanentlyDeleteDocument: ON DELETE CASCADE takes the document out of all sets.
DeleteDocument(d) ==
    /\ doc[d] # "deleted"
    /\ doc' = [doc EXCEPT ![d] = "deleted"]
    /\ set' = [s \in Sets |-> [set[s] EXCEPT !.members = @ \ {d}]]
    /\ Commit
    /\ UNCHANGED <<pc, on, shown>>

RequestLost(u) == pc[u] # "idle" /\ Done(u) /\ UNCHANGED tables

Next ==
    \/ \E u \in Users, s \in Sets :
        \/ \E n \in Names : CreateSet(u, s, n) \/ Rename(u, s, n)
        \/ OpenSet(u, s) \/ ReadMembers(u, s)
        \/ \E a \in {"add", "remove", "lock", "delete"} : Submit(u, a, s)
        \/ \E D \in SUBSET Docs : Add(u, s, D)
        \/ \E d \in Docs : Remove(u, s, d)
        \/ Lock(u, s) \/ SubmitClone(u, s) \/ Delete(u, s)
        \/ \E t \in Sets, n \in Names : Clone(u, s, t, n)
    \/ \E u \in Users : RequestLost(u)
    \/ \E d \in Docs : SyncDocument(d) \/ DeleteDocument(d)

Spec == Init /\ [][Next]_vars

-----------------------------------------------------------------------------
(* Properties *)

States == {"idle", "open", "page", "add", "remove", "lock", "delete", "clone"}

\* Every variable stays within its type.
TypeOK ==
    /\ set \in [Sets -> SetRow]
    /\ doc \in [Docs -> {"current", "excluded", "deleted"}]
    /\ pc \in [Users -> States]
    /\ on \in [Users -> Sets \cup {NoSet}]
    /\ shown \in [Users -> SetRow]

\* While a set is locked nobody's request changes it, not even one that had seen it
\* unlocked: only unlocking does, and the deletion of a document.
LockedStays ==
    [][\A s \in Sets : set[s].locked /\ set'[s] # set[s] =>
        \/ set'[s] = [set[s] EXCEPT !.locked = FALSE, !.version = @ + 1]
        \/ set'[s] = [set[s] EXCEPT !.members = {d \in @ : doc'[d] # "deleted"}]]_vars

\* A clone has the documents that the page showed on which it was asked for, although
\* others add and remove documents meanwhile.
ClonedAsShown ==
    [][\A u \in Users, t \in Sets : pc[u] = "clone" /\ pc'[u] = "idle" /\ set'[t] # set[t] =>
        set'[t].members = {d \in shown[u].members : doc[d] # "deleted"}]_vars
=============================================================================
