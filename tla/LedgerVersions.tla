--------------------------- MODULE LedgerVersions ---------------------------
(***************************************************************************)
(* What the Excel synchronisation promises, without its requests and       *)
(* tables: a workbook is reviewed against one edition of the ledger, and   *)
(* is either applied to that very edition, in one step and with the result *)
(* that was reviewed, or not at all.                                       *)
(***************************************************************************)
EXTENDS Naturals

CONSTANTS
    Workbooks,   \* uploaded workbooks
    Unreviewed   \* a workbook that is not, or no longer, up for application

VARIABLES
    content,     \* what the current ledger says
    edition,     \* names the state of the ledger
    reviewed,    \* the edition and the result that each workbook was reviewed with
    applied      \* workbooks that have been applied

Init ==
    /\ edition = 1
    /\ reviewed = [w \in Workbooks |-> Unreviewed]
    /\ applied = {}

\* Somebody else's change of the ledger: never without a new edition.
Change == edition' > edition /\ UNCHANGED <<reviewed, applied>>

\* The review finds what applying the workbook would make of this edition.
Review(w) ==
    /\ reviewed[w] = Unreviewed /\ w \notin applied
    /\ reviewed'[w] # Unreviewed /\ reviewed'[w].edition = edition
    /\ \A v \in Workbooks \ {w} : reviewed'[v] = reviewed[v]
    /\ UNCHANGED <<content, edition, applied>>

Discard(w) ==
    /\ reviewed[w] # Unreviewed /\ w \notin applied
    /\ reviewed' = [reviewed EXCEPT ![w] = Unreviewed]
    /\ UNCHANGED <<content, edition, applied>>

Apply(w) ==
    /\ reviewed[w] # Unreviewed /\ w \notin applied
    /\ edition = reviewed[w].edition
    /\ content' = reviewed[w].result
    /\ edition' > edition
    /\ applied' = applied \cup {w}
    /\ UNCHANGED reviewed

Next == Change \/ \E w \in Workbooks : Review(w) \/ Discard(w) \/ Apply(w)

vars == <<content, edition, reviewed, applied>>
Spec == Init /\ [][Next]_vars
=============================================================================
