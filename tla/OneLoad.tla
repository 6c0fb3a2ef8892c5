------------------------------- MODULE OneLoad -------------------------------
(***************************************************************************)
(* What the load of a whole ledger promises, without its chunks, claims    *)
(* and cron runs: the ledger of the samples becomes the ledger of the      *)
(* workbook in one step, from the edition that the workbook was made for,  *)
(* or not at all; it may be reserved for the load for days before.         *)
(***************************************************************************)
EXTENDS Naturals

CONSTANTS
    BaseEdition,   \* the edition of the new installation
    Samples        \* its documents

VARIABLES
    rows,      \* what the workbook holds
    stage,     \* "ready", reserved ("applying"), "completed", "failed"
    shown,     \* rows of the workbook that the ledger shows
    samples,   \* sample documents that are left
    added,     \* documents that others have added
    edition    \* names the state of the ledger and of what it refers to

Init ==
    /\ rows # {} /\ stage = "ready" /\ shown = {}
    /\ samples = Samples /\ added = 0 /\ edition = BaseEdition

Open == stage \in {"ready", "applying"}

\* The ledger is reserved as the workbook knows it.
Reserve ==
    /\ stage = "ready" /\ edition = BaseEdition
    /\ stage' = "applying"
    /\ UNCHANGED <<rows, shown, samples, added, edition>>

\* The samples may go before the rows come, once nobody else can add to them, and
\* the categories of the rows may come.
Clear ==
    /\ stage = "applying" /\ samples # 0
    /\ samples' = 0
    /\ edition' >= edition
    /\ UNCHANGED <<rows, stage, shown, added>>

\* Every row at once, in place of the samples and of nothing else.
Load ==
    /\ Open /\ added = 0
    /\ stage = "ready" => edition = BaseEdition
    /\ stage' = "completed"
    /\ shown' = rows /\ samples' = 0
    /\ edition' > edition
    /\ UNCHANGED <<rows, added>>

GiveUp ==
    /\ Open
    /\ stage' = "failed"
    /\ UNCHANGED <<rows, shown, samples, added, edition>>

\* Anybody else's change, while the ledger is not reserved.
Write ==
    /\ stage # "applying"
    /\ added' = added + 1 /\ edition' = edition + 1
    /\ UNCHANGED <<rows, stage, shown, samples>>

Next == Reserve \/ Clear \/ Load \/ GiveUp \/ Write

vars == <<rows, stage, shown, samples, added, edition>>
Spec == Init /\ [][Next]_vars
=============================================================================
