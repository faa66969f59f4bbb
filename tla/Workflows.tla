------------------------------ MODULE Workflows ------------------------------
(***************************************************************************)
(* A matter's workflow (crm/workflows/services.py): a template's phases    *)
(* are applied, completed or skipped one after the other, each with a      *)
(* deadline in Work while it is in progress, and the workflow is removed.  *)
(* Requests of several members of staff run at once.                       *)
(***************************************************************************)
EXTENDS Naturals, FiniteSets

CONSTANTS
    Clerks,    \* requests that work on the matter's workflow
    Phases,    \* the template's phases are numbered 1..Phases
    Timed      \* those with a deadline

ASSUME WorkflowsAssumption ==
    /\ Clerks # {}
    /\ Phases \in Nat \ {0}
    /\ Timed \subseteq 1..Phases

VARIABLES
    applied,   \* the matter has a workflow
    finished,  \* and all its phases are over
    phase,     \* the status of each phase
    deadline,  \* each phase's work item
    clerk,     \* what each request is doing: step, and the phase or the items it read
    overlap    \* a workflow was removed while a phase was being finished

flowVars == <<applied, finished, phase, deadline, clerk, overlap>>

Numbers == 1..Phases
PhaseStatuses == {"absent", "not_started", "in_progress", "completed", "skipped"}
AtDesk == [step |-> "idle", on |-> 0, found |-> {}]

WorkflowsTypeOK ==
    /\ applied \in BOOLEAN /\ finished \in BOOLEAN
    /\ phase \in [Numbers -> PhaseStatuses]
    /\ deadline \in [Numbers -> {"none", "open", "done", "reopened"}]
    /\ clerk \in [Clerks -> [step : {"idle", "page", "locked", "removing", "removed"},
                             on : 0..Phases, found : SUBSET Numbers]]
    /\ overlap \in BOOLEAN

----------------------------------------------------------------------------
\* A phase's row is locked from select_for_update in finish_phase to its commit, and from
\* the deletion of its item (which clears the phase's field) to the removal's commit.
Locked(p) ==
    \E c \in Clerks : \/ clerk[c].step = "locked" /\ clerk[c].on = p
                      \/ clerk[c].step = "removed" /\ p \in clerk[c].found
WithDeadline(statuses) == {p \in Numbers : deadline[p] \in statuses}
Rests(c) == clerk' = [clerk EXCEPT ![c] = AtDesk]

\* start_phase
DeadlineOfStart(p) == IF p \in Timed THEN "open" ELSE "none"

\* apply_workflow: a matter has one workflow (the one-to-one row).
Apply(c) ==
    /\ clerk[c].step = "idle"
    /\ ~applied
    /\ applied' = TRUE
    /\ finished' = FALSE
    /\ phase' = [p \in Numbers |-> IF p = 1 THEN "in_progress" ELSE "not_started"]
    /\ deadline' = [p \in Numbers |-> IF p = 1 THEN DeadlineOfStart(1) ELSE "none"]
    /\ UNCHANGED <<clerk, overlap>>

\* The page shows a button for the phase in progress.
OpenPage(c, p) ==
    /\ clerk[c].step = "idle"
    /\ phase[p] = "in_progress"
    /\ clerk' = [clerk EXCEPT ![c] = [AtDesk EXCEPT !.step = "page", !.on = p]]
    /\ UNCHANGED <<applied, finished, phase, deadline, overlap>>

\* Slip: finish_phase believes the page.
LockPhaseOnly(c) ==
    LET p == clerk[c].on IN
    /\ clerk[c].step = "page"
    /\ ~Locked(p)
    /\ phase[p] # "absent"
    /\ clerk' = [clerk EXCEPT ![c].step = "locked"]
    /\ UNCHANGED <<applied, finished, phase, deadline, overlap>>

\* finish_phase locks the phase and looks at its status again ...
LockPhase(c) ==
    LET p == clerk[c].on IN
    /\ clerk[c].step = "page"
    /\ ~Locked(p)
    /\ phase[p] = "in_progress"
    /\ clerk' = [clerk EXCEPT ![c].step = "locked"]
    /\ UNCHANGED <<applied, finished, phase, deadline, overlap>>

\* The phase is not in progress any more, or gone.
RefuseFinish(c) ==
    /\ clerk[c].step = "page"
    /\ ~Locked(clerk[c].on)
    /\ phase[clerk[c].on] # "in_progress"
    /\ Rests(c)
    /\ UNCHANGED <<applied, finished, phase, deadline, overlap>>

Later(p) == {q \in Numbers : q > p /\ phase[q] = "not_started"}

\* ... completes it with its deadline, and starts the first of those not started.
FinishPhase(c, status) ==
    LET p == clerk[c].on
        q == CHOOSE n \in Later(p) : \A m \in Later(p) : n <= m
        closed == IF deadline[p] \in {"open", "reopened"} THEN "done" ELSE deadline[p]
    IN
    /\ clerk[c].step = "locked"
    /\ IF Later(p) = {}
       THEN /\ finished' = TRUE
            /\ phase' = [phase EXCEPT ![p] = status]
            /\ deadline' = [deadline EXCEPT ![p] = closed]
       ELSE /\ phase' = [phase EXCEPT ![p] = status, ![q] = "in_progress"]
            /\ deadline' = [deadline EXCEPT ![p] = closed, ![q] = DeadlineOfStart(q)]
            /\ UNCHANGED finished
    /\ overlap' = (overlap \/ \E d \in Clerks : clerk[d].step \in {"removing", "removed"})
    /\ Rests(c)
    /\ UNCHANGED applied

----------------------------------------------------------------------------
\* remove_workflow: finds the open deadlines, deletes them, then the rows.

FindDeadlines(c) ==
    /\ clerk[c].step = "idle"
    /\ applied
    /\ clerk' = [clerk EXCEPT ![c] =
                   [AtDesk EXCEPT !.step = "removing",
                                  !.found = WithDeadline({"open", "reopened"})]]
    /\ UNCHANGED <<applied, finished, phase, deadline, overlap>>

\* Deleting an item clears its phase's field, so it waits for a lock on the phase.
DeleteDeadlines(c) ==
    /\ clerk[c].step = "removing"
    /\ \A p \in clerk[c].found : ~Locked(p)
    /\ deadline' = [p \in Numbers |-> IF p \in clerk[c].found THEN "none" ELSE deadline[p]]
    /\ clerk' = [clerk EXCEPT ![c].step = "removed"]
    /\ UNCHANGED <<applied, finished, phase, overlap>>

\* The rows go by their keys: what other requests still hold of this workflow (a page, a
\* removal of their own) finds nothing any more, even when another one is applied.
DeleteWorkflow(c) ==
    /\ clerk[c].step = "removed"
    /\ \A d \in Clerks \ {c} :
          clerk[d].step # "locked" /\ (clerk[d].step = "removed" => clerk[d].found = {})
    /\ applied' = FALSE
    /\ finished' = FALSE
    /\ phase' = [p \in Numbers |-> "absent"]
    /\ clerk' = [d \in Clerks |-> AtDesk]
    /\ UNCHANGED <<deadline, overlap>>

----------------------------------------------------------------------------
\* Staff complete a deadline in Work, open it again, or delete it.
SetDeadline(p, state) ==
    /\ deadline[p] # "none"
    /\ ~Locked(p)
    /\ state = "reopened" => deadline[p] = "done"
    /\ state = "done" => deadline[p] \in {"open", "reopened"}
    /\ deadline' = [deadline EXCEPT ![p] = state]
    /\ UNCHANGED <<applied, finished, phase, clerk, overlap>>

ClosePage(c) ==
    /\ clerk[c].step = "page"
    /\ Rests(c)
    /\ UNCHANGED <<applied, finished, phase, deadline, overlap>>

----------------------------------------------------------------------------
WorkflowsInit ==
    /\ applied = FALSE /\ finished = FALSE
    /\ phase = [p \in Numbers |-> "absent"]
    /\ deadline = [p \in Numbers |-> "none"]
    /\ clerk = [c \in Clerks |-> AtDesk]
    /\ overlap = FALSE

WorkflowsNext ==
    \/ \E c \in Clerks :
          \/ Apply(c) \/ ClosePage(c)
          \/ \E p \in Numbers : OpenPage(c, p)
          \/ LockPhase(c) \/ RefuseFinish(c)
          \/ \E status \in {"completed", "skipped"} : FinishPhase(c, status)
          \/ FindDeadlines(c) \/ DeleteDeadlines(c) \/ DeleteWorkflow(c)
    \/ \E p \in Numbers, state \in {"none", "done", "reopened"} : SetDeadline(p, state)

WorkflowsSpec == WorkflowsInit /\ [][WorkflowsNext]_flowVars

----------------------------------------------------------------------------
\* A matter's workflow has exactly one phase in progress until it is finished; those
\* before it are over and those after it have not started, however many requests finish
\* phases at once (finish_phase's lock and second look).
OnePhaseInOrder ==
    applied /\ ~finished =>
        \E p \in Numbers :
            /\ phase[p] = "in_progress"
            /\ \A q \in Numbers :
                  /\ q < p => phase[q] \in {"completed", "skipped"}
                  /\ q > p => phase[q] = "not_started"

\* A deadline that a workflow put in Work is open only while its phase is in progress:
\* finishing a phase completes it and removing the workflow deletes it, unless the
\* workflow was removed while the phase before was being finished.
DeadlineOfPhase ==
    overlap \/ \A p \in Numbers :
        deadline[p] = "open" =>
            phase[p] = "in_progress"

\* A workflow goes through its phases, and its deadlines through theirs (services.py).
WorkflowInOrder == OnePhaseInOrder /\ DeadlineOfPhase
=============================================================================
