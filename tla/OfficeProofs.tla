------------------------------ MODULE OfficeProofs -----------------------------
(***************************************************************************)
(* Proofs for the parts of the office that share no state: Workflows,      *)
(* Drafts, CaseFile, FrontDesk, ApiAccess, Notices and Imports, each under *)
(* its own specification, for every value of the constants.                *)
(***************************************************************************)
EXTENDS TLAPS, MCOffice, FiniteSetTheorems, SequenceTheorems

----------------------------------------------------------------------------
\* Workflows.  A phase that is locked is the one in progress, and whoever holds its lock is
\* alone; a removal under way has found every open deadline, unless a phase was finished
\* meanwhile.

Desks == [step : {"idle", "page", "locked", "removing", "removed"}, on : Numbers \cup {0},
          found : SUBSET Numbers]
Over == {"completed", "skipped"}
InProgress(p) ==
    /\ phase[p] = "in_progress"
    /\ \A q \in Numbers : (q < p => phase[q] \in Over) /\ (q > p => phase[q] = "not_started")

FlowTypes ==
    /\ applied \in BOOLEAN /\ finished \in BOOLEAN /\ overlap \in BOOLEAN
    /\ phase \in [Numbers -> PhaseStatuses]
    /\ deadline \in [Numbers -> {"none", "open", "done", "reopened"}]
    /\ clerk \in [Clerks -> Desks]

PhasesInOrder ==
    /\ ~applied => ~finished /\ \A p \in Numbers : phase[p] = "absent"
    /\ applied /\ finished => \A p \in Numbers : phase[p] \in Over
    /\ applied /\ ~finished => \E p \in Numbers : InProgress(p)

LocksHeld ==
    /\ \A c \in Clerks : clerk[c].step \in {"page", "locked"} => clerk[c].on \in Numbers
    /\ \A c \in Clerks : clerk[c].step = "locked" => phase[clerk[c].on] = "in_progress"
    /\ \A c, d \in Clerks : clerk[c].step = "locked" /\ clerk[d].step = "locked" => c = d

RemovalsKnow ==
    /\ \A c \in Clerks : clerk[c].step \in {"removing", "removed"} => applied
    /\ ~overlap => \A c \in Clerks, p \in Numbers : deadline[p] = "open" =>
          clerk[c].step # "removed" /\ (clerk[c].step = "removing" => p \in clerk[c].found)

FlowInv == FlowTypes /\ PhasesInOrder /\ LocksHeld /\ RemovalsKnow /\ DeadlineOfPhase

LEMMA FlowFacts ==
    /\ Numbers \subseteq Nat \ {0} /\ 1 \in Numbers
    /\ AtDesk \in Desks /\ AtDesk.step = "idle"
    /\ \A p \in Numbers : DeadlineOfStart(p) \in {"none", "open"}
    /\ \A m, n \in Numbers : m = n \/ m < n \/ m > n
    /\ \A m, n \in Numbers : m < n => m # n /\ ~(m > n)
    /\ \A m, n \in Numbers : m > n <=> n < m
    /\ \A l, m, n \in Numbers : l < m /\ m < n => l < n
    /\ \A m, n \in Numbers : m <= n <=> m < n \/ m = n
BY WorkflowsAssumption DEF Numbers, AtDesk, Desks, DeadlineOfStart

LEMMA FlowInvInit == WorkflowsInit => FlowInv
<1> SUFFICES ASSUME WorkflowsInit PROVE FlowInv
  OBVIOUS
<1>1. /\ phase \in [Numbers -> PhaseStatuses] /\ clerk \in [Clerks -> Desks]
      /\ deadline \in [Numbers -> {"none", "open", "done", "reopened"}]
      /\ \A p \in Numbers : phase[p] = "absent" /\ deadline[p] = "none"
      /\ \A c \in Clerks : clerk[c].step = "idle"
  BY FlowFacts DEF WorkflowsInit, PhaseStatuses
<1>2. applied \in BOOLEAN /\ finished \in BOOLEAN /\ overlap \in BOOLEAN /\ ~applied /\ ~finished
  BY DEF WorkflowsInit
<1>3. QED
  BY <1>1, <1>2 DEF FlowInv, FlowTypes, PhasesInOrder, LocksHeld, RemovalsKnow, DeadlineOfPhase

\* The phase in progress is the only one.
LEMMA OnePhase ==
    ASSUME FlowInv, NEW p \in Numbers, phase[p] = "in_progress"
    PROVE  applied /\ ~finished /\ InProgress(p)
<1>1. applied /\ ~finished
  BY DEF FlowInv, FlowTypes, PhasesInOrder, Over
<1>2. PICK q \in Numbers : InProgress(q)
  BY <1>1 DEF FlowInv, PhasesInOrder
<1>3. p = q
  BY <1>2, FlowFacts DEF InProgress, Over
<1>4. QED BY <1>1, <1>2, <1>3

\* A request goes on, and changes no phase and no deadline.
LEMMA ClerkMoves ==
    ASSUME FlowInv, NEW c \in Clerks, NEW r \in Desks, clerk' = [clerk EXCEPT ![c] = r],
           UNCHANGED <<applied, finished, phase, deadline, overlap>>,
           r.step \in {"page", "locked"} => r.on \in Numbers,
           r.step = "locked" => phase[r.on] = "in_progress" /\ \A d \in Clerks : clerk[d].step # "locked",
           r.step \in {"removing", "removed"} => applied,
           r.step = "removing" => \A p \in Numbers : deadline[p] = "open" => p \in r.found,
           r.step # "removed"
    PROVE  FlowInv'
<1>1. /\ clerk' \in [Clerks -> Desks] /\ clerk'[c] = r /\ \A d \in Clerks \ {c} : clerk'[d] = clerk[d]
  BY DEF FlowInv, FlowTypes
<1>2. FlowTypes' /\ DeadlineOfPhase'
  BY <1>1 DEF FlowInv, FlowTypes, DeadlineOfPhase
<1>3. PhasesInOrder'
  BY DEF FlowInv, PhasesInOrder, InProgress
<1>4. LocksHeld' /\ RemovalsKnow'
  BY <1>1 DEF FlowInv, LocksHeld, RemovalsKnow
<1>5. QED BY <1>2, <1>3, <1>4 DEF FlowInv

LEMMA ApplyStep == ASSUME FlowInv, NEW c \in Clerks, Apply(c) PROVE FlowInv'
<1>1. /\ ~applied /\ applied' = TRUE /\ finished' = FALSE /\ UNCHANGED <<clerk, overlap>>
      /\ phase' = [p \in Numbers |-> IF p = 1 THEN "in_progress" ELSE "not_started"]
      /\ deadline' = [p \in Numbers |-> IF p = 1 THEN DeadlineOfStart(1) ELSE "none"]
  BY DEF Apply
<1>2. /\ phase' \in [Numbers -> PhaseStatuses] /\ phase'[1] = "in_progress"
      /\ \A p \in Numbers \ {1} : phase'[p] = "not_started"
  BY <1>1, FlowFacts DEF PhaseStatuses
<1>3. /\ deadline' \in [Numbers -> {"none", "open", "done", "reopened"}]
      /\ \A p \in Numbers \ {1} : deadline'[p] = "none"
  BY <1>1, FlowFacts
<1>4. FlowTypes'
  BY <1>1, <1>2, <1>3 DEF FlowInv, FlowTypes
<1>5. PhasesInOrder'
  <2>1. InProgress(1)'
    BY <1>2, FlowFacts DEF InProgress
  <2>2. QED BY <1>1, <2>1, FlowFacts DEF PhasesInOrder
<1>6. \A d \in Clerks : clerk[d].step \notin {"locked", "removing", "removed"}
  BY <1>1, OnePhase DEF FlowInv, LocksHeld, RemovalsKnow
<1>7. LocksHeld' /\ RemovalsKnow'
  BY <1>1, <1>6 DEF FlowInv, LocksHeld, RemovalsKnow
<1>8. DeadlineOfPhase'
  BY <1>2, <1>3 DEF DeadlineOfPhase
<1>9. QED BY <1>4, <1>5, <1>7, <1>8 DEF FlowInv

\* The phase is over, and its deadline; the next one begins, if there is one.
LEMMA FinishPhaseStep ==
    ASSUME FlowInv, NEW c \in Clerks, NEW status \in Over, FinishPhase(c, status) PROVE FlowInv'
<1> DEFINE p == clerk[c].on
           q == CHOOSE n \in Later(p) : \A m \in Later(p) : n <= m
           closed == IF deadline[p] \in {"open", "reopened"} THEN "done" ELSE deadline[p]
<1>1. /\ clerk[c].step = "locked" /\ clerk' = [clerk EXCEPT ![c] = AtDesk] /\ applied' = applied
      /\ overlap' = (overlap \/ \E d \in Clerks : clerk[d].step \in {"removing", "removed"})
  BY DEF FinishPhase, Rests
<1>2. p \in Numbers /\ phase[p] = "in_progress" /\ applied /\ ~finished /\ InProgress(p)
  BY <1>1, OnePhase DEF FlowInv, LocksHeld
<1>3. Later(p) = {n \in Numbers : n > p}
  BY <1>2 DEF Later, InProgress
<1>4. /\ closed \in {"none", "done"}
      /\ \A n \in Numbers : deadline[n] \in {"none", "open", "done", "reopened"}
  BY <1>2 DEF FlowInv, FlowTypes
<1>5. overlap' \in BOOLEAN /\ (~overlap' => ~overlap /\ \A d \in Clerks : clerk[d].step \notin {"removing", "removed"})
  BY <1>1 DEF FlowInv, FlowTypes
<1>6. /\ clerk' \in [Clerks -> Desks] /\ clerk'[c] = AtDesk /\ \A d \in Clerks \ {c} : clerk'[d] = clerk[d]
  BY <1>1, FlowFacts DEF FlowInv, FlowTypes
<1>7. \A d \in Clerks : clerk'[d].step # "locked"
  BY <1>1, <1>6, FlowFacts DEF FlowInv, LocksHeld
<1>8. LocksHeld'
  BY <1>6, <1>7, FlowFacts DEF FlowInv, LocksHeld
<1>9. RemovalsKnow'
  BY <1>1, <1>5, <1>6, FlowFacts DEF FlowInv, RemovalsKnow
<1>10. ~overlap' => \A n \in Numbers \ {p} : deadline[n] # "open"
  <2>1. \A n \in Numbers \ {p} : n < p \/ n > p
    BY <1>2, FlowFacts
  <2>2. \A n \in Numbers \ {p} : phase[n] # "in_progress"
    BY <1>2, <2>1 DEF InProgress, Over
  <2>3. QED BY <1>5, <2>2 DEF FlowInv, DeadlineOfPhase
<1>11. CASE Later(p) = {}
  <2>1. /\ finished' = TRUE /\ phase' = [phase EXCEPT ![p] = status]
        /\ deadline' = [deadline EXCEPT ![p] = closed]
    BY <1>11 DEF FinishPhase
  <2> HIDE DEF p, closed
  <2>2. /\ phase' \in [Numbers -> PhaseStatuses] /\ phase'[p] = status
        /\ \A n \in Numbers \ {p} : phase'[n] = phase[n]
    BY <1>2, <2>1 DEF FlowInv, FlowTypes, PhaseStatuses, Over
  <2>3. /\ deadline' \in [Numbers -> {"none", "open", "done", "reopened"}] /\ deadline'[p] = closed
        /\ \A n \in Numbers \ {p} : deadline'[n] = deadline[n]
    BY <1>2, <1>4, <2>1 DEF FlowInv, FlowTypes
  <2>4. \A n \in Numbers : phase'[n] \in Over
    <3>1. \A n \in Numbers : n = p \/ n < p
      BY <1>2, <1>3, <1>11, FlowFacts
    <3>2. QED BY <1>2, <2>2, <3>1 DEF InProgress
  <2>5. FlowTypes' /\ PhasesInOrder'
    BY <1>1, <1>2, <1>5, <1>6, <2>1, <2>2, <2>3, <2>4 DEF FlowTypes, PhasesInOrder
  <2>6. DeadlineOfPhase'
    BY <1>4, <1>10, <2>3 DEF DeadlineOfPhase
  <2>7. QED BY <1>8, <1>9, <2>5, <2>6 DEF FlowInv
<1>12. CASE Later(p) # {}
  <2>1. /\ p + 1 \in Later(p) /\ \A m \in Later(p) : p + 1 <= m
    BY <1>2, <1>3, <1>12, WorkflowsAssumption DEF Numbers
  <2>2. q \in Later(p) /\ \A m \in Later(p) : q <= m
    BY <2>1
  <2>3. finished' = finished
    BY <1>12 DEF FinishPhase
  <2>4. /\ phase' = [phase EXCEPT ![p] = status, ![q] = "in_progress"]
        /\ deadline' = [deadline EXCEPT ![p] = closed, ![q] = DeadlineOfStart(q)]
    BY <1>12 DEF FinishPhase
  <2> HIDE DEF p, q, closed
  <2>5. q \in Numbers /\ q > p /\ \A n \in Numbers : n > p => q <= n
    BY <1>2, <1>3, <2>2
  <2>6. /\ phase' \in [Numbers -> PhaseStatuses] /\ phase'[p] = status /\ phase'[q] = "in_progress"
        /\ \A n \in Numbers \ {p, q} : phase'[n] = phase[n]
    BY <1>2, <2>4, <2>5, FlowFacts DEF FlowInv, FlowTypes, PhaseStatuses, Over
  <2>7. /\ deadline' \in [Numbers -> {"none", "open", "done", "reopened"}]
        /\ deadline'[p] = closed /\ \A n \in Numbers \ {p, q} : deadline'[n] = deadline[n]
    BY <1>2, <1>4, <2>4, <2>5, FlowFacts DEF FlowInv, FlowTypes
  <2>8. PICK k \in Numbers : k = q
    BY <2>5
  <2>9. InProgress(k)'
    <3>1. \A n \in Numbers : (n < q => n = p \/ (n < p /\ n # q)) /\ (n > q => n > p /\ n # q)
      BY <1>2, <2>5, FlowFacts
    <3>2. \A n \in Numbers : (n < p => phase[n] \in Over) /\ (n > p => phase[n] = "not_started")
      BY <1>2 DEF InProgress
    <3>3. p # q /\ \A n \in Numbers : (n < p => n # p) /\ (n > p => n # p)
      BY <1>2, <2>5, FlowFacts
    <3>4. QED BY <2>6, <2>8, <3>1, <3>2, <3>3 DEF InProgress
  <2>10. FlowTypes'
    BY <1>1, <1>5, <1>6, <2>3, <2>6, <2>7 DEF FlowInv, FlowTypes
  <2>11. PhasesInOrder'
    <3>1. applied' /\ ~finished' /\ Numbers' = Numbers
      BY <1>1, <1>2, <2>3
    <3>2. \E n \in Numbers : InProgress(n)'
      BY <2>9
    <3>3. QED BY <3>1, <3>2 DEF PhasesInOrder
  <2>12. DeadlineOfPhase'
    BY <1>4, <1>10, <2>6, <2>7 DEF DeadlineOfPhase
  <2>13. QED BY <1>8, <1>9, <2>10, <2>11, <2>12 DEF FlowInv
<1>13. QED BY <1>11, <1>12

LEMMA DeleteDeadlinesStep == ASSUME FlowInv, NEW c \in Clerks, DeleteDeadlines(c) PROVE FlowInv'
<1> DEFINE r == [clerk[c] EXCEPT !.step = "removed"]
<1>1. /\ clerk[c].step = "removing" /\ clerk' = [clerk EXCEPT ![c] = r]
      /\ deadline' = [p \in Numbers |-> IF p \in clerk[c].found THEN "none" ELSE deadline[p]]
      /\ UNCHANGED <<applied, finished, phase, overlap>>
  BY DEF DeleteDeadlines
<1>2. r \in Desks /\ r.step = "removed"
  BY DEF FlowInv, FlowTypes, Desks
<1> HIDE DEF r
<1>3. /\ clerk' \in [Clerks -> Desks] /\ clerk'[c] = r /\ \A d \in Clerks \ {c} : clerk'[d] = clerk[d]
  BY <1>1, <1>2 DEF FlowInv, FlowTypes
<1>4. /\ deadline' \in [Numbers -> {"none", "open", "done", "reopened"}]
      /\ \A p \in Numbers : deadline'[p] = "open" => deadline[p] = "open" /\ p \notin clerk[c].found
  BY <1>1 DEF FlowInv, FlowTypes
<1>5. FlowTypes' /\ DeadlineOfPhase'
  BY <1>1, <1>3, <1>4 DEF FlowInv, FlowTypes, DeadlineOfPhase
<1>6. PhasesInOrder'
  BY <1>1 DEF FlowInv, PhasesInOrder, InProgress
<1>7. LocksHeld'
  BY <1>1, <1>2, <1>3 DEF FlowInv, LocksHeld
<1>8. RemovalsKnow'
  BY <1>1, <1>2, <1>3, <1>4 DEF FlowInv, RemovalsKnow
<1>9. QED BY <1>5, <1>6, <1>7, <1>8 DEF FlowInv

LEMMA DeleteWorkflowStep == ASSUME FlowInv, NEW c \in Clerks, DeleteWorkflow(c) PROVE FlowInv'
<1>1. /\ clerk[c].step = "removed" /\ ~applied' /\ applied' \in BOOLEAN /\ ~finished' /\ finished' \in BOOLEAN
      /\ phase' = [p \in Numbers |-> "absent"] /\ clerk' = [d \in Clerks |-> AtDesk]
      /\ UNCHANGED <<deadline, overlap>>
  BY DEF DeleteWorkflow
<1>2. FlowTypes' /\ PhasesInOrder'
  BY <1>1, FlowFacts DEF FlowInv, FlowTypes, PhasesInOrder, PhaseStatuses
<1>3. LocksHeld' /\ RemovalsKnow'
  BY <1>1, FlowFacts DEF LocksHeld, RemovalsKnow
<1>4. DeadlineOfPhase'
  BY <1>1 DEF FlowInv, RemovalsKnow, DeadlineOfPhase
<1>5. QED BY <1>2, <1>3, <1>4 DEF FlowInv

LEMMA FlowInvStep == FlowInv /\ [WorkflowsNext]_flowVars => FlowInv'
<1> SUFFICES ASSUME FlowInv, [WorkflowsNext]_flowVars PROVE FlowInv'
  OBVIOUS
<1>1. ASSUME NEW c \in Clerks, ClosePage(c) \/ RefuseFinish(c) PROVE FlowInv'
  BY <1>1, FlowFacts, ClerkMoves DEF ClosePage, RefuseFinish, Rests
<1>2. ASSUME NEW c \in Clerks, NEW p \in Numbers, OpenPage(c, p) PROVE FlowInv'
  <2> DEFINE r == [AtDesk EXCEPT !.step = "page", !.on = p]
  <2>1. r \in Desks /\ r.step = "page" /\ r.on \in Numbers
    BY FlowFacts DEF Desks
  <2>2. clerk' = [clerk EXCEPT ![c] = r] /\ UNCHANGED <<applied, finished, phase, deadline, overlap>>
    BY <1>2 DEF OpenPage
  <2> HIDE DEF r
  <2>3. QED BY <2>1, <2>2, ClerkMoves
<1>3. ASSUME NEW c \in Clerks, LockPhase(c) PROVE FlowInv'
  <2> DEFINE r == [clerk[c] EXCEPT !.step = "locked"]
             p == clerk[c].on
  <2>1. /\ clerk[c].step = "page" /\ ~Locked(p) /\ phase[p] = "in_progress"
        /\ clerk' = [clerk EXCEPT ![c] = r] /\ UNCHANGED <<applied, finished, phase, deadline, overlap>>
    BY <1>3 DEF LockPhase
  <2>2. p \in Numbers /\ r \in Desks /\ r.step = "locked" /\ r.on = p
    BY <2>1 DEF FlowInv, FlowTypes, LocksHeld, Desks
  <2>3. ASSUME NEW d \in Clerks, clerk[d].step = "locked" PROVE FALSE
    <3>1. clerk[d].on \in Numbers /\ phase[clerk[d].on] = "in_progress" /\ clerk[d].on # p
      BY <2>1, <2>3 DEF FlowInv, LocksHeld, Locked
    <3>2. QED BY <2>1, <2>2, <3>1, OnePhase, FlowFacts DEF InProgress, Over
  <2> HIDE DEF r
  <2>4. QED BY <2>1, <2>2, <2>3, ClerkMoves
<1>4. ASSUME NEW c \in Clerks, FindDeadlines(c) PROVE FlowInv'
  <2> DEFINE r == [AtDesk EXCEPT !.step = "removing", !.found = WithDeadline({"open", "reopened"})]
  <2>1. /\ r \in Desks /\ r.step = "removing"
        /\ \A p \in Numbers : deadline[p] = "open" => p \in r.found
    BY FlowFacts DEF Desks, WithDeadline
  <2>2. applied /\ clerk' = [clerk EXCEPT ![c] = r] /\ UNCHANGED <<applied, finished, phase, deadline, overlap>>
    BY <1>4 DEF FindDeadlines
  <2> HIDE DEF r
  <2>3. QED BY <2>1, <2>2, ClerkMoves
<1>5. ASSUME NEW p \in Numbers, NEW state \in {"none", "done", "reopened"}, SetDeadline(p, state)
      PROVE  FlowInv'
  <2>1. deadline' = [deadline EXCEPT ![p] = state] /\ UNCHANGED <<applied, finished, phase, clerk, overlap>>
    BY <1>5 DEF SetDeadline
  <2>2. /\ deadline' \in [Numbers -> {"none", "open", "done", "reopened"}]
        /\ \A q \in Numbers : deadline'[q] = "open" => deadline[q] = "open"
    BY <2>1 DEF FlowInv, FlowTypes
  <2>3. FlowTypes' /\ DeadlineOfPhase'
    BY <2>1, <2>2 DEF FlowInv, FlowTypes, DeadlineOfPhase
  <2>4. PhasesInOrder' /\ LocksHeld'
    BY <2>1 DEF FlowInv, PhasesInOrder, InProgress, LocksHeld
  <2>5. RemovalsKnow'
    BY <2>1, <2>2 DEF FlowInv, RemovalsKnow
  <2>6. QED BY <2>3, <2>4, <2>5 DEF FlowInv
<1>6. CASE UNCHANGED flowVars
  BY <1>6 DEF flowVars, FlowInv, FlowTypes, PhasesInOrder, InProgress, LocksHeld, RemovalsKnow, DeadlineOfPhase
<1>7. QED
  BY <1>1, <1>2, <1>3, <1>4, <1>5, <1>6, ApplyStep, FinishPhaseStep, DeleteDeadlinesStep,
     DeleteWorkflowStep DEF WorkflowsNext, Over

\* One phase is in progress until the workflow is finished, and an open deadline is that of
\* the phase in progress (finish_phase's lock and second look, remove_workflow).
THEOREM WorkflowKept == WorkflowsSpec => []WorkflowInOrder
<1>1. FlowInv => WorkflowInOrder
  BY DEF FlowInv, PhasesInOrder, InProgress, Over, WorkflowInOrder, OnePhaseInOrder
<1>2. QED BY <1>1, FlowInvInit, FlowInvStep, PTL DEF WorkflowsSpec

----------------------------------------------------------------------------
\* Invoices.  While no request saved over what had changed, only issued invoices have numbers,
\* each its own; a request that deletes an invoice read a draft.

Drawn == Nat
InvoiceRows == [status : {"none", "draft", "issued"}, number : Drawn, lines : SUBSET Lines]
BillerRows == [job : Jobs \cup {"idle", "settings"}, on : Invoices \cup {"none"},
               status : {"none", "draft", "issued"}, number : Drawn, line : Lines \cup {"none"}]
IssuedSet == {i \in Invoices : invoice[i].status = "issued"}

NumbersGiven ==
    /\ IsFiniteSet(IssuedSet) /\ Cardinality(IssuedSet) = sequence
    /\ \A i \in Invoices : invoice[i].status # "issued" => invoice[i].number = 0
    /\ {invoice[i].number : i \in IssuedSet} = 1..sequence

DraftsInv ==
    /\ invoice \in [Invoices -> InvoiceRows] /\ biller \in [Billers -> BillerRows]
    /\ sequence \in Nat /\ stale \in BOOLEAN
    /\ \A r \in Billers :
          /\ biller[r].job \in Jobs => biller[r].on \in Invoices /\ biller[r].line \in Lines
          /\ biller[r].job = "line" => biller[r].line = "typed"
          /\ biller[r].job = "delete" => biller[r].status = "draft"
    /\ TimeBilledOnce
    /\ ~stale => NumbersGiven

LEMMA DraftRows ==
    /\ 0 \in Drawn /\ \A n : n \in Drawn <=> n \in Nat
    /\ NoInvoice \in InvoiceRows /\ NoInvoice.status = "none" /\ NoInvoice.number = 0 /\ NoInvoice.lines = {}
    /\ AtRest \in BillerRows /\ AtRest.job = "idle"
BY DEF Drawn, NoInvoice, InvoiceRows, AtRest, BillerRows, Lines

LEMMA DraftsInvInit == DraftsInit => DraftsInv
<1> SUFFICES ASSUME DraftsInit PROVE DraftsInv
  OBVIOUS
<1>1. /\ invoice \in [Invoices -> InvoiceRows] /\ \A i \in Invoices : invoice[i] = NoInvoice
      /\ biller \in [Billers -> BillerRows] /\ \A r \in Billers : biller[r].job = "idle"
      /\ sequence = 0 /\ stale \in BOOLEAN
  BY DraftRows DEF DraftsInit
<1>2. IssuedSet = {}
  BY <1>1, DraftRows DEF IssuedSet
<1>3. IsFiniteSet(IssuedSet) /\ Cardinality(IssuedSet) = 0
  BY <1>2, FS_EmptySet
<1>4. 1..0 = {}
  OBVIOUS
<1>5. NumbersGiven
  BY <1>1, <1>2, <1>3, <1>4, DraftRows DEF NumbersGiven
<1>6. TimeBilledOnce
  BY <1>1, DraftRows DEF TimeBilledOnce
<1>7. QED BY <1>1, <1>5, <1>6 DEF DraftsInv, Jobs

\* What an invoice's change leaves of the numbers: it gave none, or the next one.
LEMMA NumbersStay ==
    ASSUME DraftsInv, NumbersGiven, NEW i \in Invoices,
           invoice' \in [Invoices -> InvoiceRows],
           \A j \in Invoices \ {i} : invoice'[j] = invoice[j],
           invoice'[i].status = "issued" <=> invoice[i].status = "issued",
           invoice'[i].number = IF invoice[i].status = "issued" THEN invoice[i].number ELSE 0,
           sequence' = sequence
    PROVE  NumbersGiven'
<1>1. IssuedSet' = IssuedSet
  BY DEF IssuedSet
<1>2. \A j \in IssuedSet : invoice'[j].number = invoice[j].number
  BY DEF IssuedSet
<1>3. \A j \in Invoices : invoice'[j].status # "issued" => invoice'[j].number = 0
  BY DEF NumbersGiven
<1>4. {invoice'[j].number : j \in IssuedSet'} = {invoice[j].number : j \in IssuedSet}
  BY <1>1, <1>2
<1>5. QED BY <1>1, <1>3, <1>4 DEF NumbersGiven

LEMMA NumberNext ==
    ASSUME DraftsInv, NumbersGiven, NEW i \in Invoices,
           invoice' \in [Invoices -> InvoiceRows],
           \A j \in Invoices \ {i} : invoice'[j] = invoice[j],
           invoice[i].status # "issued", invoice'[i].status = "issued",
           invoice'[i].number = sequence + 1, sequence' = sequence + 1
    PROVE  NumbersGiven'
<1>1. IssuedSet' = IssuedSet \cup {i} /\ i \notin IssuedSet /\ sequence \in Nat
  BY DEF IssuedSet, DraftsInv
<1>2. IsFiniteSet(IssuedSet') /\ Cardinality(IssuedSet') = sequence'
  BY <1>1, FS_AddElement DEF NumbersGiven
<1>3. \A j \in Invoices : invoice'[j].status # "issued" => invoice'[j].number = 0
  BY DEF NumbersGiven
<1>4. \A j \in IssuedSet : invoice'[j].number = invoice[j].number
  BY <1>1 DEF IssuedSet
<1>5. {invoice'[j].number : j \in IssuedSet'} = {invoice[j].number : j \in IssuedSet} \cup {sequence + 1}
  BY <1>1, <1>4
<1>6. 1..sequence' = (1..sequence) \cup {sequence + 1}
  BY <1>1
<1>7. QED BY <1>2, <1>3, <1>5, <1>6 DEF NumbersGiven

\* A request has changed one invoice, or the sequence.
LEMMA BillerDone ==
    ASSUME DraftsInv, NEW r \in Billers, Done(r)
    PROVE  /\ biller' \in [Billers -> BillerRows]
           /\ \A q \in Billers :
                 /\ biller'[q].job \in Jobs => biller'[q].on \in Invoices /\ biller'[q].line \in Lines
                 /\ biller'[q].job = "line" => biller'[q].line = "typed"
                 /\ biller'[q].job = "delete" => biller'[q].status = "draft"
<1>1. /\ biller' \in [Billers -> BillerRows] /\ biller'[r] = AtRest
      /\ \A q \in Billers \ {r} : biller'[q] = biller[q]
  BY DraftRows DEF DraftsInv, Done
<1>2. QED BY <1>1, DraftRows DEF DraftsInv, Jobs

LEMMA LineStep == ASSUME DraftsInv, NEW r \in Billers, AddLine(r) \/ DropLine(r) PROVE DraftsInv'
<1> DEFINE i == biller[r].on
<1>1. i \in Invoices /\ biller[r].line \in Lines /\ invoice[i] \in InvoiceRows
  BY DEF AddLine, DropLine, DraftsInv, Jobs, BillerRows
<1>2. Done(r) /\ sequence' = sequence
  BY DEF AddLine, DropLine
<1>3. stale' \in BOOLEAN /\ (~stale' => ~stale)
  BY DEF AddLine, DropLine, DraftsInv
<1>4. PICK lines \in SUBSET Lines :
          /\ invoice' = [invoice EXCEPT ![i].lines = lines]
          /\ \A j \in Invoices \ {i} : lines \cap invoice[j].lines \subseteq {"typed"}
  <2>1. CASE AddLine(r)
    <3> DEFINE lines == invoice[i].lines \cup {biller[r].line}
    <3>1. invoice' = [invoice EXCEPT ![i].lines = lines]
      BY <1>1, <2>1 DEF AddLine, DraftsInv
    <3>2. biller[r].line \in Lines
      BY <1>1
    <3>3. biller[r].line = "typed" \/ \A j \in Invoices : biller[r].line \notin invoice[j].lines
      BY <2>1 DEF AddLine, Billed, DraftsInv
    <3>4. \A j \in Invoices \ {i} : lines \cap invoice[j].lines \subseteq {"typed"}
      BY <1>1, <3>3 DEF DraftsInv, TimeBilledOnce
    <3>5. lines \in SUBSET Lines
      BY <1>1, <3>2 DEF InvoiceRows
    <3>6. QED BY <3>1, <3>4, <3>5
  <2>2. CASE DropLine(r)
    <3> DEFINE lines == invoice[i].lines \ {biller[r].line}
    <3>1. invoice' = [invoice EXCEPT ![i].lines = lines]
      BY <1>1, <2>2 DEF DropLine, DraftsInv
    <3>2. lines \in SUBSET Lines /\ \A j \in Invoices \ {i} : lines \cap invoice[j].lines \subseteq {"typed"}
      BY <1>1 DEF InvoiceRows, DraftsInv, TimeBilledOnce
    <3>3. QED BY <3>1, <3>2
  <2>3. QED BY <2>1, <2>2
<1>5. /\ invoice' \in [Invoices -> InvoiceRows] /\ invoice'[i].lines = lines
      /\ invoice'[i].status = invoice[i].status /\ invoice'[i].number = invoice[i].number
      /\ \A j \in Invoices \ {i} : invoice'[j] = invoice[j]
  BY <1>1, <1>4 DEF DraftsInv, InvoiceRows
<1> HIDE DEF i
<1>6. TimeBilledOnce'
  BY <1>1, <1>4, <1>5 DEF DraftsInv, TimeBilledOnce
<1>7. ~stale' => NumbersGiven'
  <2>1. ~stale' => NumbersGiven
    BY <1>3 DEF DraftsInv
  <2>2. NumbersGiven => (invoice[i].status # "issued" => invoice[i].number = 0)
    BY <1>1 DEF NumbersGiven
  <2>3. PICK k \in Invoices : k = i
    BY <1>1
  <2>4. QED BY <1>1, <1>2, <1>5, <2>1, <2>2, <2>3, NumbersStay
<1>8. QED BY <1>2, <1>3, <1>5, <1>6, <1>7, BillerDone DEF DraftsInv

\* An invoice is saved or deleted, and keeps its lines or has none.
LEMMA SavedInvoice ==
    ASSUME DraftsInv, NEW r \in Billers, Done(r), NEW i \in Invoices, NEW entry \in InvoiceRows,
           invoice' = [invoice EXCEPT ![i] = entry], entry.lines \in {invoice[i].lines, {}},
           sequence' \in Nat, stale' \in BOOLEAN, ~stale' => ~stale,
           ~stale' =>
             \/ /\ sequence' = sequence /\ (entry.status = "issued" <=> invoice[i].status = "issued")
                /\ entry.number = IF invoice[i].status = "issued" THEN invoice[i].number ELSE 0
             \/ /\ sequence' = sequence + 1 /\ entry.number = sequence + 1
                /\ entry.status = "issued" /\ invoice[i].status # "issued"
    PROVE  DraftsInv'
<1>1. /\ invoice' \in [Invoices -> InvoiceRows] /\ invoice'[i] = entry
      /\ \A j \in Invoices \ {i} : invoice'[j] = invoice[j]
  BY DEF DraftsInv
<1>2. TimeBilledOnce'
  BY <1>1 DEF DraftsInv, TimeBilledOnce
<1>3. ~stale' => NumbersGiven'
  <2>1. ~stale' => NumbersGiven
    BY DEF DraftsInv
  <2>2. QED BY <1>1, <2>1, NumbersStay, NumberNext
<1>4. QED BY <1>1, <1>2, <1>3, BillerDone DEF DraftsInv

LEMMA IssueStep == ASSUME DraftsInv, NEW r \in Billers, IssueInvoice(r) PROVE DraftsInv'
<1> DEFINE i == biller[r].on
           entry == [invoice[i] EXCEPT !.status = "issued", !.number = sequence + 1]
<1>1. i \in Invoices /\ invoice[i] \in InvoiceRows /\ sequence \in Nat /\ sequence + 1 \in Drawn
  BY DraftRows DEF IssueInvoice, DraftsInv, Jobs
<1>2. /\ entry \in InvoiceRows /\ entry.status = "issued" /\ entry.number = sequence + 1
      /\ entry.lines = invoice[i].lines
  BY <1>1 DEF InvoiceRows
<1>3. /\ invoice[i].status = "draft" /\ sequence' = sequence + 1 /\ Done(r) /\ stale' = stale
      /\ invoice' = [invoice EXCEPT ![i] = entry]
  BY <1>1 DEF IssueInvoice, DraftsInv
<1> HIDE DEF entry, i
<1>4. stale' \in BOOLEAN /\ (~stale' => ~stale) /\ sequence' \in Nat
  BY <1>1, <1>3 DEF DraftsInv
<1>5. entry.lines \in {invoice[i].lines, {}} /\ invoice[i].status # "issued"
  BY <1>2, <1>3
<1>6. QED BY <1>1, <1>2, <1>3, <1>4, <1>5, SavedInvoice

LEMMA DeleteDraftStep == ASSUME DraftsInv, NEW r \in Billers, DeleteDraft(r) PROVE DraftsInv'
<1> DEFINE i == biller[r].on
<1>1. i \in Invoices /\ sequence \in Nat /\ biller[r].status = "draft"
  BY DEF DeleteDraft, DraftsInv, Jobs
<1>2. /\ invoice' = [invoice EXCEPT ![i] = NoInvoice] /\ sequence' = sequence /\ Done(r)
      /\ stale' \in BOOLEAN /\ (~stale' => ~stale /\ invoice[i].status = "draft")
  BY <1>1 DEF DeleteDraft, SeenAs, DraftsInv
<1> HIDE DEF i
<1>3. QED BY <1>1, <1>2, DraftRows, SavedInvoice

LEMMA SaveNotesStep == ASSUME DraftsInv, NEW r \in Billers, SaveNotes(r) PROVE DraftsInv'
<1> DEFINE i == biller[r].on
           entry == [invoice[i] EXCEPT !.status = biller[r].status, !.number = biller[r].number]
<1>1. i \in Invoices /\ invoice[i] \in InvoiceRows /\ sequence \in Nat /\ biller[r] \in BillerRows
  BY DEF SaveNotes, DraftsInv, Jobs
<1>2. /\ entry \in InvoiceRows /\ entry.status = biller[r].status /\ entry.number = biller[r].number
      /\ entry.lines = invoice[i].lines
  BY <1>1 DEF InvoiceRows, BillerRows
<1>3. /\ sequence' = sequence /\ Done(r) /\ invoice' = [invoice EXCEPT ![i] = entry]
      /\ stale' \in BOOLEAN /\ (~stale' => ~stale /\ SeenAs(r, i))
  BY <1>1 DEF SaveNotes, DraftsInv
<1>4. ~stale' => entry.status = invoice[i].status /\ entry.number = invoice[i].number
                 /\ (invoice[i].status # "issued" => invoice[i].number = 0)
  BY <1>1, <1>2, <1>3 DEF SeenAs, DraftsInv, NumbersGiven
<1> HIDE DEF entry, i
<1>5. QED BY <1>1, <1>2, <1>3, <1>4, SavedInvoice

\* A request begins, having read an invoice or the settings.
LEMMA DraftReadsStep ==
    ASSUME DraftsInv, NEW r \in Billers, NEW entry \in BillerRows, biller' = [biller EXCEPT ![r] = entry],
           entry.job \in Jobs => entry.on \in Invoices /\ entry.line \in Lines,
           entry.job = "line" => entry.line = "typed",
           entry.job = "delete" => entry.status = "draft",
           UNCHANGED <<invoice, sequence, stale>>
    PROVE  DraftsInv'
<1>1. biller' \in [Billers -> BillerRows] /\ biller'[r] = entry /\ \A q \in Billers \ {r} : biller'[q] = biller[q]
  BY DEF DraftsInv
<1>2. TimeBilledOnce' /\ (~stale' => NumbersGiven')
  BY DEF DraftsInv, TimeBilledOnce, NumbersGiven, IssuedSet
<1>3. QED BY <1>1, <1>2 DEF DraftsInv

LEMMA ReadInvoiceStep ==
    ASSUME DraftsInv, NEW r \in Billers, NEW job \in Jobs, NEW i \in Invoices, NEW l \in Lines,
           ReadInvoice(r, job, i, l)
    PROVE  DraftsInv'
<1> DEFINE entry == [job |-> job, on |-> i, line |-> l, status |-> invoice[i].status,
                   number |-> invoice[i].number]
<1>1. entry \in BillerRows /\ entry.job = job /\ entry.on = i /\ entry.line = l /\ entry.status = invoice[i].status
  BY DEF DraftsInv, InvoiceRows, BillerRows
<1>2. /\ biller' = [biller EXCEPT ![r] = entry] /\ UNCHANGED <<invoice, sequence, stale>>
      /\ job = "delete" => invoice[i].status = "draft"
  BY DEF ReadInvoice
<1>3. job = "line" => l = "typed"
  BY DEF ReadInvoice
<1> HIDE DEF entry
<1>4. QED BY <1>1, <1>2, <1>3, DraftReadsStep

LEMMA DraftSettingsStep == ASSUME DraftsInv, NEW r \in Billers, OpenSettings(r) \/ SaveSettings(r) PROVE DraftsInv'
<1>1. CASE OpenSettings(r)
  <2> DEFINE entry == [AtRest EXCEPT !.job = "settings", !.number = sequence]
  <2>1. entry \in BillerRows /\ entry.job = "settings"
    <3>1. sequence \in Drawn
      BY DraftRows DEF DraftsInv
    <3>2. QED BY <3>1, DraftRows DEF BillerRows
  <2>2. biller' = [biller EXCEPT ![r] = entry] /\ UNCHANGED <<invoice, sequence, stale>>
    BY <1>1 DEF OpenSettings
  <2> HIDE DEF entry
  <2>3. QED BY <2>1, <2>2, DraftReadsStep DEF Jobs
<1>2. CASE SaveSettings(r)
  <2>1. /\ sequence' \in Nat /\ stale' \in BOOLEAN /\ (~stale' => ~stale /\ sequence' = sequence)
        /\ invoice' = invoice /\ Done(r)
    BY <1>2, DraftRows DEF SaveSettings, DraftsInv, BillerRows
  <2>2. TimeBilledOnce' /\ (~stale' => NumbersGiven')
    BY <2>1 DEF DraftsInv, TimeBilledOnce, NumbersGiven, IssuedSet
  <2>3. QED BY <2>1, <2>2, BillerDone DEF DraftsInv
<1>3. QED BY <1>1, <1>2

LEMMA CreateDraftStep == ASSUME DraftsInv, NEW i \in Invoices, CreateDraft(i) PROVE DraftsInv'
<1>1. /\ invoice[i] = NoInvoice /\ UNCHANGED <<sequence, biller, stale>>
      /\ invoice' = [invoice EXCEPT ![i].status = "draft"]
  BY DEF CreateDraft
<1>2. /\ invoice' \in [Invoices -> InvoiceRows] /\ invoice'[i].status = "draft"
      /\ invoice'[i].lines = {} /\ invoice'[i].number = 0 /\ invoice[i].status = "none"
      /\ \A j \in Invoices \ {i} : invoice'[j] = invoice[j]
  BY <1>1, DraftRows DEF DraftsInv, InvoiceRows
<1>3. TimeBilledOnce'
  BY <1>2 DEF DraftsInv, TimeBilledOnce
<1>4. ~stale' => NumbersGiven'
  <2>1. ~stale' => NumbersGiven
    BY <1>1 DEF DraftsInv
  <2>2. QED BY <1>1, <1>2, <2>1, NumbersStay
<1>5. QED BY <1>1, <1>2, <1>3, <1>4 DEF DraftsInv

LEMMA DraftsInvStep == DraftsInv /\ [DraftsNext]_draftVars => DraftsInv'
<1> SUFFICES ASSUME DraftsInv, [DraftsNext]_draftVars PROVE DraftsInv'
  OBVIOUS
<1>1. ASSUME NEW r \in Billers, Refuse(r) PROVE DraftsInv'
  <2>1. Done(r) /\ UNCHANGED <<invoice, sequence, stale>>
    BY <1>1 DEF Refuse
  <2>2. TimeBilledOnce' /\ (~stale' => NumbersGiven')
    BY <2>1 DEF DraftsInv, TimeBilledOnce, NumbersGiven, IssuedSet
  <2>3. QED BY <2>1, <2>2, BillerDone DEF DraftsInv
<1>2. CASE UNCHANGED draftVars
  BY <1>2 DEF draftVars, DraftsInv, TimeBilledOnce, NumbersGiven, IssuedSet
<1>3. QED
  BY <1>1, <1>2, LineStep, IssueStep, DeleteDraftStep, SaveNotesStep, ReadInvoiceStep, DraftSettingsStep,
     CreateDraftStep DEF DraftsNext

\* Time is billed once, and numbers have no gap while no request saves over what changed
\* (add_time_to_invoice, issue_invoice, next_invoice_number).
THEOREM InvoicesKept == DraftsSpec => []InvoicesInOrder
<1>1. DraftsInv => InvoicesInOrder
  BY DEF DraftsInv, NumbersGiven, IssuedSet, InvoicesInOrder, GaplessNumbers
<1>2. QED BY <1>1, DraftsInvInit, DraftsInvStep, PTL DEF DraftsSpec

----------------------------------------------------------------------------
\* The record.  A request that does not name is_completed will save it as it read it.

WriterRows == [via : {"idle", "form", "post", "api", "tick"}, page : Records, row : Records,
               values : Records, names : SUBSET Fields]

FileInv ==
    /\ file \in Records /\ noted \in Statuses /\ retaken \in BOOLEAN
    /\ writer \in [Writers -> WriterRows]
    /\ \A w \in Writers :
          /\ writer[w].via = "tick" => "completed" \in writer[w].names
          /\ writer[w].via \in {"post", "api"} /\ "completed" \notin writer[w].names =>
                writer[w].values.completed = writer[w].row.completed
    /\ StatusNoted

LEMMA FileRows ==
    /\ Blank \in Records /\ Blank.status = "open"
    /\ Nothing \in WriterRows /\ Nothing.via = "idle"
<1>1. \E r \in Records : r.status = "open" /\ ~r.closed /\ ~r.completed
  <2>1. PICK text \in Texts : TRUE
    BY CaseFileAssumption
  <2> DEFINE r == [status |-> "open", closed |-> FALSE, title |-> text, completed |-> FALSE]
  <2>2. r \in Records /\ r.status = "open" /\ ~r.closed /\ ~r.completed
    BY DEF Records, Statuses
  <2> HIDE DEF r
  <2>3. QED BY <2>2
<1>2. Blank \in Records /\ Blank.status = "open"
  BY <1>1 DEF Blank
<1> HIDE DEF Blank
<1>3. Nothing \in WriterRows /\ Nothing.via = "idle"
  BY <1>2 DEF Nothing, WriterRows
<1>4. QED BY <1>2, <1>3

LEMMA FileInvInit == CaseFileInit => FileInv
BY FileRows DEF CaseFileInit, FileInv, StatusNoted, Statuses

\* What a request asks for is a record again, with the other columns as they were.
LEMMA ChangeKeeps ==
    ASSUME NEW r \in Records, NEW field \in Fields, NEW v \in Values(field)
    PROVE  /\ Change(r, field, v) \in Records
           /\ field # "completed" => Change(r, field, v).completed = r.completed
<1>1. CASE field = "status"
  <2>1. v \in Statuses /\ Change(r, field, v) = [r EXCEPT !.status = v]
    BY <1>1 DEF Change, Values
  <2>2. QED BY <1>1, <2>1 DEF Records
<1>2. CASE field = "title"
  <2>1. v \in Texts /\ Change(r, field, v) = [r EXCEPT !.title = v]
    BY <1>2 DEF Change, Values
  <2>2. QED BY <1>2, <2>1 DEF Records
<1>3. CASE field = "completed"
  <2>1. v \in BOOLEAN /\ Change(r, field, v) = [r EXCEPT !.completed = v]
    BY <1>3 DEF Change, Values
  <2>2. QED BY <1>3, <2>1 DEF Records
<1>4. QED BY <1>1, <1>2, <1>3 DEF Fields

\* A request goes on, and saves nothing.
LEMMA WriterMoves ==
    ASSUME FileInv, NEW w \in Writers, NEW r \in WriterRows, writer' = [writer EXCEPT ![w] = r],
           r.via = "tick" => "completed" \in r.names,
           r.via \in {"post", "api"} /\ "completed" \notin r.names =>
              r.values.completed = r.row.completed,
           UNCHANGED <<file, noted, retaken>>
    PROVE  FileInv'
BY DEF FileInv, StatusNoted

LEMMA PageOpensStep ==
    ASSUME FileInv, NEW w \in Writers, OpenForm(w) \/ LeavePage(w) PROVE FileInv'
<1>1. CASE OpenForm(w)
  <2> DEFINE r == [Nothing EXCEPT !.via = "form", !.page = file]
  <2>1. r \in WriterRows /\ r.via = "form"
    BY FileRows DEF WriterRows, FileInv
  <2>2. writer' = [writer EXCEPT ![w] = r] /\ UNCHANGED <<file, noted, retaken>>
    BY <1>1 DEF OpenForm
  <2> HIDE DEF r
  <2>3. QED BY <2>1, <2>2, WriterMoves
<1>2. CASE LeavePage(w)
  BY <1>2, FileRows, WriterMoves DEF LeavePage, Leave
<1>3. QED BY <1>1, <1>2

LEMMA PageStep ==
    ASSUME FileInv, NEW w \in Writers, NEW field \in Fields, NEW v \in Values(field),
           PostForm(w, field, v) \/ ReadPatch(w, field, v)
    PROVE  FileInv'
<1>1. writer[w] \in WriterRows /\ writer[w].page \in Records /\ file \in Records
  BY DEF FileInv, WriterRows
<1>2. CASE PostForm(w, field, v)
  <2> DEFINE shown == Change(writer[w].page, field, v)
             values == [file EXCEPT !.status = shown.status, !.title = shown.title]
             r == [writer[w] EXCEPT !.via = "post", !.row = file, !.names = {field},
                                    !.values = values]
  <2>1. shown \in Records /\ field # "completed"
    BY <1>1, <1>2, ChangeKeeps DEF PostForm
  <2>2. writer' = [writer EXCEPT ![w] = r] /\ UNCHANGED <<file, noted, retaken>>
    BY <1>2 DEF PostForm
  <2> HIDE DEF shown
  <2>3. values \in Records /\ values.completed = file.completed
    BY <1>1, <2>1 DEF Records
  <2> HIDE DEF values
  <2>4. /\ r \in WriterRows /\ r.via = "post" /\ r.row = file /\ r.values = values
    BY <1>1, <2>3 DEF WriterRows
  <2> HIDE DEF r
  <2>5. QED BY <2>2, <2>3, <2>4, WriterMoves
<1>3. CASE ReadPatch(w, field, v)
  <2> DEFINE values == Change(file, field, v)
             r == [writer[w] EXCEPT !.via = "api", !.row = file, !.names = {field},
                                    !.values = values]
  <2>1. values \in Records /\ (field # "completed" => values.completed = file.completed)
    BY <1>1, ChangeKeeps
  <2>2. writer' = [writer EXCEPT ![w] = r] /\ UNCHANGED <<file, noted, retaken>>
    BY <1>3 DEF ReadPatch
  <2> HIDE DEF values
  <2>3. r \in WriterRows /\ r.via = "api" /\ r.row = file /\ r.values = values /\ r.names = {field}
    BY <1>1, <2>1 DEF WriterRows
  <2> HIDE DEF r
  <2>4. QED BY <2>1, <2>2, <2>3, WriterMoves
<1>4. QED BY <1>2, <1>3

LEMMA ReadTickStep == ASSUME FileInv, NEW w \in Writers, NEW on \in BOOLEAN, ReadTick(w, on) PROVE FileInv'
<1> DEFINE values == [file EXCEPT !.completed = on]
           r == [writer[w] EXCEPT !.via = "tick", !.row = file, !.names = {"completed"},
                                  !.values = values]
<1>1. writer' = [writer EXCEPT ![w] = r] /\ UNCHANGED <<file, noted, retaken>>
  BY DEF ReadTick
<1>2. values \in Records /\ writer[w] \in WriterRows /\ file \in Records
  BY DEF FileInv, Records
<1> HIDE DEF values
<1>3. r \in WriterRows /\ r.via = "tick" /\ r.names = {"completed"}
  BY <1>2 DEF WriterRows, Fields
<1> HIDE DEF r
<1>4. QED BY <1>1, <1>3, WriterMoves

LEMMA SavesStep == ASSUME FileInv, NEW w \in Writers, SaveFile(w) \/ SaveTick(w) PROVE FileInv'
<1>1. /\ writer' \in [Writers -> WriterRows] /\ writer'[w].via = "idle"
      /\ \A u \in Writers \ {w} : writer'[u] = writer[u]
  BY FileRows DEF SaveFile, SaveTick, Leave, FileInv
<1>2. writer[w].values \in Records /\ writer[w].row \in Records /\ file \in Records
  BY DEF FileInv, WriterRows
<1>3. CASE SaveFile(w)
  <2> DEFINE saved == writer[w].values
  <2>1. /\ file' = Stamped(saved)
        /\ noted' = IF saved.status # writer[w].row.status THEN saved.status ELSE noted
        /\ retaken' = (retaken \/ writer[w].row # file)
    BY <1>3 DEF SaveFile, StatusBefore
  <2>2. file' \in Records /\ file'.status = saved.status
    BY <1>2, <2>1 DEF Stamped, Records
  <2>3. noted' \in Statuses
    BY <1>2, <2>1 DEF FileInv, Records
  <2>4. retaken' \in BOOLEAN /\ (~retaken' => ~retaken /\ writer[w].row = file)
    BY <2>1 DEF FileInv
  <2>5. StatusNoted'
    BY <2>1, <2>2, <2>4 DEF FileInv, StatusNoted
  <2>6. QED BY <1>1, <2>2, <2>3, <2>4, <2>5 DEF FileInv
<1>4. CASE SaveTick(w)
  <2>1. file' \in Records /\ file'.status = file.status /\ UNCHANGED <<noted, retaken>>
    BY <1>2, <1>4 DEF SaveTick, Records
  <2>2. QED BY <1>1, <2>1 DEF FileInv, StatusNoted
<1>5. QED BY <1>3, <1>4

LEMMA FileInvStep == FileInv /\ [CaseFileNext]_fileVars => FileInv'
<1>1. ASSUME FileInv, UNCHANGED fileVars PROVE FileInv'
  BY <1>1 DEF fileVars, FileInv, StatusNoted
<1>2. QED BY <1>1, PageOpensStep, PageStep, ReadTickStep, SavesStep DEF CaseFileNext

\* Who opens an item again.
LEMMA WhoReopens ==
    ASSUME FileInv, CaseFileNext, file.completed, ~file'.completed
    PROVE  \E w \in Writers :
              /\ ~Idle(w)
              /\ writer'[w].via = "idle"
              /\ "completed" \in writer[w].names \/ ~writer[w].row.completed
<1>1. PICK w \in Writers : SaveFile(w) \/ SaveTick(w)
  <2>1. file' # file
    OBVIOUS
  <2>2. \A w \in Writers : ~OpenForm(w) /\ ~LeavePage(w)
    BY <2>1 DEF OpenForm, LeavePage
  <2>3. \A w \in Writers, on \in BOOLEAN : ~ReadTick(w, on)
    BY <2>1 DEF ReadTick
  <2>4. \A w \in Writers : \A field \in Fields : \A v \in Values(field) : ~PostForm(w, field, v) /\ ~ReadPatch(w, field, v)
    BY <2>1 DEF PostForm, ReadPatch
  <2>5. QED BY <2>2, <2>3, <2>4 DEF CaseFileNext
<1>2. writer'[w].via = "idle" /\ ~Idle(w)
  BY <1>1, FileRows DEF SaveFile, SaveTick, Leave, Idle, FileInv
<1>3. CASE SaveTick(w)
  BY <1>2, <1>3 DEF SaveTick, FileInv
<1>4. CASE SaveFile(w)
  <2>1. writer[w].values \in Records /\ file' = Stamped(writer[w].values)
    BY <1>4 DEF SaveFile, FileInv, WriterRows
  <2>2. ~writer[w].values.completed
    BY <2>1 DEF Stamped, Records
  <2>3. writer[w].via \in {"post", "api"}
    BY <1>4 DEF SaveFile
  <2>4. QED BY <1>2, <2>2, <2>3 DEF FileInv
<1>5. QED BY <1>1, <1>3, <1>4

----------------------------------------------------------------------------
\* Matter numbers.  Who holds the profile's figure is about to take a number, or has taken one
\* that only it can see; what was taken by itself is not after the sequence, and one's own.

Figures == Nat
ProfileRows == [there : BOOLEAN, year : Figures, value : Figures]
OpenerRows == [step : {"idle", "asking", "absent", "locked", "numbered", "settings"},
               atomic : BOOLEAN, year : Figures, seen : ProfileRows]
NotAfter(m, figure) == m.year < figure.year \/ (m.year = figure.year /\ m.value <= figure.value)
TakenAlone(o) == opener[o].step = "numbered" /\ ~opener[o].atomic
NumberSeen(o) == [year |-> opener[o].seen.year, value |-> opener[o].seen.value]

NumberTypes ==
    /\ profile.row \in ProfileRows /\ profile.by \in Openers \cup {"nobody"}
    /\ profile = [row |-> profile.row, by |-> profile.by]
    /\ opener \in [Openers -> OpenerRows] /\ year \in Figures
    /\ numbered \subseteq [year : Figures, value : Figures]
    /\ upset \in BOOLEAN /\ turnedAway \in BOOLEAN

RowHeld ==
    /\ profile.by # "nobody" =>
          \/ opener[profile.by].step = "locked"
          \/ opener[profile.by].step = "numbered" /\ opener[profile.by].atomic
    /\ \A o \in Openers : opener[o].step = "locked" => Holds(o)
    /\ \A o \in Openers : opener[o].step = "numbered" /\ opener[o].atomic =>
          Holds(o) /\ profile.row = SequenceAfter(o)
    /\ ~Committed.there => Committed = NoProfile
    /\ \A o \in Openers : opener[o].step = "settings" => opener[o].seen.there

NumbersApart ==
    /\ ~turnedAway
    /\ \A m \in numbered : NotAfter(m, Committed)
    /\ \A o \in Openers : opener[o].step = "numbered" /\ opener[o].atomic =>
          opener[o].seen.year <= opener[o].year
    /\ \A o \in Openers : TakenAlone(o) =>
          /\ NotAfter(NumberSeen(o), Committed) /\ NumberSeen(o) \notin numbered
          /\ \A p \in Openers \ {o} : TakenAlone(p) => NumberSeen(p) # NumberSeen(o)

NumberInv == NumberTypes /\ RowHeld /\ (~upset => NumbersApart)

LEMMA FigureTypes ==
    /\ 0 \in Figures /\ 1 \in Figures /\ \A n \in Figures : n \in Nat /\ n + 1 \in Figures
    /\ NoProfile \in ProfileRows /\ ~NoProfile.there /\ NoProfile.year = 0 /\ NoProfile.value = 0
BY DEF Figures, NoProfile, ProfileRows

LEMMA OpenerTypes ==
    /\ NotOpening \in OpenerRows /\ NotOpening.step = "idle"
    /\ NumberTypes => \A o \in Openers :
          /\ opener[o].seen \in ProfileRows /\ opener[o].year \in Nat /\ opener[o].atomic \in BOOLEAN
          /\ opener[o].seen.year \in Nat /\ opener[o].seen.value \in Nat
          /\ SequenceAfter(o) \in ProfileRows
<1>1. NotOpening \in OpenerRows /\ NotOpening.step = "idle"
  BY FigureTypes DEF NotOpening, OpenerRows
<1>2. ASSUME NumberTypes, NEW o \in Openers
      PROVE  /\ opener[o].seen \in ProfileRows /\ opener[o].year \in Nat /\ opener[o].atomic \in BOOLEAN
             /\ opener[o].seen.year \in Nat /\ opener[o].seen.value \in Nat
             /\ SequenceAfter(o) \in ProfileRows
  <2>1. opener[o] \in OpenerRows
    BY <1>2 DEF NumberTypes
  <2>2. /\ opener[o].seen \in ProfileRows /\ opener[o].year \in Figures /\ opener[o].atomic \in BOOLEAN
        /\ opener[o].seen.year \in Figures /\ opener[o].seen.value \in Figures
    BY <2>1 DEF OpenerRows, ProfileRows
  <2>3. SequenceAfter(o) \in ProfileRows
    BY <2>2, FigureTypes DEF SequenceAfter, ProfileRows
  <2>4. QED BY <2>2, <2>3, FigureTypes
<1>3. QED BY <1>1, <1>2

LEMMA NumberInvInit == MatterNumbersInit => NumberInv
<1> SUFFICES ASSUME MatterNumbersInit PROVE NumberInv
  OBVIOUS
<1>1. /\ profile = [row |-> NoProfile, by |-> "nobody"] /\ numbered = {} /\ year = 1
      /\ upset \in BOOLEAN /\ turnedAway \in BOOLEAN /\ ~turnedAway
      /\ opener \in [Openers -> OpenerRows] /\ \A o \in Openers : opener[o].step = "idle"
  BY OpenerTypes DEF MatterNumbersInit
<1>2. NumberTypes
  BY <1>1, FigureTypes DEF NumberTypes
<1>3. RowHeld
  BY <1>1, FigureTypes DEF RowHeld, Committed
<1>4. NumbersApart
  BY <1>1 DEF NumbersApart, TakenAlone
<1>5. QED BY <1>2, <1>3, <1>4 DEF NumberInv

\* A request that does not hold the figure goes on, and takes no number.
LEMMA OpenerMoves ==
    ASSUME NumberInv, NEW o \in Openers, NEW r \in OpenerRows, opener' = [opener EXCEPT ![o] = r],
           ~Holds(o), r.step \notin {"locked", "numbered"}, r.step = "settings" => r.seen.there,
           UNCHANGED <<profile, numbered, turnedAway>>, year' \in Figures,
           upset' \in BOOLEAN, ~upset' => ~upset
    PROVE  NumberInv'
<1>1. opener' \in [Openers -> OpenerRows] /\ opener'[o] = r /\ \A p \in Openers \ {o} : opener'[p] = opener[p]
  BY DEF NumberInv, NumberTypes
<1>2. NumberTypes'
  BY <1>1 DEF NumberInv, NumberTypes
<1>3. Committed' = Committed
  BY <1>1 DEF Committed, Holds, NumberInv, NumberTypes
<1>4. \A p \in Openers \ {o} : SequenceAfter(p)' = SequenceAfter(p) /\ NumberSeen(p)' = NumberSeen(p)
          /\ (TakenAlone(p)' <=> TakenAlone(p))
  BY <1>1 DEF SequenceAfter, NumberSeen, TakenAlone
<1>5. RowHeld'
  BY <1>1, <1>3, <1>4 DEF NumberInv, NumberTypes, RowHeld, Holds
<1>6. NumbersApart => NumbersApart'
  BY <1>1, <1>3, <1>4 DEF NumbersApart, TakenAlone, NotAfter
<1>7. QED BY <1>2, <1>5, <1>6 DEF NumberInv

\* The figure is locked, or fresh, by a request that will go on from what others see.
LEMMA RowTaken ==
    ASSUME NumberInv, NEW o \in Openers, opener[o].step \in {"asking", "absent"}, Unlocked,
           NEW figure \in ProfileRows, profile' = [row |-> figure, by |-> o],
           opener' = [opener EXCEPT ![o] = [@ EXCEPT !.step = "locked", !.seen = Committed]],
           UNCHANGED <<year, numbered, upset, turnedAway>>
    PROVE  NumberInv'
<1> DEFINE r == [opener[o] EXCEPT !.step = "locked", !.seen = Committed]
<1>1. r \in OpenerRows /\ r.step = "locked" /\ r.seen = Committed
  BY DEF NumberInv, NumberTypes, OpenerRows, Committed, Unlocked
<1>2. opener' = [opener EXCEPT ![o] = r]
  BY DEF NumberInv, NumberTypes
<1> HIDE DEF r
<1>3. opener' \in [Openers -> OpenerRows] /\ opener'[o] = r /\ \A p \in Openers \ {o} : opener'[p] = opener[p]
  BY <1>1, <1>2 DEF NumberInv, NumberTypes
<1>4. NumberTypes'
  BY <1>3 DEF NumberInv, NumberTypes
<1>5. Committed' = Committed /\ profile'.by = o
  BY <1>1, <1>3, NumbersAssumption DEF Committed
<1>6. \A p \in Openers \ {o} : NumberSeen(p)' = NumberSeen(p) /\ (TakenAlone(p)' <=> TakenAlone(p))
  BY <1>3 DEF NumberSeen, TakenAlone
<1>7. RowHeld'
  BY <1>1, <1>3, <1>5, NumbersAssumption DEF NumberInv, RowHeld, Holds, Unlocked
<1>8. NumbersApart => NumbersApart'
  BY <1>1, <1>3, <1>5, <1>6 DEF NumbersApart, TakenAlone, NotAfter
<1>9. QED BY <1>4, <1>7, <1>8 DEF NumberInv

LEMMA TakeNumberStep == ASSUME NumberInv, NEW o \in Openers, TakeNumber(o) PROVE NumberInv'
<1> DEFINE seen == opener[o].seen
           after == SequenceAfter(o)
           r == [opener[o] EXCEPT !.step = "numbered", !.seen = IF opener[o].atomic THEN seen ELSE after]
<1>1. /\ opener[o].step = "locked" /\ UNCHANGED <<year, numbered, turnedAway>>
      /\ profile' = [row |-> after, by |-> IF opener[o].atomic THEN o ELSE "nobody"]
      /\ opener' = [opener EXCEPT ![o] = r]
  BY DEF TakeNumber, NumberInv, NumberTypes
<1>2. upset' \in BOOLEAN /\ (~upset' => ~upset /\ seen.year <= opener[o].year)
  <2>1. upset \in BOOLEAN /\ seen.year \in Nat /\ opener[o].year \in Nat
    BY OpenerTypes DEF NumberInv, NumberTypes
  <2>2. upset' = (upset \/ seen.year > opener[o].year)
    BY DEF TakeNumber
  <2>3. ~(seen.year > opener[o].year) => seen.year <= opener[o].year
    BY <2>1
  <2>4. upset' \in BOOLEAN /\ (~upset' => ~upset /\ ~(seen.year > opener[o].year))
    BY <2>1, <2>2
  <2>5. QED BY <2>3, <2>4
<1>3. /\ Holds(o) /\ Committed = seen /\ o # "nobody"
  BY <1>1, NumbersAssumption DEF NumberInv, RowHeld, Holds, Committed
<1>4. /\ seen \in ProfileRows /\ after \in ProfileRows /\ opener[o] \in OpenerRows
      /\ seen.year \in Nat /\ seen.value \in Nat /\ opener[o].year \in Nat
      /\ opener[o].atomic \in BOOLEAN
  BY OpenerTypes DEF NumberInv, NumberTypes
<1>5. /\ r \in OpenerRows /\ r.step = "numbered" /\ r.atomic = opener[o].atomic /\ r.year = opener[o].year
      /\ r.seen = IF opener[o].atomic THEN seen ELSE after
  BY <1>4 DEF OpenerRows
<1>6. /\ after.there /\ after.year = opener[o].year
      /\ after.value = IF seen.year = opener[o].year THEN seen.value + 1 ELSE 1
  BY DEF SequenceAfter
<1> HIDE DEF r, after
<1>7. opener' \in [Openers -> OpenerRows] /\ opener'[o] = r /\ \A p \in Openers \ {o} : opener'[p] = opener[p]
  BY <1>1, <1>5 DEF NumberInv, NumberTypes
<1>8. NumberTypes'
  BY <1>1, <1>2, <1>4, <1>7 DEF NumberInv, NumberTypes
<1>9. \A p \in Openers \ {o} :
          /\ opener[p].step # "locked" /\ ~(opener[p].step = "numbered" /\ opener[p].atomic)
          /\ NumberSeen(p)' = NumberSeen(p) /\ (TakenAlone(p)' <=> TakenAlone(p))
  BY <1>3, <1>7 DEF NumberInv, RowHeld, Holds, NumberSeen, TakenAlone
<1>10. CASE opener[o].atomic
  <2>1. profile'.by = o /\ profile'.row = after /\ Committed' = Committed
    BY <1>1, <1>3, <1>5, <1>7, <1>10 DEF Committed
  <2>2. SequenceAfter(o)' = after
    BY <1>5, <1>7, <1>10 DEF SequenceAfter, after
  <2>3. RowHeld'
    BY <1>3, <1>5, <1>7, <1>9, <1>10, <2>1, <2>2 DEF NumberInv, RowHeld, Holds
  <2>4. ASSUME ~upset' PROVE NumbersApart'
    <3>1. NumbersApart /\ seen.year <= opener[o].year
      BY <1>2, <2>4 DEF NumberInv
    <3>2. ~TakenAlone(o)' /\ opener'[o].seen.year <= opener'[o].year
      BY <1>5, <1>7, <1>10, <3>1 DEF TakenAlone
    <3>3. \A m : NotAfter(m, Committed)' <=> NotAfter(m, Committed)
      BY <2>1 DEF NotAfter
    <3>4. \A p \in Openers \ {o} : TakenAlone(p)' => NotAfter(NumberSeen(p), Committed)'
      BY <1>9, <2>1, <3>1 DEF NumbersApart, NotAfter
    <3>5. ~turnedAway' /\ \A m \in numbered' : NotAfter(m, Committed)'
      BY <1>1, <2>1, <3>1 DEF NumbersApart, NotAfter
    <3>6. \A p \in Openers : opener'[p].step = "numbered" /\ opener'[p].atomic =>
              opener'[p].seen.year <= opener'[p].year
      BY <1>7, <1>9, <3>2
    <3>7. \A p \in Openers : TakenAlone(p)' =>
              /\ NotAfter(NumberSeen(p), Committed)' /\ NumberSeen(p)' \notin numbered'
              /\ \A q \in Openers \ {p} : TakenAlone(q)' => NumberSeen(q)' # NumberSeen(p)'
      <4> SUFFICES ASSUME NEW p \in Openers, TakenAlone(p)'
                   PROVE  /\ NotAfter(NumberSeen(p), Committed)' /\ NumberSeen(p)' \notin numbered'
                          /\ \A q \in Openers \ {p} : TakenAlone(q)' => NumberSeen(q)' # NumberSeen(p)'
        OBVIOUS
      <4>1. p # o /\ TakenAlone(p) /\ NumberSeen(p)' = NumberSeen(p)
        BY <1>9, <3>2
      <4>2. NotAfter(NumberSeen(p), Committed)' /\ NumberSeen(p) \notin numbered
        BY <3>1, <3>4, <4>1 DEF NumbersApart
      <4>3. \A q \in Openers \ {p} : TakenAlone(q)' => TakenAlone(q) /\ NumberSeen(q)' = NumberSeen(q)
        BY <1>9, <3>2
      <4>4. QED BY <1>1, <3>1, <4>1, <4>2, <4>3 DEF NumbersApart
    <3>8. QED BY <3>5, <3>6, <3>7 DEF NumbersApart
  <2>5. QED BY <1>8, <2>3, <2>4 DEF NumberInv
<1>11. CASE ~opener[o].atomic
  <2>1. profile'.by = "nobody" /\ profile'.row = after /\ Committed' = after
    BY <1>1, <1>11 DEF Committed
  <2>2. RowHeld'
    BY <1>5, <1>6, <1>7, <1>9, <1>11, <2>1 DEF RowHeld, NumberInv
  <2>3. ASSUME ~upset', NEW m \in [year : Nat, value : Nat], NotAfter(m, Committed)
        PROVE  NotAfter(m, after) /\ (m.year # after.year \/ m.value # after.value)
    BY <1>2, <1>3, <1>4, <1>6, <2>3 DEF NotAfter
  <2>4. NumberSeen(o)' = [year |-> after.year, value |-> after.value]
    BY <1>5, <1>7, <1>11 DEF NumberSeen
  <2>5. ASSUME ~upset' PROVE NumbersApart'
    <3>1. NumbersApart
      BY <1>2, <2>5 DEF NumberInv
    <3>2. numbered \subseteq [year : Nat, value : Nat] /\ \A p \in Openers : NumberSeen(p) \in [year : Nat, value : Nat]
      BY OpenerTypes DEF NumberInv, NumberTypes, Figures, NumberSeen
    <3>3. \A m \in numbered : NotAfter(m, after) /\ m # NumberSeen(o)'
      BY <2>3, <2>4, <2>5, <3>1, <3>2 DEF NumbersApart
    <3>4. \A p \in Openers \ {o} : TakenAlone(p) =>
              NotAfter(NumberSeen(p), after) /\ NumberSeen(p) # NumberSeen(o)'
      BY <2>3, <2>4, <2>5, <3>1, <3>2 DEF NumbersApart
    <3>5. NotAfter(NumberSeen(o)', after)
      BY <1>4, <1>6, <2>4 DEF NotAfter
    <3>6. \A p \in Openers : opener'[p].step = "numbered" => ~opener'[p].atomic
      BY <1>5, <1>7, <1>9, <1>11
    <3>7. NotAfter(NumberSeen(o), Committed)' /\ \A m : NotAfter(m, Committed)' <=> NotAfter(m, after)
      BY <2>1, <3>5 DEF NotAfter
    <3>8. QED BY <1>1, <1>9, <3>1, <3>3, <3>4, <3>6, <3>7, <2>1 DEF NumbersApart, NotAfter
  <2>6. QED BY <1>8, <2>2, <2>5 DEF NumberInv
<1>12. QED BY <1>4, <1>10, <1>11

\* What others see stays as it was, and so do the other requests.
LEMMA OpenerRests ==
    ASSUME NumberInv, NEW o \in Openers, Rest(o), UNCHANGED <<year, upset>>, Committed' = Committed,
           profile'.row \in ProfileRows, profile' = [row |-> profile'.row, by |-> profile'.by],
           profile'.by = IF Holds(o) THEN "nobody" ELSE profile.by,
           ~Holds(o) => profile' = profile
    PROVE  UNCHANGED <<numbered, turnedAway>> => NumberInv'
<1> SUFFICES ASSUME UNCHANGED <<numbered, turnedAway>> PROVE NumberInv'
  OBVIOUS
<1>1. /\ opener' \in [Openers -> OpenerRows] /\ opener'[o].step = "idle"
      /\ \A p \in Openers \ {o} : opener'[p] = opener[p]
  BY OpenerTypes DEF Rest, NumberInv, NumberTypes
<1>2. NumberTypes'
  BY <1>1 DEF NumberInv, NumberTypes
<1>3. \A p \in Openers \ {o} : SequenceAfter(p)' = SequenceAfter(p) /\ NumberSeen(p)' = NumberSeen(p)
          /\ (TakenAlone(p)' <=> TakenAlone(p))
  BY <1>1 DEF SequenceAfter, NumberSeen, TakenAlone
<1>4. RowHeld'
  <2>1. \A p \in Openers \ {o} : Holds(p)' <=> Holds(p)
    BY NumbersAssumption DEF Holds
  <2>2. \A p \in Openers \ {o} : Holds(p) => profile' = profile
    BY DEF Holds
  <2>3. QED BY <1>1, <1>3, <2>1, <2>2, NumbersAssumption DEF NumberInv, NumberTypes, RowHeld, Holds
<1>5. NumbersApart => NumbersApart'
  BY <1>1, <1>3 DEF NumbersApart, TakenAlone, NotAfter
<1>6. QED BY <1>2, <1>4, <1>5 DEF NumberInv

LEMMA DropMatterStep == ASSUME NumberInv, NEW o \in Openers, DropMatter(o) PROVE NumberInv'
<1>1. opener[o].seen \in ProfileRows /\ profile = [row |-> profile.row, by |-> profile.by]
      /\ profile.row \in ProfileRows
  BY OpenerTypes DEF NumberInv, NumberTypes
<1>2. Rest(o) /\ UNCHANGED <<year, numbered, upset, turnedAway>> /\ GiveBack(o)
  BY DEF DropMatter
<1>3. CASE Holds(o)
  <2>1. profile' = [row |-> opener[o].seen, by |-> "nobody"] /\ Committed = opener[o].seen
    BY <1>2, <1>3, NumbersAssumption DEF GiveBack, Committed, Holds
  <2>2. Committed' = Committed
    BY <2>1 DEF Committed
  <2>3. QED BY <1>1, <1>2, <1>3, <2>1, <2>2, OpenerRests
<1>4. CASE ~Holds(o)
  <2>1. profile' = profile
    BY <1>2, <1>4 DEF GiveBack
  <2>2. Committed' = Committed
    <3>1. profile.by # "nobody" => profile.by \in Openers \ {o}
      BY <1>4 DEF NumberInv, NumberTypes, Holds
    <3>2. \A p \in Openers \ {o} : opener'[p] = opener[p]
      BY <1>2 DEF Rest, NumberInv, NumberTypes
    <3>3. QED BY <2>1, <3>1, <3>2 DEF Committed
  <2>3. QED BY <1>1, <1>2, <1>4, <2>1, <2>2, OpenerRests
<1>5. QED BY <1>3, <1>4

LEMMA OpenStep ==
    ASSUME NumberInv, NEW o \in Openers,
           \/ \E atomic \in BOOLEAN : OpenMatter(o, atomic)
           \/ FindNoProfile(o) \/ OpenFirmSettings(o)
    PROVE  NumberInv'
<1>1. opener[o] \in OpenerRows /\ year \in Figures /\ upset \in BOOLEAN
      /\ profile.by \in Openers \cup {"nobody"} /\ profile.row \in ProfileRows
  BY DEF NumberInv, NumberTypes
<1>2. opener[o].step \in {"idle", "asking"} => ~Holds(o)
  BY NumbersAssumption DEF NumberInv, RowHeld, Holds
<1>3. Committed \in ProfileRows
  BY <1>1, OpenerTypes DEF Committed, NumberInv
<1>4. ASSUME NEW atomic \in BOOLEAN, OpenMatter(o, atomic) PROVE NumberInv'
  <2> DEFINE r == [NotOpening EXCEPT !.step = "asking", !.year = year, !.atomic = atomic]
  <2>1. r \in OpenerRows /\ r.step = "asking"
    BY <1>1, OpenerTypes DEF OpenerRows
  <2>2. opener' = [opener EXCEPT ![o] = r] /\ opener[o].step = "idle"
        /\ UNCHANGED <<year, profile, numbered, upset, turnedAway>>
    BY <1>4, OpenerTypes DEF OpenMatter
  <2> HIDE DEF r
  <2>3. QED BY <1>1, <1>2, <2>1, <2>2, OpenerMoves
<1>5. CASE FindNoProfile(o)
  <2> DEFINE r == [opener[o] EXCEPT !.step = "absent", !.seen = NoProfile]
  <2>1. r \in OpenerRows /\ r.step = "absent"
    BY <1>1, FigureTypes DEF OpenerRows
  <2>2. opener' = [opener EXCEPT ![o] = r] /\ opener[o].step = "asking"
        /\ UNCHANGED <<year, profile, numbered, upset, turnedAway>>
    BY <1>5 DEF FindNoProfile, Proceeds, NumberInv, NumberTypes
  <2> HIDE DEF r
  <2>3. QED BY <1>1, <1>2, <2>1, <2>2, OpenerMoves
<1>6. CASE OpenFirmSettings(o)
  <2> DEFINE r == [opener[o] EXCEPT !.step = "settings", !.seen = Committed]
  <2>1. r \in OpenerRows /\ r.step = "settings" /\ r.seen = Committed
    BY <1>1, <1>3 DEF OpenerRows
  <2>2. opener' = [opener EXCEPT ![o] = r] /\ opener[o].step = "idle" /\ Committed.there
        /\ UNCHANGED <<year, profile, numbered, upset, turnedAway>>
    BY <1>6, OpenerTypes DEF OpenFirmSettings, Proceeds, NumberInv, NumberTypes
  <2> HIDE DEF r
  <2>3. QED BY <1>1, <1>2, <2>1, <2>2, OpenerMoves
<1>7. QED BY <1>4, <1>5, <1>6

LEMMA ProfileStep ==
    ASSUME NumberInv, NEW o \in Openers, LockProfile(o) \/ CreateProfile(o) PROVE NumberInv'
<1>1. profile = [row |-> profile.row, by |-> profile.by] /\ profile.row \in ProfileRows
  BY DEF NumberInv, NumberTypes
<1>2. CASE LockProfile(o)
  <2>1. opener[o].step = "asking" /\ Unlocked /\ Committed = profile.row
        /\ UNCHANGED <<year, numbered, upset, turnedAway>>
    BY <1>2 DEF LockProfile, Committed, Unlocked
  <2>2. profile' = [row |-> profile.row, by |-> o]
    BY <1>1, <1>2 DEF LockProfile
  <2>3. opener' = [opener EXCEPT ![o] = [@ EXCEPT !.step = "locked", !.seen = Committed]]
    BY <1>2, <2>1 DEF LockProfile, Proceeds, NumberInv, NumberTypes
  <2>4. QED BY <1>1, <2>1, <2>2, <2>3, RowTaken
<1>3. CASE CreateProfile(o)
  <2>1. opener[o].step = "absent" /\ Unlocked /\ Committed = profile.row
        /\ UNCHANGED <<year, numbered, upset, turnedAway>>
    BY <1>3 DEF CreateProfile, Committed, Unlocked
  <2>2. CASE profile.row.there
    <3>1. ~Holds(o)
      BY <2>1, NumbersAssumption DEF Unlocked, Holds
    <3>2. opener' = [opener EXCEPT ![o] = NotOpening] /\ UNCHANGED profile
      BY <1>3, <2>2 DEF CreateProfile, Rest
    <3>3. year \in Figures /\ upset \in BOOLEAN
      BY DEF NumberInv, NumberTypes
    <3>4. QED BY <2>1, <3>1, <3>2, <3>3, OpenerTypes, OpenerMoves
  <2>3. CASE ~profile.row.there
    <3> DEFINE fresh == [NoProfile EXCEPT !.there = TRUE]
    <3>1. fresh \in ProfileRows
      BY FigureTypes DEF ProfileRows
    <3>2. profile' = [row |-> fresh, by |-> o] /\ Proceeds(o, "locked", NoProfile)
      BY <1>3, <2>3 DEF CreateProfile
    <3>3. Committed = NoProfile
      BY <2>1, <2>3 DEF NumberInv, RowHeld
    <3>4. opener' = [opener EXCEPT ![o] = [@ EXCEPT !.step = "locked", !.seen = Committed]]
      BY <3>2, <3>3 DEF Proceeds, NumberInv, NumberTypes
    <3> HIDE DEF fresh
    <3>5. QED BY <2>1, <3>1, <3>2, <3>4, RowTaken
  <2>4. QED BY <2>2, <2>3
<1>4. QED BY <1>2, <1>3

LEMMA StoreMatterStep == ASSUME NumberInv, NEW o \in Openers, StoreMatter(o) PROVE NumberInv'
<1> DEFINE n == NumberOf(o)
           seen == opener[o].seen
           after == SequenceAfter(o)
<1>1. /\ opener[o].step = "numbered" /\ Rest(o) /\ UNCHANGED <<year, upset>>
      /\ turnedAway' = (turnedAway \/ n \in numbered) /\ numbered' = numbered \cup {n}
      /\ profile' = IF n \in numbered
                    THEN (IF Holds(o) THEN [row |-> seen, by |-> "nobody"] ELSE profile)
                    ELSE (IF Holds(o) THEN [profile EXCEPT !.by = "nobody"] ELSE profile)
  BY DEF StoreMatter, GiveBack
<1>2. /\ seen \in ProfileRows /\ seen.year \in Nat /\ seen.value \in Nat /\ opener[o].year \in Nat
      /\ after \in ProfileRows /\ opener[o].atomic \in BOOLEAN
      /\ profile = [row |-> profile.row, by |-> profile.by] /\ profile.row \in ProfileRows
      /\ after.year \in Figures /\ after.value \in Figures
  <2>1. after \in ProfileRows
    BY OpenerTypes DEF NumberInv
  <2>2. QED BY <2>1, OpenerTypes DEF NumberInv, NumberTypes, ProfileRows
<1>3. n \in [year : Figures, value : Figures]
  <2>1. seen.year \in Figures /\ seen.value \in Figures
    BY <1>2 DEF Figures
  <2>2. QED BY <1>2, <2>1 DEF NumberOf
<1>4. /\ opener' \in [Openers -> OpenerRows] /\ opener'[o].step = "idle"
      /\ \A p \in Openers \ {o} : opener'[p] = opener[p]
  BY <1>1, OpenerTypes DEF Rest, NumberInv, NumberTypes
<1>5. opener[o].atomic <=> Holds(o)
  BY <1>1, NumbersAssumption DEF NumberInv, RowHeld, Holds
<1>6. profile'.row \in ProfileRows /\ profile' = [row |-> profile'.row, by |-> profile'.by]
      /\ profile'.by = (IF Holds(o) THEN "nobody" ELSE profile.by) /\ (~Holds(o) => profile' = profile)
  BY <1>1, <1>2
<1>7. NumberTypes'
  <2>1. turnedAway' \in BOOLEAN
    BY <1>1 DEF NumberInv, NumberTypes
  <2>2. numbered' \subseteq [year : Figures, value : Figures]
    BY <1>1, <1>3 DEF NumberInv, NumberTypes
  <2>3. QED BY <1>1, <1>4, <1>6, <2>1, <2>2 DEF NumberInv, NumberTypes
<1>8. \A p \in Openers \ {o} : SequenceAfter(p)' = SequenceAfter(p) /\ NumberSeen(p)' = NumberSeen(p)
          /\ (TakenAlone(p)' <=> TakenAlone(p))
  BY <1>4 DEF SequenceAfter, NumberSeen, TakenAlone
<1>9. Holds(o) => Committed = seen /\ profile.row = after
  BY <1>1, <1>5, NumbersAssumption DEF Committed, Holds, NumberInv, RowHeld
<1>10. Committed' = IF Holds(o) /\ n \notin numbered THEN after ELSE Committed
  <2>1. CASE Holds(o)
    BY <1>1, <1>2, <1>9, <2>1 DEF Committed
  <2>2. CASE ~Holds(o)
    <3>1. profile' = profile /\ (profile.by # "nobody" => profile.by \in Openers \ {o})
      BY <1>6, <2>2 DEF NumberInv, NumberTypes, Holds
    <3>2. QED BY <1>4, <2>2, <3>1 DEF Committed
  <2>3. QED BY <2>1, <2>2
<1>11. after.there /\ after.year = opener[o].year
       /\ after.value = IF seen.year = opener[o].year THEN seen.value + 1 ELSE 1
  BY DEF SequenceAfter
<1>12. RowHeld'
  <2>1. \A p \in Openers \ {o} : (Holds(p)' <=> Holds(p)) /\ (Holds(p) => profile' = profile)
    BY <1>6, NumbersAssumption DEF Holds
  <2>2. profile'.by # "nobody" => profile'.by = profile.by /\ profile.by \in Openers \ {o}
    BY <1>6 DEF Holds, NumberInv, NumberTypes
  <2>3. ~Committed'.there => Committed' = NoProfile
    BY <1>10, <1>11 DEF NumberInv, RowHeld
  <2>4. /\ profile'.by # "nobody" =>
              \/ opener'[profile'.by].step = "locked"
              \/ opener'[profile'.by].step = "numbered" /\ opener'[profile'.by].atomic
        /\ \A p \in Openers : opener'[p].step = "settings" => opener'[p].seen.there
    BY <1>4, <2>2 DEF NumberInv, RowHeld
  <2>5. \A p \in Openers : (opener'[p].step = "locked" => Holds(p)')
          /\ (opener'[p].step = "numbered" /\ opener'[p].atomic =>
                 Holds(p)' /\ profile'.row = SequenceAfter(p)')
    BY <1>4, <1>8, <2>1 DEF NumberInv, RowHeld
  <2>6. QED BY <2>3, <2>4, <2>5 DEF RowHeld
<1>13. ASSUME ~upset' PROVE NumbersApart'
  <2>1. NumbersApart /\ numbered \subseteq [year : Nat, value : Nat]
    BY <1>1, <1>13 DEF NumberInv, NumberTypes, Figures
  <2>2. opener[o].atomic => n.year = after.year /\ n.value = after.value
    BY DEF NumberOf
  <2>3. ~opener[o].atomic => n = NumberSeen(o)
    BY DEF NumberOf, NumberSeen
  <2>4. ASSUME Holds(o), NEW m \in [year : Nat, value : Nat], NotAfter(m, seen)
        PROVE  NotAfter(m, after) /\ (m.year # after.year \/ m.value # after.value)
    <3>1. seen.year <= opener[o].year
      BY <1>1, <1>5, <2>1, <2>4 DEF NumbersApart
    <3>2. QED BY <1>2, <1>11, <2>4, <3>1 DEF NotAfter
  <2>5. n \notin numbered
    <3>1. CASE Holds(o)
      <4>1. \A m \in numbered : NotAfter(m, seen)
        BY <1>9, <2>1, <3>1 DEF NumbersApart
      <4>2. QED BY <1>5, <2>1, <2>2, <2>4, <3>1, <4>1
    <3>2. CASE ~Holds(o)
      BY <1>1, <1>5, <2>1, <2>3, <3>2 DEF NumbersApart, TakenAlone
    <3>3. QED BY <3>1, <3>2
  <2>6. Committed' = IF Holds(o) THEN after ELSE Committed
    BY <1>10, <2>5
  <2>7. \A m \in [year : Nat, value : Nat] : NotAfter(m, Committed) => NotAfter(m, Committed')
    BY <1>9, <2>4, <2>6
  <2>8. NotAfter(n, Committed')
    <3>1. CASE Holds(o)
      <4>1. after.year \in Nat /\ after.value \in Nat
        BY <1>2 DEF Figures
      <4>2. QED BY <1>5, <2>2, <2>6, <3>1, <4>1 DEF NotAfter
    <3>2. CASE ~Holds(o)
      BY <1>1, <1>5, <2>1, <2>3, <2>6, <3>2 DEF NumbersApart, TakenAlone
    <3>3. QED BY <3>1, <3>2
  <2>9. \A p \in Openers \ {o} : TakenAlone(p) => NumberSeen(p) # n
    <3> SUFFICES ASSUME NEW p \in Openers \ {o}, TakenAlone(p) PROVE NumberSeen(p) # n
      OBVIOUS
    <3>1. CASE Holds(o)
      <4>1. NumberSeen(p) \in [year : Nat, value : Nat]
        BY OpenerTypes DEF NumberInv, NumberSeen
      <4>2. NotAfter(NumberSeen(p), seen)
        BY <1>9, <2>1, <3>1 DEF NumbersApart
      <4>3. QED BY <1>5, <2>2, <2>4, <3>1, <4>1, <4>2
    <3>2. CASE ~Holds(o)
      BY <1>1, <1>5, <2>1, <2>3, <3>2 DEF NumbersApart, TakenAlone
    <3>3. QED BY <3>1, <3>2
  <2>10. \A m \in numbered' : NotAfter(m, Committed')
    BY <1>1, <2>1, <2>7, <2>8 DEF NumbersApart
  <2>11. \A p \in Openers : opener'[p].step = "numbered" /\ opener'[p].atomic =>
            opener'[p].seen.year <= opener'[p].year
    BY <1>4, <2>1 DEF NumbersApart
  <2>12. \A p \in Openers : TakenAlone(p)' =>
              /\ NotAfter(NumberSeen(p)', Committed') /\ NumberSeen(p)' \notin numbered'
              /\ \A q \in Openers \ {p} : TakenAlone(q)' => NumberSeen(q)' # NumberSeen(p)'
    <3> SUFFICES ASSUME NEW p \in Openers, TakenAlone(p)'
                 PROVE  /\ NotAfter(NumberSeen(p)', Committed') /\ NumberSeen(p)' \notin numbered'
                        /\ \A q \in Openers \ {p} : TakenAlone(q)' => NumberSeen(q)' # NumberSeen(p)'
      OBVIOUS
    <3>1. ~TakenAlone(o)' /\ p # o /\ TakenAlone(p) /\ NumberSeen(p)' = NumberSeen(p)
      BY <1>4, <1>8 DEF TakenAlone
    <3>2. NumberSeen(p) \in [year : Nat, value : Nat] /\ NotAfter(NumberSeen(p), Committed)
          /\ NumberSeen(p) \notin numbered
      BY OpenerTypes, <2>1, <3>1 DEF NumberInv, NumberSeen, NumbersApart
    <3>3. \A q \in Openers \ {p} : TakenAlone(q)' => TakenAlone(q) /\ NumberSeen(q)' = NumberSeen(q)
      BY <1>8, <3>1
    <3>4. QED BY <1>1, <2>1, <2>7, <2>9, <3>1, <3>2, <3>3 DEF NumbersApart
  <2>13. ~turnedAway'
    BY <1>1, <2>1, <2>5 DEF NumbersApart
  <2>14. /\ \A m \in numbered' : NotAfter(m, Committed)'
         /\ \A p \in Openers : NotAfter(NumberSeen(p)', Committed') => NotAfter(NumberSeen(p), Committed)'
    BY <2>10 DEF NotAfter
  <2>15. QED BY <2>11, <2>12, <2>13, <2>14 DEF NumbersApart
<1>14. QED BY <1>7, <1>12, <1>13 DEF NumberInv

LEMMA NumberSettingsStep ==
    ASSUME NumberInv, NEW o \in Openers, SaveFirmSettings(o) PROVE NumberInv'
<1>1. /\ opener[o].seen \in ProfileRows /\ profile = [row |-> profile.row, by |-> profile.by]
      /\ upset \in BOOLEAN /\ opener[o].seen.there
  BY OpenerTypes DEF NumberInv, NumberTypes, RowHeld, SaveFirmSettings
<1>2. /\ Rest(o) /\ UNCHANGED <<year, numbered, turnedAway>> /\ profile.by = "nobody"
      /\ profile' = [row |-> opener[o].seen, by |-> "nobody"]
      /\ upset' = (upset \/ opener[o].seen # profile.row)
  BY <1>1 DEF SaveFirmSettings, Unlocked
<1>3. Committed = profile.row /\ Committed' = opener[o].seen /\ ~Holds(o)
  BY <1>2, NumbersAssumption DEF Committed, Holds
<1>4. CASE upset' = upset /\ opener[o].seen = profile.row
  <2>1. profile' = profile
    BY <1>1, <1>2, <1>4
  <2>2. QED BY <1>1, <1>2, <1>3, <1>4, <2>1, OpenerRests DEF NumberInv, NumberTypes
<1>5. CASE upset'
  <2>1. /\ opener' \in [Openers -> OpenerRows] /\ opener'[o].step = "idle"
        /\ \A p \in Openers \ {o} : opener'[p] = opener[p]
    BY <1>2, OpenerTypes DEF Rest, NumberInv, NumberTypes
  <2>2. NumberTypes'
    BY <1>1, <1>2, <2>1 DEF NumberInv, NumberTypes
  <2>3. \A p \in Openers : opener[p].step # "locked" /\ ~(opener[p].step = "numbered" /\ opener[p].atomic)
    BY <1>2, NumbersAssumption DEF NumberInv, RowHeld, Holds
  <2>4. RowHeld'
    BY <1>1, <1>2, <1>3, <2>1, <2>3 DEF NumberInv, RowHeld
  <2>5. QED BY <1>5, <2>2, <2>4 DEF NumberInv
<1>6. upset' \in BOOLEAN /\ (~upset' => ~upset /\ opener[o].seen = profile.row)
  BY <1>1, <1>2
<1>7. QED BY <1>1, <1>4, <1>5, <1>6

LEMMA NewYearStep == ASSUME NumberInv, NewYear PROVE NumberInv'
<1>1. year' \in Figures
  BY DEF NumberInv, NumberTypes, NewYear, Figures
<1>2. QED BY <1>1 DEF NewYear, NumberInv, NumberTypes, RowHeld, Holds, Committed, SequenceAfter, NumbersApart, NotAfter, NumberSeen, TakenAlone

LEMMA NumberInvStep == NumberInv /\ [MatterNumbersNext]_numberVars => NumberInv'
<1>1. ASSUME NumberInv, UNCHANGED numberVars PROVE NumberInv'
  BY <1>1 DEF numberVars, NumberInv, NumberTypes, RowHeld, Holds, Committed, SequenceAfter, NumbersApart, NotAfter, NumberSeen, TakenAlone
<1>2. QED BY <1>1, OpenStep, ProfileStep, TakeNumberStep, StoreMatterStep, DropMatterStep, NumberSettingsStep,
             NewYearStep DEF MatterNumbersNext

LEMMA NumbersFitWell == NumberInv => NumbersFit
<1>1. NumbersApart /\ NumberTypes => NumbersFit
  <2> SUFFICES ASSUME NumbersApart, NumberTypes, NEW m \in numbered, m.year = Committed.year
               PROVE  m.value <= Committed.value
    BY DEF NumbersApart, NumbersFit
  <2>1. Committed.year \in Nat
    <3>1. Committed \in ProfileRows
      BY OpenerTypes DEF NumberTypes, Committed
    <3>2. QED BY <3>1 DEF ProfileRows, Figures
  <2>2. NotAfter(m, Committed)
    BY DEF NumbersApart
  <2>3. QED BY <2>1, <2>2 DEF NotAfter
<1>2. upset => NumbersFit
  BY DEF NumbersFit
<1>3. QED BY <1>1, <1>2 DEF NumberInv

\* While no request saves over what changed, the activities name the matter's status; an item
\* that was ticked off is open again only by a request that asks for it or had read it open;
\* and no matter is turned away for its number, unless requests crossed the turn of the year
\* or settings were saved over one (matter_update, work_toggle, next_matter_number).
THEOREM FileKept == CaseFileSpec /\ MatterNumbersSpec => FileAsLeft
<1>1. FileInv /\ CaseFileNext => [file.completed /\ ~file'.completed =>
          \E w \in Writers :
             /\ ~Idle(w)
             /\ writer'[w].via = "idle"
             /\ "completed" \in writer[w].names \/ ~writer[w].row.completed]_fileVars
  BY WhoReopens
<1>2. FileInv => StatusNoted
  BY DEF FileInv
<1>3. CaseFileSpec => []StatusNoted /\ TickedOffStays
  BY <1>1, <1>2, FileInvInit, FileInvStep, PTL DEF CaseFileSpec, TickedOffStays
<1>4. MatterNumbersSpec => []NumbersFit
  BY NumberInvInit, NumberInvStep, NumbersFitWell, PTL DEF MatterNumbersSpec
<1>5. QED BY <1>3, <1>4 DEF FileAsLeft

----------------------------------------------------------------------------
\* Intake links.  What a client has posted waits to be accepted as it was read by the form;
\* of two reviews of one submission, each counts as doubled from when the second begins.

Served == Forms \cup {<< >>}
Given == SUBSET (Questions \X Questions)
Sendings == [made : BOOLEAN, asks : Served, answers : Given, edited : BOOLEAN,
             reviewers : Seq(Desk)]
Endings == Seq({"submitted", "revoked", "expired"})
LinkRows == [issued : BOOLEAN, opened : BOOLEAN, submitted : BOOLEAN, revoked : BOOLEAN,
             expired : BOOLEAN, emailed : BOOLEAN]
AnsweredWell(s) ==
    /\ \A a \in s.answers : a[1] = a[2] \/ ({a[1], a[2]} \subseteq Unspelled /\ s.edited)
    /\ s.edited \/ \A i \in DOMAIN s.asks : <<s.asks[i], s.asks[i]>> \in s.answers

IntakeTypes ==
    /\ asked.questions \in Forms
    /\ link \in [Links -> LinkRows]
    /\ page \in [Browsers -> [link : Links \cup {"none"}, asks : Served]]
    /\ answering \in [Browsers -> [link : Links \cup {"none"}, sent : Sendings]]
    /\ reviewer \in [Desk -> [link : Links \cup {"none"}, does : {"nothing", "revoke", "review"}]]
    /\ submission \in [Links -> Sendings]
    /\ ends \in [Links -> Endings]

EndsTold ==
    /\ UsedOnce
    /\ \A l \in Links : ends[l] # << >> => link[l].submitted \/ link[l].revoked \/ link[l].expired
    /\ \A l \in Links : link[l].submitted \/ link[l].revoked \/ link[l].expired => link[l].issued
    /\ \A s \in Desk : reviewer[s].does = "revoke" =>
          reviewer[s].link \in Links /\ link[reviewer[s].link].issued

PostsKept ==
    /\ AnswersKept
    /\ \A b \in Browsers : answering[b] # NoPost =>
          /\ answering[b].link \in Links /\ answering[b].sent.made
          /\ answering[b].sent.reviewers = << >> /\ AnsweredWell(answering[b].sent)

ReviewsTold ==
    /\ FirstReviewerStays
    /\ \A l \in Links : ~submission[l].made => submission[l].reviewers = << >>
    /\ \A s \in Desk : reviewer[s].does = "review" =>
          LET l == reviewer[s].link IN
          /\ l \in Links /\ submission[l].made
          /\ submission[l].reviewers = << >> \/ l \in doubled
          /\ \A t \in Desk \ {s} : reviewer[t].does = "review" /\ reviewer[t].link = l => l \in doubled

IntakeInv == IntakeTypes /\ EndsTold /\ PostsKept /\ ReviewsTold

LEMMA BlankTypes ==
    /\ NewLink \in LinkRows /\ NoLink \in LinkRows /\ ~NoLink.submitted /\ ~NewLink.submitted
    /\ NewLink.issued /\ ~NoLink.revoked /\ ~NoLink.expired
    /\ NoSubmission \in Sendings /\ ~NoSubmission.made /\ NoSubmission.reviewers = << >>
    /\ AnsweredWell(NoSubmission) /\ << >> \in Served
<1>1. /\ NewLink \in LinkRows /\ NoLink \in LinkRows /\ ~NoLink.submitted /\ ~NewLink.submitted
      /\ NewLink.issued /\ ~NoLink.revoked /\ ~NoLink.expired
  BY DEF NewLink, NoLink, LinkRows
<1>2. << >> \in Served /\ {} \in Given /\ << >> \in Seq(Desk)
  BY DEF Served, Given
<1>3. NoSubmission \in Sendings /\ ~NoSubmission.made /\ NoSubmission.reviewers = << >>
  BY <1>2 DEF NoSubmission, Sendings
<1>4. NoSubmission.answers = {} /\ NoSubmission.asks = << >>
  BY DEF NoSubmission
<1>5. QED BY <1>1, <1>2, <1>3, <1>4 DEF AnsweredWell

LEMMA AnswersKeptBy == AnswersKept <=> \A l \in Links : AnsweredWell(submission[l])
BY DEF AnswersKept, AnsweredWell

\* What the form reads from a page: an answer stands under its own question, unless the form
\* was edited and neither question can be spelled.
LEMMA FormReads ==
    ASSUME NEW f \in Forms, NEW reads \in Served
    PROVE  /\ AnswersTo(f, reads) \in Given
           /\ \A a \in AnswersTo(f, reads) : a[1] = a[2] \/ ({a[1], a[2]} \subseteq Unspelled /\ reads # f)
           /\ reads = f => \A i \in DOMAIN reads : <<reads[i], reads[i]>> \in AnswersTo(f, reads)
<1>1. /\ \A i \in DOMAIN f : f[i] \in Questions
      /\ \A i \in DOMAIN reads : reads[i] \in Questions
  BY DEF Forms, Served
<1>2. ASSUME NEW a \in AnswersTo(f, reads)
      PROVE  /\ a \in Questions \X Questions
             /\ a[1] = a[2] \/ ({a[1], a[2]} \subseteq Unspelled /\ reads # f)
  <2>1. PICK ij \in (DOMAIN f) \X (DOMAIN reads) :
            Key(f, ij[1]) = Key(reads, ij[2]) /\ a = <<f[ij[1]], reads[ij[2]]>>
    BY <1>2 DEF AnswersTo
  <2>2. PICK i \in DOMAIN f, j \in DOMAIN reads : ij = <<i, j>>
    BY <2>1
  <2>3. a = <<f[i], reads[j]>> /\ f[i] \in Questions /\ reads[j] \in Questions
    BY <1>1, <2>1, <2>2
  <2>4. /\ i = j
        /\ (IF f[i] \in Unspelled THEN "" ELSE f[i]) = (IF reads[j] \in Unspelled THEN "" ELSE reads[j])
    BY <2>1, <2>2 DEF Key
  <2>5. f[i] = reads[j] \/ (f[i] \in Unspelled /\ reads[j] \in Unspelled)
    BY <2>3, <2>4, IntakeAssumption
  <2>6. reads = f => f[i] = reads[j]
    BY <2>4
  <2>7. QED BY <2>3, <2>5, <2>6
<1>3. ASSUME reads = f, NEW i \in DOMAIN reads PROVE <<reads[i], reads[i]>> \in AnswersTo(f, reads)
  <2>1. <<i, i>> \in (DOMAIN f) \X (DOMAIN reads) /\ Key(f, i) = Key(reads, i)
    BY <1>3
  <2>2. QED BY <1>3, <2>1 DEF AnswersTo
<1>4. QED BY <1>2, <1>3 DEF Given

LEMMA IntakeInvInit == IntakeInit => IntakeInv
<1> SUFFICES ASSUME IntakeInit PROVE IntakeInv
  OBVIOUS
<1>1. asked.questions \in Forms
  <2>1. PICK p \in Questions, q \in Questions : p # q
    BY IntakeAssumption
  <2> DEFINE f == [i \in 1..2 |-> IF i = 1 THEN p ELSE q]
  <2>2. f \in [1..2 -> Questions] /\ f[1] # f[2] /\ f \in Seq(Questions)
    BY <2>1
  <2>3. f \in Forms /\ Len(f) = 2
    BY <2>2 DEF Forms
  <2> HIDE DEF f
  <2>4. QED BY <2>2, <2>3 DEF IntakeInit
<1>2. /\ link \in [Links -> LinkRows] /\ \A l \in Links : link[l] = NoLink
      /\ submission \in [Links -> Sendings] /\ \A l \in Links : submission[l] = NoSubmission
      /\ ends \in [Links -> Endings] /\ \A l \in Links : ends[l] = << >>
  BY BlankTypes DEF IntakeInit, Endings
<1>3. /\ page \in [Browsers -> [link : Links \cup {"none"}, asks : Served]]
      /\ answering \in [Browsers -> [link : Links \cup {"none"}, sent : Sendings]]
      /\ \A b \in Browsers : answering[b] = NoPost
  BY BlankTypes DEF IntakeInit, NoPage, NoPost
<1>4. /\ reviewer \in [Desk -> [link : Links \cup {"none"}, does : {"nothing", "revoke", "review"}]]
      /\ \A s \in Desk : reviewer[s].does = "nothing"
  BY DEF IntakeInit, NoClerk
<1>5. IntakeTypes
  BY <1>1, <1>2, <1>3, <1>4 DEF IntakeTypes
<1>6. EndsTold
  BY <1>2, <1>4, BlankTypes DEF EndsTold, UsedOnce
<1>7. PostsKept
  BY <1>2, <1>3, BlankTypes, AnswersKeptBy DEF PostsKept
<1>8. ReviewsTold
  <2>1. FirstReviewerStays
    BY <1>2, BlankTypes DEF FirstReviewerStays
  <2>2. QED BY <1>2, <1>4, <2>1, BlankTypes DEF ReviewsTold
<1>9. QED BY <1>5, <1>6, <1>7, <1>8 DEF IntakeInv

\* What the links and their ends say does not concern what was posted, or the reviews.
LEMMA LinkMoves ==
    ASSUME IntakeInv, NEW l \in Links, NEW r \in LinkRows, link' = [link EXCEPT ![l] = r],
           r.submitted <=> link[l].submitted, link[l].issued => r.issued,
           r.submitted \/ r.revoked \/ r.expired => r.issued,
           NEW e \in Endings, ends' = [ends EXCEPT ![l] = e],
           e # << >> => r.submitted \/ r.revoked \/ r.expired,
           r.submitted => e # << >> /\ Head(e) = "submitted",
           UNCHANGED <<asked, answering, submission, doubled>>,
           page' \in [Browsers -> [link : Links \cup {"none"}, asks : Served]],
           reviewer' = reviewer \/ \E s \in Desk : reviewer' = [reviewer EXCEPT ![s] = NoClerk]
    PROVE  IntakeInv'
<1>1. /\ link' \in [Links -> LinkRows] /\ link'[l] = r /\ \A k \in Links \ {l} : link'[k] = link[k]
      /\ ends' \in [Links -> Endings] /\ ends'[l] = e /\ \A k \in Links \ {l} : ends'[k] = ends[k]
  BY DEF IntakeInv, IntakeTypes
<1>2. /\ reviewer' \in [Desk -> [link : Links \cup {"none"}, does : {"nothing", "revoke", "review"}]]
      /\ \A s \in Desk : reviewer'[s].does # "nothing" => reviewer'[s] = reviewer[s]
  BY DEF IntakeInv, IntakeTypes, NoClerk
<1>3. IntakeTypes'
  BY <1>1, <1>2 DEF IntakeInv, IntakeTypes
<1>4. UsedOnce'
  BY <1>1 DEF IntakeInv, EndsTold, UsedOnce
<1>5. EndsTold'
  BY <1>1, <1>2, <1>4 DEF IntakeInv, EndsTold
<1>6. PostsKept'
  BY AnswersKeptBy DEF IntakeInv, PostsKept, AnswersKept, AnsweredWell
<1>7. ReviewsTold'
  BY <1>2 DEF IntakeInv, ReviewsTold, FirstReviewerStays
<1>8. QED BY <1>3, <1>5, <1>6, <1>7 DEF IntakeInv

LEMMA LinkStep ==
    ASSUME IntakeInv, NEW l \in Links,
           IssueLink(l) \/ EmailLink(l) \/ ExpireLink(l) \/ \E b \in Browsers : OpenLink(b, l)
    PROVE  IntakeInv'
<1>1. /\ link[l] \in LinkRows /\ ends[l] \in Endings /\ ends = [ends EXCEPT ![l] = ends[l]]
      /\ page \in [Browsers -> [link : Links \cup {"none"}, asks : Served]]
  BY DEF IntakeInv, IntakeTypes
<1>2. /\ ends[l] # << >> => link[l].submitted \/ link[l].revoked \/ link[l].expired
      /\ link[l].submitted => ends[l] # << >> /\ Head(ends[l]) = "submitted"
      /\ link[l].submitted \/ link[l].revoked \/ link[l].expired => link[l].issued
  BY DEF IntakeInv, EndsTold, UsedOnce
<1>3. CASE IssueLink(l)
  <2>1. ~link[l].submitted /\ ends[l] = << >> /\ link' = [link EXCEPT ![l] = NewLink]
        /\ UNCHANGED <<asked, answering, submission, doubled, page, reviewer, ends>>
    BY <1>1, <1>2, <1>3 DEF IssueLink
  <2>2. QED BY <1>1, <2>1, BlankTypes, LinkMoves
<1>4. CASE EmailLink(l)
  <2> DEFINE r == [link[l] EXCEPT !.emailed = TRUE]
  <2>1. r \in LinkRows /\ r.issued = link[l].issued /\ r.submitted = link[l].submitted /\ r.revoked = link[l].revoked /\ r.expired = link[l].expired
    BY <1>1 DEF LinkRows
  <2>2. link' = [link EXCEPT ![l] = r] /\ UNCHANGED <<asked, answering, submission, doubled, page, reviewer, ends>>
    BY <1>4 DEF EmailLink, IntakeInv, IntakeTypes
  <2> HIDE DEF r
  <2>3. QED BY <1>1, <1>2, <2>1, <2>2, LinkMoves
<1>5. CASE ExpireLink(l)
  <2> DEFINE r == [link[l] EXCEPT !.expired = TRUE]
             e == Append(ends[l], "expired")
  <2>1. r \in LinkRows /\ r.submitted = link[l].submitted /\ r.expired /\ r.issued
    BY <1>1, <1>5 DEF LinkRows, ExpireLink
  <2>2. link' = [link EXCEPT ![l] = r] /\ ends' = [ends EXCEPT ![l] = e]
        /\ UNCHANGED <<asked, answering, submission, doubled, page, reviewer>>
    BY <1>5 DEF ExpireLink, IntakeInv, IntakeTypes
  <2>3. e \in Endings /\ (ends[l] # << >> => e # << >> /\ Head(e) = Head(ends[l]))
    BY <1>1 DEF Endings
  <2> HIDE DEF r, e
  <2>4. QED BY <1>1, <1>2, <2>1, <2>2, <2>3, LinkMoves
<1>6. ASSUME NEW b \in Browsers, OpenLink(b, l) PROVE IntakeInv'
  <2> DEFINE r == [link[l] EXCEPT !.opened = TRUE]
  <2>1. r \in LinkRows /\ r.issued = link[l].issued /\ r.submitted = link[l].submitted /\ r.revoked = link[l].revoked /\ r.expired = link[l].expired
    BY <1>1 DEF LinkRows
  <2>2. link' = [link EXCEPT ![l] = r] /\ UNCHANGED <<asked, answering, submission, doubled, reviewer, ends>>
    BY <1>6 DEF OpenLink, IntakeInv, IntakeTypes
  <2>3. page' \in [Browsers -> [link : Links \cup {"none"}, asks : Served]]
    BY <1>1, <1>6 DEF OpenLink, Served, IntakeInv, IntakeTypes
  <2> HIDE DEF r
  <2>4. QED BY <1>1, <1>2, <2>1, <2>2, <2>3, LinkMoves
<1>7. QED BY <1>3, <1>4, <1>5, <1>6

LEMMA RevokeStep ==
    ASSUME IntakeInv, NEW s \in Desk, RevokeLink(s) PROVE IntakeInv'
<1> DEFINE l == reviewer[s].link
           r == [link[l] EXCEPT !.revoked = TRUE]
           e == IF link[l].revoked THEN ends[l] ELSE Append(ends[l], "revoked")
<1>1. l \in Links /\ link[l].issued
  BY DEF RevokeLink, IntakeInv, EndsTold
<1>2. /\ link[l] \in LinkRows /\ ends[l] \in Endings /\ ends = [ends EXCEPT ![l] = ends[l]]
  BY <1>1 DEF IntakeInv, IntakeTypes
<1>3. /\ link[l].submitted => ends[l] # << >> /\ Head(ends[l]) = "submitted"
  BY <1>1 DEF IntakeInv, EndsTold, UsedOnce
<1>4. e \in Endings /\ (ends[l] # << >> => e # << >> /\ Head(e) = Head(ends[l]))
  BY <1>2 DEF Endings
<1>5. r \in LinkRows /\ r.submitted = link[l].submitted /\ r.revoked /\ r.issued
  BY <1>1, <1>2 DEF LinkRows
<1>6. /\ link' = [link EXCEPT ![l] = r] /\ ends' = [ends EXCEPT ![l] = e]
      /\ UNCHANGED <<asked, answering, submission, doubled, page>>
      /\ reviewer' = [reviewer EXCEPT ![s] = NoClerk]
  BY <1>1, <1>2 DEF RevokeLink, IntakeInv, IntakeTypes
<1>7. PICK k \in Links, q \in LinkRows, d \in Endings : k = l /\ q = r /\ d = e
  BY <1>1, <1>4, <1>5
<1> HIDE DEF r, e, l
<1>8. page \in [Browsers -> [link : Links \cup {"none"}, asks : Served]]
  BY DEF IntakeInv, IntakeTypes
<1>9. QED BY <1>1, <1>2, <1>3, <1>4, <1>5, <1>6, <1>7, <1>8, LinkMoves

LEMMA AskStep == ASSUME IntakeInv, EditForm \/ \E b \in Browsers : PostAnswers(b) PROVE IntakeInv'
<1>1. CASE EditForm
  <2>1. asked'.questions \in Forms
    BY <1>1 DEF EditForm
  <2>2. QED BY <1>1, <2>1, AnswersKeptBy DEF EditForm, IntakeInv, IntakeTypes, EndsTold, UsedOnce, PostsKept,
             AnswersKept, AnsweredWell, ReviewsTold, FirstReviewerStays
<1>2. ASSUME NEW b \in Browsers, PostAnswers(b) PROVE IntakeInv'
  <2> DEFINE reads == page[b].asks
             f == asked.questions
             sent == [NoSubmission EXCEPT !.made = TRUE, !.asks = reads,
                            !.answers = AnswersTo(f, reads), !.edited = reads # f]
             post == [link |-> page[b].link, sent |-> sent]
  <2>1. f \in Forms /\ reads \in Served /\ page[b].link \in Links
    BY <1>2 DEF PostAnswers, IntakeInv, IntakeTypes
  <2>2. /\ AnswersTo(f, reads) \in Given
        /\ \A a \in AnswersTo(f, reads) : a[1] = a[2] \/ ({a[1], a[2]} \subseteq Unspelled /\ reads # f)
        /\ reads = f => \A i \in DOMAIN reads : <<reads[i], reads[i]>> \in AnswersTo(f, reads)
    BY <2>1, FormReads
  <2>3. PICK q \in Served, g \in Given, x \in BOOLEAN :
            q = reads /\ g = AnswersTo(f, reads) /\ (x <=> reads # f)
    BY <2>1, <2>2
  <2>4. answering' = [answering EXCEPT ![b] = post] /\ UNCHANGED <<asked, link, page, reviewer, submission, ends, doubled>>
    BY <1>2 DEF PostAnswers
  <2>5. sent = [NoSubmission EXCEPT !.made = TRUE, !.asks = q, !.answers = g, !.edited = x]
    BY <2>3
  <2> HIDE DEF sent
  <2>6. /\ sent \in Sendings /\ sent.made /\ sent.reviewers = << >>
        /\ sent.asks = q /\ sent.answers = g /\ sent.edited = x
    <3>1. PICK blank : blank = NoSubmission
      OBVIOUS
    <3>2. blank \in Sendings /\ blank.reviewers = << >>
      BY <3>1, BlankTypes
    <3>3. blank \in [made : BOOLEAN, asks : Served, answers : Given, edited : BOOLEAN, reviewers : Seq(Desk)]
      BY <3>2 DEF Sendings
    <3>4. /\ sent \in [made : BOOLEAN, asks : Served, answers : Given, edited : BOOLEAN, reviewers : Seq(Desk)]
          /\ sent.made /\ sent.reviewers = blank.reviewers
          /\ sent.asks = q /\ sent.answers = g /\ sent.edited = x
      BY <2>5, <3>1, <3>3
    <3>5. QED BY <3>2, <3>4 DEF Sendings
  <2>7. AnsweredWell(sent)
    BY <2>2, <2>3, <2>6 DEF AnsweredWell
  <2>8. /\ answering' \in [Browsers -> [link : Links \cup {"none"}, sent : Sendings]]
        /\ answering'[b].link \in Links /\ answering'[b].sent = sent
        /\ \A c \in Browsers \ {b} : answering'[c] = answering[c]
    BY <2>1, <2>4, <2>6 DEF IntakeInv, IntakeTypes
  <2>9. IntakeTypes'
    BY <2>4, <2>8 DEF IntakeInv, IntakeTypes
  <2>10. EndsTold' /\ ReviewsTold'
    BY <2>4 DEF IntakeInv, EndsTold, UsedOnce, ReviewsTold, FirstReviewerStays
  <2>11. AnswersKept'
    BY <2>4 DEF IntakeInv, PostsKept, AnswersKept
  <2>12. PostsKept'
    <3>1. \A c \in Browsers \ {b} : answering'[c] # NoPost =>
              /\ answering'[c].link \in Links /\ answering'[c].sent.made
              /\ answering'[c].sent.reviewers = << >> /\ AnsweredWell(answering'[c].sent)
      BY <2>8 DEF IntakeInv, PostsKept
    <3>2. /\ answering'[b].link \in Links /\ answering'[b].sent.made
          /\ answering'[b].sent.reviewers = << >> /\ AnsweredWell(answering'[b].sent)
      BY <2>6, <2>7, <2>8
    <3>3. QED BY <2>11, <3>1, <3>2 DEF PostsKept, AnsweredWell
  <2>13. QED BY <2>9, <2>10, <2>12 DEF IntakeInv
<1>3. QED BY <1>1, <1>2

LEMMA SubmitStep == ASSUME IntakeInv, NEW b \in Browsers, SubmitAnswers(b) PROVE IntakeInv'
<1> DEFINE l == answering[b].link
           sent == answering[b].sent
<1>1. /\ answering[b] # NoPost /\ l \in Links /\ sent \in Sendings /\ sent.made /\ sent.reviewers = << >>
      /\ AnsweredWell(sent) /\ link[l] \in LinkRows /\ ends[l] \in Endings
  BY DEF SubmitAnswers, IntakeInv, IntakeTypes, PostsKept
<1>2. /\ UNCHANGED <<asked, reviewer, doubled>> /\ answering' = [answering EXCEPT ![b] = NoPost]
      /\ page' = [page EXCEPT ![b] = NoPage]
  BY DEF SubmitAnswers
<1>3. /\ page' \in [Browsers -> [link : Links \cup {"none"}, asks : Served]]
      /\ answering' \in [Browsers -> [link : Links \cup {"none"}, sent : Sendings]]
      /\ answering'[b] = NoPost /\ \A c \in Browsers \ {b} : answering'[c] = answering[c]
  BY <1>2, BlankTypes DEF IntakeInv, IntakeTypes, NoPage, NoPost
<1>4. CASE ~Accepts(l)
  <2>1. UNCHANGED <<submission, link, ends>>
    BY <1>4 DEF SubmitAnswers
  <2>2. IntakeTypes'
    BY <1>2, <1>3, <2>1 DEF IntakeInv, IntakeTypes
  <2>3. EndsTold' /\ ReviewsTold'
    BY <1>2, <2>1 DEF IntakeInv, EndsTold, UsedOnce, ReviewsTold, FirstReviewerStays
  <2>4. AnswersKept'
    BY <2>1 DEF IntakeInv, PostsKept, AnswersKept
  <2>5. PostsKept'
    <3>1. \A c \in Browsers : answering'[c] # NoPost => answering'[c] = answering[c]
      BY <1>3
    <3>2. \A c \in Browsers : answering'[c] # NoPost =>
              /\ answering'[c].link \in Links /\ answering'[c].sent.made
              /\ answering'[c].sent.reviewers = << >> /\ AnsweredWell(answering'[c].sent)
      BY <3>1 DEF IntakeInv, PostsKept
    <3>3. QED BY <2>4, <3>2 DEF PostsKept, AnsweredWell
  <2>6. QED BY <2>2, <2>3, <2>5 DEF IntakeInv
<1>5. CASE Accepts(l)
  <2>1. /\ submission' = [submission EXCEPT ![l] = sent]
        /\ link' = [link EXCEPT ![l].submitted = TRUE]
        /\ ends' = [ends EXCEPT ![l] = Append(@, "submitted")]
        /\ link[l].issued /\ ~link[l].revoked /\ ~link[l].submitted /\ ~link[l].expired /\ ~submission[l].made
    BY <1>5 DEF SubmitAnswers, Accepts, IsActive
  <2>2. ends[l] = << >>
    BY <1>1, <2>1 DEF IntakeInv, EndsTold
  <2>3. /\ ends' \in [Links -> Endings] /\ ends'[l] = <<"submitted">>
        /\ \A k \in Links \ {l} : ends'[k] = ends[k]
    BY <1>1, <2>1, <2>2 DEF Endings, IntakeInv, IntakeTypes
  <2>4. /\ submission' \in [Links -> Sendings] /\ submission'[l] = sent
        /\ \A k \in Links \ {l} : submission'[k] = submission[k]
    BY <1>1, <2>1 DEF IntakeInv, IntakeTypes
  <2>5. /\ link' \in [Links -> LinkRows] /\ \A k \in Links \ {l} : link'[k] = link[k]
        /\ link'[l].submitted /\ link'[l].issued
    BY <1>1, <2>1 DEF IntakeInv, IntakeTypes, LinkRows
  <2> HIDE DEF l, sent
  <2>6. IntakeTypes'
    BY <1>2, <1>3, <2>3, <2>4, <2>5 DEF IntakeInv, IntakeTypes
  <2>7. UsedOnce'
    BY <1>1, <2>3, <2>4, <2>5 DEF IntakeInv, EndsTold, UsedOnce
  <2>8. EndsTold'
    BY <1>1, <1>2, <2>3, <2>5, <2>7 DEF IntakeInv, EndsTold
  <2>9. AnswersKept'
    <3>1. \A k \in Links : AnsweredWell(submission[k])
      BY AnswersKeptBy DEF IntakeInv, PostsKept
    <3>2. \A k \in Links : AnsweredWell(submission'[k])
      <4>1. \A k \in Links : submission'[k] = submission[k] \/ (submission'[k] = sent /\ AnsweredWell(sent))
        BY <1>1, <2>4
      <4>2. QED BY <3>1, <4>1
    <3>3. QED BY <3>2 DEF AnswersKept, AnsweredWell
  <2>10. PostsKept'
    <3>1. \A c \in Browsers : answering'[c] # NoPost => answering'[c] = answering[c]
      BY <1>3
    <3>2. \A c \in Browsers : answering'[c] # NoPost =>
              /\ answering'[c].link \in Links /\ answering'[c].sent.made
              /\ answering'[c].sent.reviewers = << >> /\ AnsweredWell(answering'[c].sent)
      BY <3>1 DEF IntakeInv, PostsKept
    <3>3. QED BY <2>9, <3>2 DEF PostsKept, AnsweredWell
  <2>11. FirstReviewerStays'
    BY <1>1, <1>2, <2>4 DEF IntakeInv, ReviewsTold, FirstReviewerStays
  <2>12. ReviewsTold'
    BY <1>1, <1>2, <2>1, <2>4, <2>11 DEF IntakeInv, ReviewsTold
  <2>13. QED BY <2>6, <2>8, <2>10, <2>12 DEF IntakeInv
<1>6. QED BY <1>4, <1>5

LEMMA LookStep ==
    ASSUME IntakeInv, NEW s \in Desk, NEW l \in Links, LookToRevoke(s, l) \/ LookToReview(s, l)
    PROVE  IntakeInv'
<1>1. /\ reviewer[s].does = "nothing" /\ UNCHANGED <<asked, link, page, answering, submission, ends>>
      /\ reviewer \in [Desk -> [link : Links \cup {"none"}, does : {"nothing", "revoke", "review"}]]
  BY DEF LookToRevoke, LookToReview, NoClerk, IntakeInv, IntakeTypes
<1>2. PostsKept' /\ UsedOnce'
  BY <1>1 DEF IntakeInv, PostsKept, AnswersKept, AnsweredWell, EndsTold, UsedOnce
<1>3. CASE LookToRevoke(s, l)
  <2>1. /\ reviewer' \in [Desk -> [link : Links \cup {"none"}, does : {"nothing", "revoke", "review"}]]
        /\ reviewer'[s].does = "revoke" /\ reviewer'[s].link = l /\ UNCHANGED doubled
        /\ link[l].issued /\ \A t \in Desk \ {s} : reviewer'[t] = reviewer[t]
    BY <1>1, <1>3 DEF LookToRevoke
  <2>2. IntakeTypes' /\ EndsTold'
    BY <1>1, <1>2, <2>1 DEF IntakeInv, IntakeTypes, EndsTold
  <2>3. ReviewsTold'
    BY <1>1, <2>1 DEF IntakeInv, ReviewsTold, FirstReviewerStays
  <2>4. QED BY <1>2, <2>2, <2>3 DEF IntakeInv
<1>4. CASE LookToReview(s, l)
  <2>1. /\ reviewer' \in [Desk -> [link : Links \cup {"none"}, does : {"nothing", "revoke", "review"}]]
        /\ reviewer'[s].does = "review" /\ reviewer'[s].link = l
        /\ submission[l].made /\ submission[l].reviewers = << >>
        /\ \A t \in Desk \ {s} : reviewer'[t] = reviewer[t]
    BY <1>1, <1>4 DEF LookToReview
  <2>2. /\ doubled \subseteq doubled'
        /\ \A t \in Desk \ {s} : reviewer[t].does = "review" /\ reviewer[t].link = l => l \in doubled'
    <3>1. \A t \in Desk : reviewer[t].does = "review" /\ reviewer[t].link = l =>
              reviewer[t] = [link |-> l, does |-> "review"]
      BY <1>1
    <3>2. doubled' = IF \E t \in Desk : reviewer[t] = [link |-> l, does |-> "review"]
                     THEN doubled \cup {l} ELSE doubled
      BY <1>4 DEF LookToReview
    <3>3. QED BY <3>1, <3>2
  <2>3. IntakeTypes' /\ EndsTold'
    BY <1>1, <1>2, <2>1 DEF IntakeInv, IntakeTypes, EndsTold
  <2>4. FirstReviewerStays'
    BY <1>1, <2>2 DEF IntakeInv, ReviewsTold, FirstReviewerStays
  <2>5. ReviewsTold'
    BY <1>1, <2>1, <2>2, <2>4 DEF IntakeInv, ReviewsTold
  <2>6. QED BY <1>2, <2>3, <2>5 DEF IntakeInv
<1>5. QED BY <1>3, <1>4

LEMMA MarkStep == ASSUME IntakeInv, NEW s \in Desk, MarkReviewed(s) PROVE IntakeInv'
<1> DEFINE l == reviewer[s].link
           r == [submission[l] EXCEPT !.reviewers = Append(submission[l].reviewers, s)]
<1>1. /\ reviewer[s].does = "review" /\ l \in Links /\ submission[l].made /\ submission[l] \in Sendings
      /\ submission[l].reviewers = << >> \/ l \in doubled
      /\ \A t \in Desk \ {s} : reviewer[t].does = "review" /\ reviewer[t].link = l => l \in doubled
  BY DEF MarkReviewed, IntakeInv, IntakeTypes, ReviewsTold
<1>2. submission[l].reviewers \in Seq(Desk)
  BY <1>1 DEF Sendings
<1>3. Append(submission[l].reviewers, s) \in Seq(Desk)
      /\ (submission[l].reviewers = << >> => Len(Append(submission[l].reviewers, s)) = 1)
  BY <1>2
<1>4. /\ r \in Sendings /\ r.made /\ r.asks = submission[l].asks /\ r.answers = submission[l].answers
      /\ r.edited = submission[l].edited /\ r.reviewers = Append(submission[l].reviewers, s)
  <2>1. PICK q \in Seq(Desk) : q = Append(submission[l].reviewers, s)
    BY <1>3
  <2>2. QED BY <1>1, <2>1 DEF Sendings
<1>5. /\ submission' = [submission EXCEPT ![l] = r] /\ reviewer' = [reviewer EXCEPT ![s] = NoClerk]
      /\ UNCHANGED <<asked, link, page, answering, ends, doubled>>
  BY <1>1 DEF MarkReviewed, IntakeInv, IntakeTypes
<1> HIDE DEF l, r
<1>6. /\ submission' \in [Links -> Sendings] /\ submission'[l] = r
      /\ \A k \in Links \ {l} : submission'[k] = submission[k]
      /\ reviewer' \in [Desk -> [link : Links \cup {"none"}, does : {"nothing", "revoke", "review"}]]
      /\ reviewer'[s].does = "nothing" /\ \A t \in Desk \ {s} : reviewer'[t] = reviewer[t]
  BY <1>1, <1>4, <1>5 DEF IntakeInv, IntakeTypes, NoClerk
<1>7. IntakeTypes'
  BY <1>5, <1>6 DEF IntakeInv, IntakeTypes
<1>8. EndsTold'
  BY <1>1, <1>4, <1>5, <1>6 DEF IntakeInv, EndsTold, UsedOnce
<1>9. AnswersKept'
  <2>1. \A k \in Links : AnsweredWell(submission[k])
    BY AnswersKeptBy DEF IntakeInv, PostsKept
  <2>2. AnsweredWell(r)
    BY <1>1, <1>4, <2>1 DEF AnsweredWell
  <2>3. \A k \in Links : AnsweredWell(submission'[k])
    BY <1>6, <2>1, <2>2
  <2>4. QED BY <2>3 DEF AnswersKept, AnsweredWell
<1>10. PostsKept'
  BY <1>5, <1>9 DEF IntakeInv, PostsKept, AnsweredWell
<1>11. FirstReviewerStays'
  <2>1. Len(submission'[l].reviewers) <= 1 \/ l \in doubled'
    BY <1>1, <1>3, <1>4, <1>5, <1>6
  <2>2. \A k \in Links \ {l} : Len(submission'[k].reviewers) <= 1 \/ k \in doubled'
    BY <1>5, <1>6 DEF IntakeInv, ReviewsTold, FirstReviewerStays
  <2>3. QED BY <2>1, <2>2 DEF FirstReviewerStays
<1>12. ReviewsTold'
  <2>1. \A t \in Desk : reviewer'[t].does = "review" => t # s /\ reviewer'[t] = reviewer[t]
    BY <1>6
  <2>2. \A k \in Links : submission'[k].made <=> submission[k].made
    BY <1>1, <1>4, <1>6
  <2>3. ASSUME NEW t \in Desk, reviewer'[t].does = "review"
        PROVE  LET k == reviewer'[t].link IN
               /\ k \in Links /\ submission'[k].made
               /\ submission'[k].reviewers = << >> \/ k \in doubled'
               /\ \A u \in Desk \ {t} : reviewer'[u].does = "review" /\ reviewer'[u].link = k => k \in doubled'
    <3>1. PICK k : k = reviewer'[t].link
      OBVIOUS
    <3>2. t # s /\ reviewer[t].does = "review" /\ reviewer[t].link = k
      BY <2>1, <2>3, <3>1
    <3>3. /\ k \in Links /\ submission[k].made /\ (submission[k].reviewers = << >> \/ k \in doubled)
          /\ \A u \in Desk \ {t} : reviewer[u].does = "review" /\ reviewer[u].link = k => k \in doubled
      BY <3>2 DEF IntakeInv, ReviewsTold
    <3>4. k = l => k \in doubled
      BY <1>1, <3>2
    <3>5. k # l => submission'[k] = submission[k]
      BY <1>6, <3>3
    <3>6. \A u \in Desk \ {t} : reviewer'[u].does = "review" /\ reviewer'[u].link = k => k \in doubled'
      BY <1>5, <2>1, <3>3
    <3>7. QED BY <1>5, <2>2, <3>1, <3>3, <3>4, <3>5, <3>6
  <2>4. \A k \in Links : ~submission'[k].made => submission'[k].reviewers = << >>
    BY <1>4, <1>6 DEF IntakeInv, ReviewsTold
  <2>5. QED BY <1>11, <2>3, <2>4 DEF ReviewsTold
<1>13. QED BY <1>7, <1>8, <1>10, <1>12 DEF IntakeInv

LEMMA IntakeInvStep == IntakeInv /\ [IntakeNext]_intakeVars => IntakeInv'
<1>1. ASSUME IntakeInv, UNCHANGED intakeVars PROVE IntakeInv'
  BY <1>1 DEF intakeVars, IntakeInv, IntakeTypes, EndsTold, UsedOnce, PostsKept, AnswersKept, AnsweredWell,
              ReviewsTold, FirstReviewerStays
<1>2. QED BY <1>1, LinkStep, RevokeStep, AskStep, SubmitStep, LookStep, MarkStep DEF IntakeNext

----------------------------------------------------------------------------
\* A person's timers, and the first account.  Every entry that runs was begun last, but for
\* the ones a stop overran; no entry begins or ends after the clock.

Moments == Nat
EntryRows == [made : BOOLEAN, from : Moments, to : Moments]
Dues == {"nothing", "start", "stop"}

TimeTypes ==
    /\ entries \in [Numbered -> EntryRows] /\ moment \in Moments
    /\ window \in [Windows -> [does : Dues, found : Numbered \cup {0}]]
    /\ \A w \in Windows : window[w].does = "stop" => window[w].found \in Numbered
    /\ admins \subseteq Visitors

TimeTold ==
    /\ \A m \in Numbered : entries[m].from <= moment /\ entries[m].to <= moment
                          /\ (entries[m].made => entries[m].from # 0)
    /\ \A m, n \in Running : m = n
    /\ \A m, n \in Numbered :
          entries[m].made /\ entries[n].made /\ entries[m].from < entries[n].from =>
              \/ entries[m].to # 0 /\ entries[m].to <= entries[n].from
              \/ m \in overran

TimeInv == TimeTypes /\ TimeTold

AloneFirst == \A u, v \in admins : u = v

LEMMA MomentFacts ==
    /\ 0 \in Moments /\ \A t \in Moments : t \in Nat /\ t + 1 \in Moments /\ t + 1 # 0
    /\ \A m \in Numbered : m # 0
BY TimersAssumption DEF Moments, Numbered

LEMMA TimeInvInit == TimersInit => TimeInv /\ AloneFirst
<1> SUFFICES ASSUME TimersInit PROVE TimeInv /\ AloneFirst
  OBVIOUS
<1>1. entries \in [Numbered -> EntryRows] /\ \A n \in Numbered : ~entries[n].made /\ entries[n].from = 0 /\ entries[n].to = 0
  BY MomentFacts DEF TimersInit, NoEntry, EntryRows
<1>2. /\ moment = 0 /\ overran = {} /\ admins = {}
      /\ window \in [Windows -> [does : Dues, found : Numbered \cup {0}]]
      /\ \A w \in Windows : window[w].does = "nothing"
  BY DEF TimersInit, Resting, Dues
<1>3. TimeTypes
  BY <1>1, <1>2, MomentFacts DEF TimeTypes
<1>4. TimeTold
  BY <1>1, <1>2 DEF TimeTold, Running
<1>5. QED BY <1>2, <1>3, <1>4 DEF TimeInv, AloneFirst

\* An entry ends now; it ran, or counts as overrun.
Ended(n) == [entries EXCEPT ![n].to = moment + 1]
OverranBy(n) == IF n \in Running THEN overran ELSE overran \cup {n}

LEMMA EntryEnds ==
    ASSUME TimeInv, NEW n \in Numbered, entries[n].made
    PROVE  LET after == Ended(n) IN
           /\ after \in [Numbered -> EntryRows]
           /\ \A m \in Numbered : after[m].made = entries[m].made /\ after[m].from = entries[m].from
           /\ \A m \in Numbered \ {n} : after[m] = entries[m]
           /\ after[n].to = moment + 1
           /\ \A k, m \in Numbered :
                 after[k].made /\ after[m].made /\ after[k].from < after[m].from =>
                    \/ after[k].to # 0 /\ after[k].to <= after[m].from
                    \/ k \in OverranBy(n)
<1> DEFINE after == Ended(n)
           over == OverranBy(n)
<1> DEFINE r == [entries[n] EXCEPT !.to = moment + 1]
<1>1. entries[n] \in EntryRows /\ moment + 1 \in Moments /\ moment + 1 # 0
  BY MomentFacts DEF TimeInv, TimeTypes
<1>2. r \in EntryRows /\ r.to = moment + 1 /\ r.made = entries[n].made /\ r.from = entries[n].from
  BY <1>1 DEF EntryRows
<1>3. after = [entries EXCEPT ![n] = r]
  BY DEF TimeInv, TimeTypes, Ended
<1>9. overran \subseteq over /\ (n \notin Running => n \in over)
  BY DEF OverranBy
<1> HIDE DEF r, after, over
<1>4. /\ after \in [Numbered -> EntryRows] /\ after[n] = r /\ \A m \in Numbered \ {n} : after[m] = entries[m]
  BY <1>2, <1>3 DEF TimeInv, TimeTypes
<1>5. \A m \in Numbered : after[m].made = entries[m].made /\ after[m].from = entries[m].from
  BY <1>2, <1>4
<1>6. \A m \in Numbered : entries[n].from < entries[m].from /\ entries[m].made => n \in over
  <2> SUFFICES ASSUME NEW m \in Numbered, entries[n].from < entries[m].from, entries[m].made, n \in Running
               PROVE  n \in overran
    BY <1>9
  <2>1. entries[n].to = 0
    BY DEF Running
  <2>2. QED BY <2>1 DEF TimeInv, TimeTold
<1>7. ASSUME NEW k \in Numbered, NEW m \in Numbered, after[k].made, after[m].made, after[k].from < after[m].from
      PROVE  (after[k].to # 0 /\ after[k].to <= after[m].from) \/ k \in over
  <2>1. entries[k].made /\ entries[m].made /\ entries[k].from < entries[m].from
    BY <1>5, <1>7
  <2>2. CASE k = n
    BY <1>6, <2>1, <2>2
  <2>3. CASE k # n
    <3>1. (entries[k].to # 0 /\ entries[k].to <= entries[m].from) \/ k \in overran
      BY <2>1 DEF TimeInv, TimeTold
    <3>2. after[k].to = entries[k].to /\ after[m].from = entries[m].from /\ overran \subseteq over
      BY <1>4, <1>5, <1>9, <2>3
    <3>3. QED BY <3>1, <3>2
  <2>4. QED BY <2>2, <2>3
<1>8. QED BY <1>2, <1>4, <1>5, <1>7 DEF after, over

LEMMA StopStep == ASSUME TimeInv, NEW w \in Windows, StopTimer(w) PROVE TimeInv'
<1> DEFINE n == window[w].found
<1>1. /\ n \in Numbered /\ window' = [window EXCEPT ![w] = Resting] /\ admins' = admins
      /\ IF entries[n].made
         THEN /\ entries' = [entries EXCEPT ![n].to = moment + 1]
              /\ moment' = moment + 1
              /\ overran' = IF n \in Running THEN overran ELSE overran \cup {n}
         ELSE UNCHANGED <<entries, moment, overran>>
  BY DEF StopTimer, TimeInv, TimeTypes
<1>2. /\ window' \in [Windows -> [does : Dues, found : Numbered \cup {0}]]
      /\ \A v \in Windows : window'[v].does = "stop" => window'[v].found \in Numbered
  BY <1>1 DEF Resting, Dues, TimeInv, TimeTypes
<1>3. PICK e \in Numbered : e = n
  BY <1>1
<1> HIDE DEF n
<1>4. CASE ~entries[n].made
  <2>1. TimeTypes' /\ UNCHANGED <<entries, moment, overran>>
    BY <1>1, <1>2, <1>4 DEF TimeInv, TimeTypes
  <2>2. QED BY <2>1 DEF TimeInv, TimeTold, Running
<1>5. CASE entries[n].made
  <2>1. entries' = Ended(e) /\ moment' = moment + 1 /\ overran' = OverranBy(e)
    BY <1>1, <1>3, <1>5 DEF Ended, OverranBy
  <2>2. /\ entries' \in [Numbered -> EntryRows]
        /\ \A m \in Numbered : entries'[m].made = entries[m].made /\ entries'[m].from = entries[m].from
        /\ \A m \in Numbered \ {e} : entries'[m] = entries[m]
        /\ entries'[e].to = moment + 1
        /\ \A k, m \in Numbered :
              entries'[k].made /\ entries'[m].made /\ entries'[k].from < entries'[m].from =>
                 \/ entries'[k].to # 0 /\ entries'[k].to <= entries'[m].from
                 \/ k \in overran'
    BY <1>3, <1>5, <2>1, EntryEnds
  <2>3. moment \in Moments /\ moment' \in Moments /\ moment + 1 # 0 /\ moment \in Nat
    BY <2>1, MomentFacts DEF TimeInv, TimeTypes
  <2>4. TimeTypes'
    BY <1>1, <1>2, <2>2, <2>3 DEF TimeInv, TimeTypes
  <2>5. Running' \subseteq Running
    BY <2>1, <2>2, <2>3 DEF Running
  <2>6. ASSUME NEW m \in Numbered
        PROVE  entries'[m].from <= moment' /\ entries'[m].to <= moment' /\ (entries'[m].made => entries'[m].from # 0)
    <3>1. entries[m] \in EntryRows /\ entries[m].from <= moment /\ entries[m].to <= moment
          /\ (entries[m].made => entries[m].from # 0)
      BY DEF TimeInv, TimeTypes, TimeTold
    <3>2. entries[m].from \in Nat /\ entries[m].to \in Nat
      BY <3>1 DEF EntryRows, Moments
    <3>3. entries'[m].to = entries[m].to \/ entries'[m].to = moment + 1
      BY <2>2
    <3>4. QED BY <2>1, <2>2, <2>3, <3>1, <3>2, <3>3
  <2>7. TimeTold'
    BY <2>2, <2>5, <2>6 DEF TimeInv, TimeTold
  <2>8. QED BY <2>4, <2>7 DEF TimeInv
<1>6. QED BY <1>4, <1>5

LEMMA LookTimerStep ==
    ASSUME TimeInv, NEW w \in Windows, LookToStart(w) \/ LookToStop(w) PROVE TimeInv'
<1>1. Found \in Numbered \cup {0} /\ (Running # {} => Found \in Numbered)
  BY DEF Found, Running
<1>2. UNCHANGED <<entries, moment, overran, admins>>
  BY DEF LookToStart, LookToStop
<1>3. PICK does \in {"start", "stop"} :
          /\ window' = [window EXCEPT ![w] = [does |-> does, found |-> Found]]
          /\ does = "stop" => Running # {}
  BY DEF LookToStart, LookToStop
<1>4. PICK n \in Numbered \cup {0} : n = Found
  BY <1>1
<1>5. /\ window' \in [Windows -> [does : Dues, found : Numbered \cup {0}]]
      /\ \A v \in Windows : window'[v].does = "stop" => window'[v].found \in Numbered
  BY <1>1, <1>3, <1>4 DEF Dues, TimeInv, TimeTypes
<1>6. QED BY <1>2, <1>5 DEF TimeInv, TimeTypes, TimeTold, Running

LEMMA DeleteStep == ASSUME TimeInv, NEW n \in Numbered, DeleteEntry(n) PROVE TimeInv'
<1> DEFINE r == [entries[n] EXCEPT !.made = FALSE]
<1>1. entries[n] \in EntryRows
  BY DEF TimeInv, TimeTypes
<1>2. r \in EntryRows /\ ~r.made /\ r.from = entries[n].from /\ r.to = entries[n].to
  BY <1>1 DEF EntryRows
<1>3. entries' = [entries EXCEPT ![n] = r] /\ UNCHANGED <<moment, window, overran, admins>>
  BY DEF DeleteEntry, TimeInv, TimeTypes
<1> HIDE DEF r
<1>4. /\ entries' \in [Numbered -> EntryRows]
      /\ \A m \in Numbered : /\ entries'[m].made => entries[m].made
                             /\ entries'[m].from = entries[m].from /\ entries'[m].to = entries[m].to
  BY <1>2, <1>3 DEF TimeInv, TimeTypes
<1>5. TimeTypes'
  BY <1>3, <1>4 DEF TimeInv, TimeTypes
<1>6. Running' \subseteq Running
  BY <1>4 DEF Running
<1>7. TimeTold'
  BY <1>3, <1>4, <1>6 DEF TimeInv, TimeTold
<1>8. QED BY <1>5, <1>7 DEF TimeInv

LEMMA StartStep == ASSUME TimeInv, NEW w \in Windows, StartTimer(w) PROVE TimeInv'
<1> DEFINE before == StoppedBefore(w)
<1>1. /\ window' = [window EXCEPT ![w] = Resting] /\ UNCHANGED <<overran, admins>>
      /\ IF MayRun(before)
         THEN /\ \E n \in NextEntry : entries' =
                     [before EXCEPT ![n] = [made |-> TRUE, from |-> moment + 1, to |-> 0]]
              /\ moment' = moment + 1
         ELSE UNCHANGED <<entries, moment>>
  BY DEF StartTimer
<1>2. /\ window' \in [Windows -> [does : Dues, found : Numbered \cup {0}]]
      /\ \A v \in Windows : window'[v].does = "stop" => window'[v].found \in Numbered
  BY <1>1 DEF Resting, Dues, TimeInv, TimeTypes
<1>3. /\ before \in [Numbered -> EntryRows]
      /\ \A m \in Numbered : /\ before[m].made = entries[m].made /\ before[m].from = entries[m].from
                             /\ before[m].to \in {entries[m].to, moment + 1}
      /\ \A k, m \in Numbered :
            before[k].made /\ before[m].made /\ before[k].from < before[m].from =>
               \/ before[k].to # 0 /\ before[k].to <= before[m].from
               \/ k \in overran
  <2>1. CASE window[w].found \in Running
    <3>1. PICK n \in Numbered : n = window[w].found /\ entries[n].made /\ n \in Running
      BY <2>1 DEF Running
    <3>2. before = Ended(n) /\ OverranBy(n) = overran
      BY <2>1, <3>1 DEF StoppedBefore, Ended, OverranBy
    <3> HIDE DEF before
    <3>3. QED BY <3>1, <3>2, EntryEnds
  <2>2. CASE window[w].found \notin Running
    <3>1. before = entries
      BY <2>2 DEF StoppedBefore
    <3> HIDE DEF before
    <3>2. QED BY <3>1 DEF TimeInv, TimeTypes, TimeTold
  <2>3. QED BY <2>1, <2>2
<1> HIDE DEF before
<1>4. CASE ~MayRun(before)
  <2>1. TimeTypes' /\ UNCHANGED <<entries, moment, overran>>
    BY <1>1, <1>2, <1>4 DEF TimeInv, TimeTypes
  <2>2. QED BY <2>1 DEF TimeInv, TimeTold, Running
<1>5. CASE MayRun(before)
  <2>1. PICK n \in NextEntry :
            entries' = [before EXCEPT ![n] = [made |-> TRUE, from |-> moment + 1, to |-> 0]]
    BY <1>1, <1>5
  <2>2. n \in Numbered /\ entries[n].from = 0 /\ moment' = moment + 1
    BY <1>1, <1>5 DEF NextEntry
  <2>3. moment \in Nat /\ moment \in Moments /\ moment + 1 \in Moments /\ moment + 1 # 0 /\ 0 \in Moments
    BY MomentFacts DEF TimeInv, TimeTypes
  <2> DEFINE r == [made |-> TRUE, from |-> moment + 1, to |-> 0]
  <2>4. r \in EntryRows /\ r.made /\ r.from = moment + 1 /\ r.to = 0
    BY <2>3 DEF EntryRows
  <2> HIDE DEF r
  <2>5. /\ entries' \in [Numbered -> EntryRows] /\ entries'[n] = r
        /\ \A m \in Numbered \ {n} : entries'[m] = before[m]
    BY <1>3, <2>1, <2>2, <2>4 DEF r
  <2>6. TimeTypes'
    BY <1>1, <1>2, <2>2, <2>3, <2>5 DEF TimeInv, TimeTypes
  <2>7. \A m \in Numbered \ {n} :
            /\ entries'[m].from \in Nat /\ entries'[m].to \in Nat
            /\ entries'[m].from <= moment /\ entries'[m].to <= moment + 1
            /\ (entries'[m].made => entries'[m].from # 0 /\ entries'[m].to # 0)
    <3> SUFFICES ASSUME NEW m \in Numbered \ {n}
                 PROVE  /\ before[m].from \in Nat /\ before[m].to \in Nat
                        /\ before[m].from <= moment /\ before[m].to <= moment + 1
                        /\ (before[m].made => before[m].from # 0 /\ before[m].to # 0)
      BY <2>5
    <3>1. entries[m] \in EntryRows /\ entries[m].from <= moment /\ entries[m].to <= moment
          /\ (entries[m].made => entries[m].from # 0)
      BY DEF TimeInv, TimeTypes, TimeTold
    <3>2. entries[m].from \in Nat /\ entries[m].to \in Nat
      BY <3>1 DEF EntryRows, Moments
    <3>3. before[m].made => before[m].to # 0
      BY <1>5 DEF MayRun
    <3>4. /\ before[m].made = entries[m].made /\ before[m].from = entries[m].from
          /\ before[m].to = entries[m].to \/ before[m].to = moment + 1
      BY <1>3
    <3>5. QED BY <2>3, <3>1, <3>2, <3>3, <3>4
  <2>8. \A m \in Numbered :
            entries'[m].from <= moment' /\ entries'[m].to <= moment' /\ (entries'[m].made => entries'[m].from # 0)
    BY <2>2, <2>3, <2>4, <2>5, <2>7
  <2>9. \A k, m \in Running' : k = m
    BY <2>4, <2>5, <2>7 DEF Running
  <2>10. ASSUME NEW k \in Numbered, NEW m \in Numbered,
                entries'[k].made, entries'[m].made, entries'[k].from < entries'[m].from
         PROVE  (entries'[k].to # 0 /\ entries'[k].to <= entries'[m].from) \/ k \in overran
    <3>1. CASE k = n
      <4>1. m # n
        BY <2>3, <2>4, <2>5, <2>10, <3>1
      <4>2. entries'[m].from <= moment /\ entries'[m].from \in Nat /\ entries'[k].from = moment + 1
        BY <2>4, <2>5, <2>7, <3>1, <4>1
      <4>3. QED BY <2>3, <2>10, <4>2
    <3>2. CASE k # n /\ m = n
      BY <2>4, <2>5, <2>7, <2>10, <3>2
    <3>3. CASE k # n /\ m # n
      BY <1>3, <2>5, <2>10, <3>3
    <3>4. QED BY <3>1, <3>2, <3>3
  <2>11. TimeTold'
    BY <1>1, <2>8, <2>9, <2>10 DEF TimeTold
  <2>12. QED BY <2>6, <2>11 DEF TimeInv
<1>6. QED BY <1>4, <1>5

LEMMA SetupStep == TimeInv /\ AloneFirst /\ SetupNext => TimeInv' /\ AloneFirst'
<1> SUFFICES ASSUME TimeInv, AloneFirst, NEW v \in Visitors, OpenSetup(v) \/ PostSetup(v) \/ MakeAdmin(v)
             PROVE  TimeInv' /\ AloneFirst'
  BY DEF SetupNext
<1>1. UNCHANGED <<entries, moment, window, overran>>
  BY DEF OpenSetup, PostSetup, MakeAdmin
<1>2. admins' = admins \/ (admins = {} /\ admins' = {v})
  BY DEF OpenSetup, PostSetup, MakeAdmin, StillFirst, HasAccounts
<1>3. TimeInv'
  BY <1>1, <1>2 DEF TimeInv, TimeTypes, TimeTold, Running
<1>4. AloneFirst'
  BY <1>2 DEF AloneFirst
<1>5. QED BY <1>3, <1>4

LEMMA TimeInvStep ==
    TimeInv /\ AloneFirst /\ [TimersNext]_timerVars => TimeInv' /\ AloneFirst'
<1>1. ASSUME TimeInv, AloneFirst, UNCHANGED timerVars PROVE TimeInv' /\ AloneFirst'
  BY <1>1 DEF timerVars, TimeInv, TimeTypes, TimeTold, Running, AloneFirst
<1>2. ASSUME TimeInv, AloneFirst, TimeNext PROVE TimeInv' /\ AloneFirst'
  <2>1. TimeInv'
    BY <1>2, LookTimerStep, StartStep, StopStep, DeleteStep DEF TimeNext
  <2>2. admins' = admins
    BY <1>2 DEF TimeNext, LookToStart, LookToStop, StartTimer, StopTimer, DeleteEntry
  <2>3. QED BY <1>2, <2>1, <2>2 DEF AloneFirst
<1>3. QED BY <1>1, <1>2, SetupStep DEF TimersNext

\* A set whose members are all the same has one at most.
LEMMA OneAtMost == ASSUME NEW S, \A a, b \in S : a = b PROVE Cardinality(S) <= 1
<1>1. CASE S = {}
  BY <1>1, FS_EmptySet
<1>2. CASE S # {}
  <2>1. PICK a \in S : TRUE
    BY <1>2
  <2>2. S = {a}
    BY <2>1
  <2>3. QED BY <2>2, FS_Singleton
<1>3. QED BY <1>1, <1>2

\* A link brings one submission, as it was answered, unless staff reworded its questions
\* meanwhile, and its first reviewer stays; a person's time is counted once; and a new
\* installation gets one first administrator (public_intake, start_timer, first_run_setup).
THEOREM FrontDeskKept == IntakeSpec /\ TimersSpec => []FrontDeskInOrder
<1>1. IntakeInv => IntakeInOrder
  BY DEF IntakeInv, EndsTold, PostsKept, ReviewsTold, IntakeInOrder
<1>2. TimeInv /\ AloneFirst => TimeCountedOnce /\ OneFirstAdmin
  <2>1. (\A a, b \in Running : a = b) => Cardinality(Running) <= 1
    BY OneAtMost
  <2>2. AloneFirst => OneFirstAdmin
    BY OneAtMost DEF AloneFirst, OneFirstAdmin
  <2>3. QED BY <2>1, <2>2 DEF TimeInv, TimeTold, TimeCountedOnce
<1>3. IntakeSpec => []IntakeInOrder
  BY <1>1, IntakeInvInit, IntakeInvStep, PTL DEF IntakeSpec
<1>4. TimersSpec => [](TimeCountedOnce /\ OneFirstAdmin)
  BY <1>2, TimeInvInit, TimeInvStep, PTL DEF TimersSpec
<1>5. IntakeInOrder /\ TimeCountedOnce /\ OneFirstAdmin => FrontDeskInOrder
  BY DEF FrontDeskInOrder
<1>6. QED BY <1>3, <1>4, <1>5, PTL

----------------------------------------------------------------------------
\* Access.  A withdrawn token is a revoked one, and a request is late only while access is
\* shut, so that it gets no further than its sign-in.  Of the requests the limit lets
\* through, each is a row or will be one.

Counts == Nat
Steps == {"idle", "begun", "known", "let_in", "counted", "acted", "refused"}
CallRows == [step : Steps, wants : Scopes, switch : Switches, token : TokenRows, late : BOOLEAN]
PersonRows == [active : BOOLEAN, manages : BOOLEAN, second : BOOLEAN, bills : BOOLEAN]
TurnedIn == {c \in Callers : caller[c].step \in {"counted", "acted"}}

AccessTypes ==
    /\ caller \in [Callers -> CallRows] /\ withdrawn \in BOOLEAN /\ token \in TokenRows
    /\ person \in PersonRows /\ switch \in Switches /\ settings \in [open : BOOLEAN, shows : Switches]
    /\ rows \in [acted : Counts, refused : Counts]

LateStays ==
    /\ withdrawn => token.state = "revoked"
    /\ \A c \in Callers : caller[c].late =>
          (~person.active \/ withdrawn) /\ caller[c].step \in {"idle", "begun", "refused"}

LimitStays == rows.acted + Cardinality(TurnedIn) < HourLimit + Cardinality(Callers)

AccessInv == AccessTypes /\ LateStays /\ LimitStays

LEMMA CallTypes ==
    /\ NoTicket \in TokenRows /\ NoTicket.state = "none"
    /\ NoCall \in CallRows /\ NoCall.step = "idle" /\ ~NoCall.late
<1>1. NoTicket \in TokenRows /\ NoTicket.state = "none"
  BY DEF NoTicket, TokenRows
<1>2. NoCall \in CallRows /\ NoCall.step = "idle" /\ ~NoCall.late
  BY <1>1 DEF NoCall, CallRows, Scopes, Switches, Steps
<1>3. QED BY <1>1, <1>2

LEMMA TurnedInFacts ==
    /\ Cardinality(Callers) \in Nat
    /\ IsFiniteSet(TurnedIn) /\ Cardinality(TurnedIn) \in Nat /\ Cardinality(TurnedIn) <= Cardinality(Callers)
    /\ IsFiniteSet(TurnedIn') /\ Cardinality(TurnedIn') \in Nat /\ Cardinality(TurnedIn') <= Cardinality(Callers)
<1>1. TurnedIn \subseteq Callers /\ TurnedIn' \subseteq Callers /\ IsFiniteSet(Callers)
  BY ApiAccessAssumption DEF TurnedIn
<1>2. QED BY <1>1, FS_Subset, FS_CardinalityType

LEMMA FewerTurnedIn ==
    ASSUME TurnedIn' \subseteq TurnedIn, LimitStays, AccessTypes, rows'.acted <= rows.acted, rows'.acted \in Nat
    PROVE  LimitStays'
<1>1. Cardinality(TurnedIn') <= Cardinality(TurnedIn)
  BY TurnedInFacts, FS_Subset
<1>2. rows.acted \in Nat
  BY DEF AccessTypes, Counts
<1>3. QED BY <1>1, <1>2, TurnedInFacts, ApiAccessAssumption DEF LimitStays

LEMMA AccessInvInit == AccessInit => AccessInv
<1> SUFFICES ASSUME AccessInit PROVE AccessInv
  OBVIOUS
<1>1. /\ caller \in [Callers -> CallRows] /\ \A c \in Callers : caller[c].step = "idle" /\ ~caller[c].late
      /\ withdrawn \in BOOLEAN /\ ~withdrawn /\ token \in TokenRows
  BY CallTypes DEF AccessInit
<1>2. /\ person \in PersonRows /\ switch \in Switches /\ settings \in [open : BOOLEAN, shows : Switches]
      /\ rows \in [acted : Counts, refused : Counts] /\ rows.acted = 0
  BY DEF AccessInit, PersonRows, Switches, Counts
<1>3. Cardinality(TurnedIn) = 0
  <2>1. TurnedIn = {}
    BY <1>1 DEF TurnedIn
  <2>2. QED BY <2>1, FS_EmptySet
<1>4. LimitStays
  BY <1>2, <1>3, TurnedInFacts, ApiAccessAssumption DEF LimitStays
<1>5. QED BY <1>1, <1>2, <1>4 DEF AccessInv, AccessTypes, LateStays

\* Staff open access: nobody is late any more.
LEMMA AccessOpensStep ==
    ASSUME AccessInv, Opens, withdrawn' \in BOOLEAN, token' \in TokenRows, person' \in PersonRows,
           switch' \in Switches, settings' \in [open : BOOLEAN, shows : Switches], rows' = rows,
           withdrawn' => token'.state = "revoked"
    PROVE  AccessInv'
<1>1. caller' \in [Callers -> CallRows] /\ \A c \in Callers : ~caller'[c].late /\ caller'[c].step = caller[c].step
  <2>1. \A c \in Callers : [caller[c] EXCEPT !.late = FALSE] \in CallRows
            /\ ~[caller[c] EXCEPT !.late = FALSE].late /\ [caller[c] EXCEPT !.late = FALSE].step = caller[c].step
    BY DEF AccessInv, AccessTypes, CallRows
  <2>2. QED BY <2>1 DEF Opens
<1>2. TurnedIn' = TurnedIn
  BY <1>1 DEF TurnedIn
<1>3. QED BY <1>1, <1>2 DEF AccessInv, AccessTypes, LateStays, LimitStays

\* Staff change something else.
LEMMA StaffMoves ==
    ASSUME AccessInv, UNCHANGED <<caller, rows>>, withdrawn' \in BOOLEAN, token' \in TokenRows,
           person' \in PersonRows, switch' \in Switches,
           settings' \in [open : BOOLEAN, shows : Switches],
           withdrawn' => token'.state = "revoked",
           ~person.active \/ withdrawn => ~person'.active \/ withdrawn'
    PROVE  AccessInv'
BY DEF AccessInv, AccessTypes, LateStays, LimitStays, TurnedIn

LEMMA StaffStep ==
    ASSUME AccessInv,
           \/ \E scope \in Scopes : IssueToken({scope})
           \/ Revoke \/ Expires \/ Renews \/ OpenSwitches
           \/ \E changed \in {"on", "more"} : SaveSwitches(changed)
           \/ \E field \in {"active", "manages", "second", "bills"} : ChangePerson(field)
    PROVE  AccessInv'
<1>1. AccessTypes /\ (withdrawn => token.state = "revoked")
  BY DEF AccessInv, LateStays
<1>2. /\ token.state \in {"none", "live", "expired", "revoked"} /\ token.scopes \in SUBSET Scopes
      /\ token = [state |-> token.state, scopes |-> token.scopes]
  BY <1>1 DEF AccessTypes, TokenRows
<1>3. ASSUME NEW scope \in Scopes, IssueToken({scope}) PROVE AccessInv'
  <2>1. Normalized({scope}) \in SUBSET Scopes
    BY DEF Normalized, Scopes
  <2>2. token' \in TokenRows
    BY <1>3, <2>1 DEF IssueToken, TokenRows
  <2>3. withdrawn' \in BOOLEAN /\ ~withdrawn' /\ Opens /\ UNCHANGED <<rows, switch, person, settings>>
    BY <1>3 DEF IssueToken, byStaff
  <2>4. QED BY <1>1, <2>2, <2>3, AccessOpensStep DEF AccessTypes
<1>4. CASE Revoke
  <2>1. token' \in TokenRows /\ token'.state = "revoked"
    BY <1>1, <1>4 DEF Revoke, AccessTypes, TokenRows
  <2>2. withdrawn' \in BOOLEAN /\ withdrawn' /\ UNCHANGED <<caller, rows, switch, person, settings>>
    BY <1>4 DEF Revoke, byStaff
  <2>3. QED BY <1>1, <2>1, <2>2, StaffMoves DEF AccessTypes
<1>5. CASE Expires \/ Renews
  <2>1. token' \in TokenRows /\ ~withdrawn
    BY <1>1, <1>5 DEF Expires, Renews, AccessTypes, TokenRows
  <2>2. UNCHANGED <<caller, rows, switch, person, settings, withdrawn>>
    BY <1>5 DEF Expires, Renews, byStaff
  <2>3. QED BY <1>1, <2>1, <2>2, StaffMoves DEF AccessTypes
<1>6. CASE OpenSwitches
  <2>1. settings' \in [open : BOOLEAN, shows : Switches]
    BY <1>1, <1>6 DEF OpenSwitches, AccessTypes
  <2>2. UNCHANGED <<caller, rows, switch, person, withdrawn, token>>
    BY <1>6 DEF OpenSwitches, byStaff
  <2>3. QED BY <1>1, <2>1, <2>2, StaffMoves DEF AccessTypes
<1>7. ASSUME NEW changed \in {"on", "more"}, SaveSwitches(changed) PROVE AccessInv'
  <2>1. switch' \in Switches
    BY <1>1, <1>7 DEF SaveSwitches, AccessTypes, Switches
  <2>2. settings' \in [open : BOOLEAN, shows : Switches]
    BY <1>1, <1>7 DEF SaveSwitches, AccessTypes
  <2>3. UNCHANGED <<rows, person, withdrawn, token>> /\ (Opens \/ UNCHANGED caller)
    BY <1>7 DEF SaveSwitches, byStaff
  <2>4. QED BY <1>1, <2>1, <2>2, <2>3, StaffMoves, AccessOpensStep DEF AccessTypes
<1>8. ASSUME NEW field \in {"active", "manages", "second", "bills"}, ChangePerson(field) PROVE AccessInv'
  <2>1. person' \in PersonRows /\ (field # "active" => person'.active = person.active)
        /\ (field = "active" => person'.active = ~person.active)
    BY <1>1, <1>8 DEF ChangePerson, AccessTypes, PersonRows
  <2>2. UNCHANGED <<rows, switch, withdrawn, token, settings>>
        /\ IF field = "active" /\ person'.active THEN Opens ELSE UNCHANGED caller
    BY <1>8 DEF ChangePerson, byStaff
  <2>3. CASE Opens
    BY <1>1, <2>1, <2>2, <2>3, AccessOpensStep DEF AccessTypes
  <2>4. CASE UNCHANGED caller /\ ~(field = "active" /\ person'.active)
    BY <1>1, <2>1, <2>2, <2>4, StaffMoves DEF AccessTypes
  <2>5. QED BY <2>2, <2>3, <2>4
<1>9. QED BY <1>3, <1>4, <1>5, <1>6, <1>7, <1>8

\* A request goes on to another step, as what it was.
LEMMA CallerMoves ==
    ASSUME AccessInv, NEW c \in Callers, NEW r \in CallRows, caller' = [caller EXCEPT ![c] = r],
           r.late => (~person.active \/ withdrawn) /\ r.step \in {"idle", "begun", "refused"},
           r.step \in {"counted", "acted"} => caller[c].step \in {"counted", "acted"},
           UNCHANGED <<switch, person, token, withdrawn, settings, rows>>
    PROVE  AccessInv'
<1>1. caller' \in [Callers -> CallRows] /\ caller'[c] = r /\ \A d \in Callers \ {c} : caller'[d] = caller[d]
  BY DEF AccessInv, AccessTypes
<1>2. TurnedIn' \subseteq TurnedIn
  BY <1>1 DEF TurnedIn
<1>3. rows.acted \in Nat
  BY DEF AccessInv, AccessTypes, Counts
<1>4. LimitStays'
  BY <1>2, <1>3, FewerTurnedIn DEF AccessInv
<1>5. QED BY <1>1, <1>4 DEF AccessInv, AccessTypes, LateStays

LEMMA SignInStep ==
    ASSUME AccessInv, NEW c \in Callers,
           (\E wants \in Scopes : Begin(c, wants)) \/ SignIn(c) \/ LetIn(c)
    PROVE  AccessInv'
<1>1. /\ caller[c] \in CallRows /\ switch \in Switches /\ token \in TokenRows /\ person \in PersonRows
      /\ withdrawn \in BOOLEAN /\ (withdrawn => token.state = "revoked")
      /\ caller[c].late => (~person.active \/ withdrawn) /\ caller[c].step \in {"idle", "begun", "refused"}
  BY DEF AccessInv, AccessTypes, LateStays
<1>2. /\ UNCHANGED <<switch, person, token, withdrawn, settings, rows>>
  BY DEF Begin, SignIn, LetIn, Reads
<1>3. ASSUME NEW wants \in Scopes, Begin(c, wants) PROVE AccessInv'
  <2> DEFINE r == [NoCall EXCEPT !.step = "begun", !.wants = wants, !.switch = switch, !.late = Shut]
  <2>1. switch.on /\ caller' = [caller EXCEPT ![c] = r]
    BY <1>3 DEF Begin
  <2>2. Shut \in BOOLEAN /\ (Shut => ~person.active \/ withdrawn)
    BY <1>1, <2>1 DEF Shut
  <2>3. r \in CallRows /\ r.step = "begun" /\ (r.late <=> Shut)
    BY <1>1, <2>2, CallTypes DEF CallRows, Steps
  <2> HIDE DEF r
  <2>4. QED BY <1>2, <2>1, <2>2, <2>3, CallerMoves
<1>4. ASSUME Dropped(c) PROVE AccessInv'
  BY <1>2, <1>4, CallTypes, CallerMoves DEF Dropped
<1>5. ASSUME Goes(c, "refused") \/ (Goes(c, "let_in") /\ ~caller[c].late) PROVE AccessInv'
  <2>1. PICK step \in {"refused", "let_in"} : Goes(c, step) /\ (step = "let_in" => ~caller[c].late)
    BY <1>5
  <2> DEFINE r == [caller[c] EXCEPT !.step = step]
  <2>2. r \in CallRows /\ r.step = step /\ r.late = caller[c].late
    BY <1>1 DEF CallRows, Steps
  <2>3. caller' = [caller EXCEPT ![c] = r]
    BY <2>1 DEF Goes, AccessInv, AccessTypes
  <2> HIDE DEF r
  <2>4. QED BY <1>1, <1>2, <2>1, <2>2, <2>3, CallerMoves
<1>6. CASE SignIn(c)
  <2>1. CASE caller' = [caller EXCEPT ![c].step = "known", ![c].token = token] /\ Accepted(c)
    <3> DEFINE r == [caller[c] EXCEPT !.step = "known", !.token = token]
    <3>1. ~caller[c].late
      BY <1>1, <2>1 DEF Accepted
    <3>2. r \in CallRows /\ r.step = "known" /\ r.late = caller[c].late
      BY <1>1 DEF CallRows, Steps
    <3>3. caller' = [caller EXCEPT ![c] = r]
      BY <2>1 DEF AccessInv, AccessTypes
    <3> HIDE DEF r
    <3>4. QED BY <1>2, <3>1, <3>2, <3>3, CallerMoves
  <2>2. QED BY <1>4, <1>5, <1>6, <2>1 DEF SignIn, Refused
<1>7. CASE LetIn(c)
  BY <1>1, <1>4, <1>5, <1>7 DEF LetIn, Refused
<1>8. QED BY <1>3, <1>6, <1>7

LEMMA CountStep == ASSUME AccessInv, NEW c \in Callers, Count(c) PROVE AccessInv'
<1>1. /\ caller[c] \in CallRows /\ caller[c].step = "let_in" /\ ~caller[c].late
      /\ UNCHANGED <<switch, person, token, withdrawn, settings, rows>>
  BY DEF Count, Reads, AccessInv, AccessTypes, LateStays
<1>2. PICK step \in {"counted", "refused"} : Goes(c, step) /\ (step = "counted" => BelowLimit)
  BY DEF Count
<1> DEFINE r == [caller[c] EXCEPT !.step = step]
<1>3. r \in CallRows /\ r.step = step /\ r.late = caller[c].late
  BY <1>1 DEF CallRows, Steps
<1>4. caller' = [caller EXCEPT ![c] = r]
  BY <1>2 DEF Goes, AccessInv, AccessTypes
<1> HIDE DEF r
<1>5. CASE step = "refused"
  BY <1>1, <1>3, <1>4, <1>5, CallerMoves
<1>6. CASE step = "counted"
  <2>1. caller' \in [Callers -> CallRows] /\ caller'[c] = r /\ \A d \in Callers \ {c} : caller'[d] = caller[d]
    BY <1>3, <1>4 DEF AccessInv, AccessTypes
  <2>2. rows.acted \in Nat /\ rows.refused \in Nat /\ rows.acted + rows.refused < HourLimit
    BY <1>2, <1>6 DEF BelowLimit, AccessInv, AccessTypes, Counts
  <2>3. rows'.acted < HourLimit
    BY <1>1, <2>2, ApiAccessAssumption
  <2>4. LimitStays'
    BY <1>1, <2>2, <2>3, TurnedInFacts, ApiAccessAssumption DEF LimitStays
  <2>5. AccessTypes' /\ LateStays'
    BY <1>1, <1>3, <2>1 DEF AccessInv, AccessTypes, LateStays
  <2>6. QED BY <2>4, <2>5 DEF AccessInv
<1>7. QED BY <1>5, <1>6

LEMMA ActsStep ==
    ASSUME AccessInv, NEW c \in Callers, ReadRecords(c) \/ WriteRecords(c) \/ Declines(c)
    PROVE  AccessInv' /\ ~caller[c].late
<1>1. PICK how \in {"acted", "refused"} : Ends(c, how)
  BY DEF ReadRecords, WriteRecords, Declines
<1>2. /\ caller[c] \in CallRows /\ caller[c].step = "counted" /\ ~caller[c].late
      /\ UNCHANGED <<switch, person, token, withdrawn, settings, rows>>
  BY <1>1 DEF Ends, MarkUsed, AccessInv, AccessTypes, LateStays
<1> DEFINE r == [caller[c] EXCEPT !.step = how]
<1>3. r \in CallRows /\ r.step = how /\ r.late = caller[c].late
  BY <1>2 DEF CallRows, Steps
<1>4. caller' = [caller EXCEPT ![c] = r]
  BY <1>1 DEF Ends, Goes, AccessInv, AccessTypes
<1> HIDE DEF r
<1>5. QED BY <1>2, <1>3, <1>4, CallerMoves

LEMMA LogStep ==
    ASSUME AccessInv, NEW c \in Callers, NEW kind \in {"acted", "refused"}, LogCall(c, kind)
    PROVE  AccessInv'
<1>1. /\ caller[c].step = kind /\ UNCHANGED <<switch, person, token, withdrawn, settings>>
      /\ rows' = [rows EXCEPT ![kind] = @ + 1] /\ caller' = [caller EXCEPT ![c] = NoCall]
  BY DEF LogCall, Reads, Dropped
<1>2. rows.acted \in Counts /\ rows.refused \in Counts
      /\ rows = [acted |-> rows.acted, refused |-> rows.refused]
  BY DEF AccessInv, AccessTypes
<1>3. rows.acted + 1 \in Counts /\ rows.refused + 1 \in Counts /\ rows.acted \in Nat
  BY <1>2 DEF Counts
<1>4. /\ rows' \in [acted : Counts, refused : Counts]
      /\ rows'.acted = IF kind = "acted" THEN rows.acted + 1 ELSE rows.acted
  BY <1>1, <1>2, <1>3
<1>5. caller' \in [Callers -> CallRows] /\ caller'[c] = NoCall /\ \A d \in Callers \ {c} : caller'[d] = caller[d]
  BY <1>1, CallTypes DEF AccessInv, AccessTypes
<1>6. AccessTypes' /\ LateStays'
  BY <1>1, <1>4, <1>5, CallTypes DEF AccessInv, AccessTypes, LateStays
<1>7. TurnedIn' = TurnedIn \ {c}
  BY <1>5, CallTypes DEF TurnedIn
<1>8. LimitStays'
  <2>1. CASE kind = "acted"
    <3>1. c \in TurnedIn
      BY <1>1, <2>1 DEF TurnedIn
    <3>2. Cardinality(TurnedIn') = Cardinality(TurnedIn) - 1
      BY <1>7, <3>1, TurnedInFacts, FS_RemoveElement
    <3>3. rows'.acted = rows.acted + 1
      BY <1>4, <2>1
    <3>4. QED BY <1>3, <3>2, <3>3, TurnedInFacts, ApiAccessAssumption DEF AccessInv, LimitStays
  <2>2. CASE kind = "refused"
    BY <1>3, <1>4, <1>7, <2>2, FewerTurnedIn DEF AccessInv
  <2>3. QED BY <2>1, <2>2
<1>9. QED BY <1>6, <1>8 DEF AccessInv

LEMMA AgesStep ==
    ASSUME AccessInv, NEW kind \in {"acted", "refused"}, RowAges(kind) PROVE AccessInv'
<1>1. UNCHANGED <<switch, person, token, withdrawn, settings, caller>> /\ rows[kind] > 0
      /\ rows' = [rows EXCEPT ![kind] = @ - 1]
  BY DEF RowAges, Reads
<1>2. rows.acted \in Counts /\ rows.refused \in Counts
      /\ rows = [acted |-> rows.acted, refused |-> rows.refused]
  BY DEF AccessInv, AccessTypes
<1>3. rows.acted \in Nat /\ rows.refused \in Nat
  BY <1>2 DEF Counts
<1>4. CASE kind = "acted"
  <2>1. rows.acted > 0 /\ rows.acted - 1 \in Counts
    BY <1>1, <1>3, <1>4 DEF Counts
  <2>2. rows' \in [acted : Counts, refused : Counts] /\ rows'.acted = rows.acted - 1
    BY <1>1, <1>2, <1>4, <2>1
  <2>3. LimitStays'
    BY <1>1, <1>3, <2>1, <2>2, FewerTurnedIn DEF AccessInv, TurnedIn, Counts
  <2>4. QED BY <1>1, <2>2, <2>3 DEF AccessInv, AccessTypes, LateStays
<1>5. CASE kind = "refused"
  <2>1. rows.refused > 0 /\ rows.refused - 1 \in Counts
    BY <1>1, <1>3, <1>5 DEF Counts
  <2>2. rows' \in [acted : Counts, refused : Counts] /\ rows'.acted = rows.acted
    BY <1>1, <1>2, <1>5, <2>1
  <2>3. QED BY <1>1, <2>2 DEF AccessInv, AccessTypes, LateStays, LimitStays, TurnedIn
<1>6. QED BY <1>4, <1>5

LEMMA AccessInvStep == AccessInv /\ [AccessNext]_accessVars => AccessInv'
<1>1. ASSUME AccessInv, UNCHANGED accessVars PROVE AccessInv'
  BY <1>1 DEF accessVars, AccessInv, AccessTypes, LateStays, LimitStays, TurnedIn
<1>2. QED BY <1>1, StaffStep, SignInStep, CountStep, ActsStep, LogStep, AgesStep DEF AccessNext

\* A request that began after access was withdrawn reads and writes nothing, unless access was
\* opened again meanwhile, and requests that run together pass the hourly limit by less than
\* their number (authenticate, check_hourly_limit, call_tool).
THEOREM AccessStays == AccessSpec => AccessKept
<1>1. AccessInv => LimitHeldButFor
  <2> SUFFICES ASSUME AccessInv PROVE LimitHeldButFor
    OBVIOUS
  <2>1. rows.acted \in Nat
    BY DEF AccessInv, AccessTypes, Counts
  <2>2. QED BY <2>1, TurnedInFacts, ApiAccessAssumption DEF AccessInv, LimitStays, LimitHeldButFor
<1>2. AccessInv => [\A c \in Callers : ReadRecords(c) \/ WriteRecords(c) => ~caller[c].late]_accessVars
  BY ActsStep
<1>3. QED BY <1>1, <1>2, AccessInvInit, AccessInvStep, PTL DEF AccessSpec, AccessKept, NothingLate

----------------------------------------------------------------------------
\* Case status.  Unless readings crossed, one worker at most is storing one, and what it read
\* before is still so.

Times == Nat
Readings == [title : Known, at : Times]
FilerRows == [step : {"idle", "asked", "read", "looked"}, title : Known, at : Times, previous : Known,
              task : Times]
Busy(f) == filer[f].step # "idle"

CaseTypes ==
    /\ clock \in Times /\ latest \in Readings /\ told \in Known /\ crossed \in BOOLEAN
    /\ filer \in [Filers -> FilerRows] /\ reviews \subseteq Times \ {0}
    /\ latest.title = NoTitle => latest = NoReading
    /\ \A f \in Filers : filer[f].step \in {"read", "looked"} => filer[f].title \in Titles
    /\ \A f \in Filers : Busy(f) => filer[f].at # 0

OneFiler ==
    /\ \A f, g \in Filers : Busy(f) /\ Busy(g) => f = g
    /\ latest.title \in Routine \cup {told}
    /\ \A r, s \in reviews : r = s
    /\ \A f \in Filers :
          /\ filer[f].step \in {"read", "looked"} => filer[f].previous = latest.title
          /\ filer[f].step = "looked" =>
                IF filer[f].task = NoTask THEN reviews = {} ELSE reviews \subseteq {filer[f].task}

CaseInv == CaseTypes /\ (~crossed => OneFiler)

LEMMA ReadingTypes ==
    /\ Free \in FilerRows /\ Free.step = "idle"
    /\ NoReading \in Readings /\ NoReading.title = NoTitle /\ NoTitle \notin Titles /\ Titles \subseteq Known
    /\ \A n \in Times : n \in Nat /\ n + 1 \in Times /\ n + 1 # 0
    /\ NoTask = 0 /\ 0 \in Times
<1>1. NoTitle \notin Titles /\ NoTitle \in Known /\ Titles \subseteq Known /\ 0 \in Times
  BY CaseStatusAssumption DEF NoTitle, Known, Times
<1>2. \A n \in Times : n \in Nat /\ n + 1 \in Times /\ n + 1 # 0
  BY DEF Times
<1>3. Free \in FilerRows /\ Free.step = "idle"
  BY <1>1 DEF Free, FilerRows, NoTask
<1>4. NoReading \in Readings /\ NoReading.title = NoTitle
  BY <1>1 DEF NoReading, Readings
<1>5. QED BY <1>1, <1>2, <1>3, <1>4 DEF NoTask

LEMMA CaseInvInit == CaseInit => CaseInv
<1> SUFFICES ASSUME CaseInit PROVE CaseInv
  OBVIOUS
<1>1. /\ clock \in Times /\ latest = NoReading /\ told = NoTitle /\ crossed \in BOOLEAN /\ reviews = {}
      /\ filer \in [Filers -> FilerRows] /\ \A f \in Filers : filer[f].step = "idle"
  BY ReadingTypes DEF CaseInit
<1>2. CaseTypes
  BY <1>1, ReadingTypes DEF CaseTypes, Busy, Known
<1>3. OneFiler
  BY <1>1, ReadingTypes DEF OneFiler, Busy
<1>4. QED BY <1>2, <1>3 DEF CaseInv

LEMMA AllFreeFacts ==
    /\ CaseTypes /\ AllFree => \A f \in Filers : ~Busy(f)
BY ReadingTypes DEF AllFree, Busy

\* A worker goes on; nothing it shares changes.
LEMMA FilerMoves ==
    ASSUME CaseInv, NEW f \in Filers, NEW r \in FilerRows, filer' = [filer EXCEPT ![f] = r],
           UNCHANGED <<latest, reviews, told>>, clock' \in Times, crossed' \in BOOLEAN, ~crossed' => ~crossed,
           r.step \in {"read", "looked"} => r.title \in Titles,
           r.step # "idle" => r.at # 0,
           r.step # "idle" /\ ~Busy(f) /\ ~crossed' => \A g \in Filers : ~Busy(g),
           ~crossed' /\ r.step \in {"read", "looked"} => r.previous = latest.title,
           ~crossed' /\ r.step = "looked" => IF r.task = NoTask THEN reviews = {} ELSE reviews \subseteq {r.task}
    PROVE  CaseInv'
<1>1. filer' \in [Filers -> FilerRows] /\ filer'[f] = r /\ \A g \in Filers \ {f} : filer'[g] = filer[g]
  BY DEF CaseInv, CaseTypes
<1>2. CaseTypes'
  BY <1>1 DEF CaseInv, CaseTypes, Busy
<1>3. ASSUME ~crossed', OneFiler PROVE OneFiler'
  <2>1. \A g, h \in Filers : Busy(g)' /\ Busy(h)' => g = h
    BY <1>1, <1>3 DEF OneFiler, Busy
  <2>2. \A g \in Filers :
          /\ filer'[g].step \in {"read", "looked"} => filer'[g].previous = latest'.title
          /\ filer'[g].step = "looked" =>
                IF filer'[g].task = NoTask THEN reviews' = {} ELSE reviews' \subseteq {filer'[g].task}
    BY <1>1, <1>3 DEF OneFiler
  <2>3. QED BY <1>3, <2>1, <2>2 DEF OneFiler
<1>4. QED BY <1>2, <1>3 DEF CaseInv

LEMMA FileStep ==
    ASSUME CaseInv, NEW f \in Filers,
           \/ \E title \in Known : AskSource(f, title)
           \/ LeaveOut(f) \/ StoreProblem(f) \/ ReadLatest(f) \/ LookForTask(f)
    PROVE  CaseInv'
<1>1. /\ filer[f] \in FilerRows /\ clock \in Times /\ crossed \in BOOLEAN /\ latest.title \in Known
      /\ reviews \subseteq Times \ {0} /\ (Busy(f) => filer[f].at # 0)
      /\ filer[f].step \in {"read", "looked"} => filer[f].title \in Titles
  BY DEF CaseInv, CaseTypes, Readings
<1>2. ASSUME NEW title \in Known, AskSource(f, title) PROVE CaseInv'
  <2> DEFINE r == [Free EXCEPT !.step = "asked", !.title = title, !.at = clock + 1]
  <2>1. clock + 1 \in Times /\ clock + 1 # 0
    BY <1>1, ReadingTypes
  <2>2. r \in FilerRows /\ r.step = "asked" /\ r.at = clock + 1
    BY <2>1, ReadingTypes DEF FilerRows
  <2>3. /\ filer' = [filer EXCEPT ![f] = r] /\ UNCHANGED <<latest, reviews, told>> /\ clock' = clock + 1
        /\ crossed' = (crossed \/ ~AllFree)
    BY <1>2 DEF AskSource
  <2>4. crossed' \in BOOLEAN /\ (~crossed' => ~crossed /\ AllFree)
    BY <1>1, <2>3
  <2>5. ~crossed' => \A g \in Filers : ~Busy(g)
    BY <2>4, AllFreeFacts DEF CaseInv
  <2> HIDE DEF r
  <2>6. QED BY <2>1, <2>2, <2>3, <2>4, <2>5, FilerMoves
<1>3. CASE LeaveOut(f) \/ StoreProblem(f)
  <2>1. filer' = [filer EXCEPT ![f] = Free] /\ UNCHANGED <<latest, reviews, told, clock, crossed>>
    BY <1>3 DEF LeaveOut, StoreProblem
  <2>2. QED BY <1>1, <2>1, ReadingTypes, FilerMoves
<1>4. CASE ReadLatest(f)
  <2> DEFINE r == [filer[f] EXCEPT !.step = "read", !.previous = latest.title]
  <2>1. r \in FilerRows /\ r.step = "read" /\ r.previous = latest.title /\ r.at = filer[f].at /\ r.title = filer[f].title
    BY <1>1 DEF FilerRows
  <2>2. /\ filer' = [filer EXCEPT ![f] = r] /\ UNCHANGED <<latest, reviews, told, clock, crossed>>
        /\ Busy(f) /\ filer[f].title # NoTitle
    BY <1>4 DEF ReadLatest, CaseInv, CaseTypes, Busy
  <2>3. filer[f].title \in Titles
    BY <1>1, <2>2 DEF FilerRows, Known
  <2> HIDE DEF r
  <2>4. QED BY <1>1, <2>1, <2>2, <2>3, FilerMoves
<1>5. CASE LookForTask(f)
  <2>1. PICK task \in reviews \cup {NoTask} :
          /\ \A r \in reviews : r <= task
          /\ filer' = [filer EXCEPT ![f].step = "looked", ![f].task = task]
    BY <1>5 DEF LookForTask
  <2> DEFINE r == [filer[f] EXCEPT !.step = "looked", !.task = task]
  <2>2. task \in Times
    BY <1>1, ReadingTypes
  <2>3. /\ r \in FilerRows /\ r.step = "looked" /\ r.previous = filer[f].previous /\ r.at = filer[f].at
        /\ r.title = filer[f].title /\ r.task = task
    BY <1>1, <2>2 DEF FilerRows
  <2>4. /\ filer' = [filer EXCEPT ![f] = r] /\ UNCHANGED <<latest, reviews, told, clock, crossed>>
        /\ Busy(f) /\ filer[f].step = "read"
    BY <1>5, <2>1 DEF LookForTask, CaseInv, CaseTypes, Busy
  <2>5. ~crossed => filer[f].previous = latest.title
    BY <2>4 DEF CaseInv, OneFiler
  <2>6. ~crossed => IF task = NoTask THEN reviews = {} ELSE reviews \subseteq {task}
    <3>1. task = NoTask => reviews = {}
      BY <1>1, <2>1, ReadingTypes DEF Times
    <3>2. ~crossed /\ task # NoTask => reviews \subseteq {task}
      BY <2>1 DEF CaseInv, OneFiler
    <3>3. QED BY <3>1, <3>2
  <2> HIDE DEF r
  <2>7. QED BY <1>1, <2>3, <2>4, <2>5, <2>6, FilerMoves
<1>6. QED BY <1>2, <1>3, <1>4, <1>5

LEMMA StoreReadingStep == ASSUME CaseInv, NEW f \in Filers, StoreReading(f) PROVE CaseInv'
<1> DEFINE title == filer[f].title
           at == filer[f].at
<1>1. /\ filer[f] \in FilerRows /\ filer[f].step = "looked" /\ title \in Titles /\ title \in Known
      /\ at \in Times /\ at # 0 /\ filer[f].task \in Times /\ latest.at \in Times /\ Busy(f)
  <2>1. filer[f] \in FilerRows /\ latest \in Readings
    BY DEF CaseInv, CaseTypes
  <2>2. filer[f].at \in Times /\ filer[f].task \in Times /\ latest.at \in Times
    BY <2>1 DEF FilerRows, Readings
  <2>3. QED BY <2>1, <2>2, ReadingTypes DEF StoreReading, CaseInv, CaseTypes, Busy
<1>2. /\ latest' = IF at >= latest.at THEN [title |-> title, at |-> at] ELSE latest
      /\ reviews' = IF NeedsReview(f)
                    THEN reviews \cup {IF filer[f].task = NoTask THEN at ELSE filer[f].task} ELSE reviews
      /\ told' = IF NeedsReview(f) \/ latest = NoReading THEN title ELSE told
      /\ crossed' = (crossed \/ at < latest.at)
      /\ filer' = [filer EXCEPT ![f] = Free] /\ UNCHANGED clock
  BY DEF StoreReading, RecordStatus, ReviewsChange
<1>3. NeedsReview(f) <=> filer[f].previous \notin {NoTitle, title} /\ title \notin Routine
  BY DEF NeedsReview, Changed
<1>4. crossed' \in BOOLEAN /\ (~crossed' => ~crossed /\ at >= latest.at)
  <2>1. at \in Nat /\ latest.at \in Nat /\ crossed \in BOOLEAN
    BY <1>1, ReadingTypes DEF CaseInv, CaseTypes
  <2>2. ~(at < latest.at) => at >= latest.at
    BY <2>1
  <2>3. crossed' \in BOOLEAN /\ (~crossed' => ~crossed /\ ~(at < latest.at))
    BY <1>2, <2>1
  <2>4. QED BY <2>2, <2>3
<1>5. /\ filer' \in [Filers -> FilerRows] /\ filer'[f].step = "idle"
      /\ \A g \in Filers \ {f} : filer'[g] = filer[g]
  BY <1>2, ReadingTypes DEF CaseInv, CaseTypes
<1>6. CaseTypes'
  <2>1. [title |-> title, at |-> at] \in Readings
    BY <1>1 DEF Readings
  <2>2. latest' \in Readings /\ (latest'.title = NoTitle => latest' = NoReading)
    BY <1>1, <1>2, <2>1, ReadingTypes DEF CaseInv, CaseTypes
  <2>3. told' \in Known /\ reviews' \subseteq Times \ {0}
    BY <1>1, <1>2, ReadingTypes DEF CaseInv, CaseTypes
  <2>4. QED BY <1>2, <1>4, <1>5, <2>2, <2>3 DEF CaseInv, CaseTypes, Busy
<1>7. ASSUME ~crossed' PROVE OneFiler'
  <2>1. OneFiler /\ latest'.title = title
    BY <1>2, <1>4, <1>7 DEF CaseInv
  <2>2. \A g \in Filers : ~Busy(g)'
    BY <1>1, <1>5, <2>1 DEF OneFiler, Busy
  <2>3. title \in Routine \cup {told'}
    <3>1. CASE NeedsReview(f) \/ latest = NoReading
      BY <1>2, <3>1
    <3>2. CASE ~NeedsReview(f) /\ latest # NoReading
      <4>1. filer[f].previous = latest.title /\ latest.title # NoTitle
        BY <1>1, <2>1, <3>2 DEF OneFiler, CaseInv, CaseTypes
      <4>2. told' = told
        BY <1>2, <3>2
      <4>3. QED BY <1>3, <2>1, <3>2, <4>1, <4>2 DEF OneFiler
    <3>3. QED BY <3>1, <3>2
  <2>4. \A r, s \in reviews' : r = s
    BY <1>1, <1>2, <2>1 DEF OneFiler
  <2>5. QED BY <2>1, <2>2, <2>3, <2>4 DEF OneFiler, Busy
<1>8. QED BY <1>6, <1>7 DEF CaseInv

LEMMA HandStep ==
    ASSUME CaseInv, NEW title \in Titles, NEW at \in 1..MaxReadings, RecordByHand(title, at) PROVE CaseInv'
<1>1. /\ latest' = IF at >= latest.at THEN [title |-> title, at |-> at] ELSE latest
      /\ told' = IF at >= latest.at THEN title ELSE told
      /\ crossed' = (crossed \/ ~AllFree \/ at < latest.at)
      /\ UNCHANGED <<clock, filer, reviews>>
  BY DEF RecordByHand, RecordStatus
<1>2. at \in Times /\ at # 0 /\ latest \in Readings /\ crossed \in BOOLEAN /\ title \in Known
  BY CaseStatusAssumption DEF CaseInv, CaseTypes, Times, Known
<1>3. crossed' \in BOOLEAN /\ (~crossed' => ~crossed /\ AllFree /\ at >= latest.at)
  <2>1. at \in Nat /\ latest.at \in Nat
    BY <1>2 DEF Readings, Times
  <2>2. ~(at < latest.at) => at >= latest.at
    BY <2>1
  <2>3. crossed' \in BOOLEAN /\ (~crossed' => ~crossed /\ AllFree /\ ~(at < latest.at))
    BY <1>1, <1>2
  <2>4. QED BY <2>2, <2>3
<1>4. CaseTypes'
  <2>1. [title |-> title, at |-> at] \in Readings
    BY <1>2 DEF Readings
  <2>2. latest' \in Readings /\ (latest'.title = NoTitle => latest' = NoReading) /\ told' \in Known
    BY <1>1, <1>2, <2>1, ReadingTypes DEF CaseInv, CaseTypes
  <2>3. QED BY <1>1, <1>3, <2>2 DEF CaseInv, CaseTypes, Busy
<1>5. ASSUME ~crossed' PROVE OneFiler'
  <2>1. OneFiler /\ latest'.title = title /\ told' = title
    BY <1>1, <1>3, <1>5 DEF CaseInv
  <2>2. \A g \in Filers : ~Busy(g)
    BY <1>3, <1>5, AllFreeFacts DEF CaseInv
  <2>3. QED BY <1>1, <2>1, <2>2 DEF OneFiler, Busy
<1>6. QED BY <1>4, <1>5 DEF CaseInv

LEMMA ReviewStep == ASSUME CaseInv, NEW task \in reviews, CompleteReview(task) PROVE CaseInv'
<1>1. reviews' \subseteq reviews /\ UNCHANGED <<clock, latest, filer, told, crossed>>
  BY DEF CompleteReview
<1>2. QED BY <1>1 DEF CaseInv, CaseTypes, OneFiler, Busy

LEMMA CaseInvStep == CaseInv /\ [CaseNext]_caseVars => CaseInv'
<1>1. ASSUME CaseInv, UNCHANGED caseVars PROVE CaseInv'
  BY <1>1 DEF caseVars, CaseInv, CaseTypes, OneFiler, Busy
<1>2. QED BY <1>1, FileStep, StoreReadingStep, HandStep, ReviewStep DEF CaseNext, File

LEMMA CaseIsTold == CaseInv => ChangesReviewed
BY DEF CaseInv, OneFiler, ChangesReviewed, NoSilentChange, OneOpenReview

\* A change of a case's status is told to staff, in one open review, unless two readings were
\* stored at once (record_status, open_review_task).
THEOREM ChangesTold == CaseSpec => []ChangesReviewed
BY CaseIsTold, CaseInvInit, CaseInvStep, PTL DEF CaseSpec

----------------------------------------------------------------------------
\* A notice and its item.  No item is there that was not made yet.

ItemRows == [stored : BOOLEAN, done : BOOLEAN, date : AnyDate, moved : BOOLEAN]
EditorRows == [on : BOOLEAN, seen : Notice, date : AnyDate]

NoticeTypes ==
    /\ notice \in Notice /\ items \in [ItemIds -> ItemRows] /\ made \in 0..MaxNoticeItems
    /\ editor \in [Editors -> EditorRows] /\ mixed \in BOOLEAN

NoticeInv == NoticeTypes /\ DeadlineFollowsNotice

LEMMA NoticeBlanks ==
    /\ NotThere \in ItemRows /\ ~NotThere.stored /\ Apart \in EditorRows
    /\ Unsaved \in Notice /\ Unsaved.item = NoItem /\ NoItem = 0 /\ 0 \notin ItemIds
    /\ NoDate \in AnyDate /\ Dates \subseteq AnyDate
<1>1. NoDate \in AnyDate /\ Dates \subseteq AnyDate
  BY DEF AnyDate
<1>2. NotThere \in ItemRows /\ ~NotThere.stored
  BY <1>1 DEF NotThere, ItemRows
<1>3. Unsaved \in Notice /\ Unsaved.item = NoItem
  BY <1>1 DEF Unsaved, Notice
<1>4. Apart \in EditorRows
  BY <1>1, <1>3 DEF Apart, EditorRows
<1>5. NoItem = 0 /\ 0 \notin ItemIds
  BY NoticesAssumption DEF NoItem, ItemIds
<1>6. QED BY <1>1, <1>2, <1>3, <1>4, <1>5

LEMMA NoticeInvInit == NoticesInit => NoticeInv
<1> SUFFICES ASSUME NoticesInit PROVE NoticeInv
  OBVIOUS
<1>1. /\ notice \in Notice /\ items \in [ItemIds -> ItemRows] /\ \A i \in ItemIds : ~items[i].stored
      /\ editor \in [Editors -> EditorRows] /\ mixed \in BOOLEAN
  BY NoticeBlanks DEF NoticesInit
<1>2. made \in 0..MaxNoticeItems
  BY NoticesAssumption DEF NoticesInit
<1>3. QED BY <1>1, <1>2 DEF NoticeInv, NoticeTypes, DeadlineFollowsNotice, Open

\* One item changes, so that it is not open, or was moved, or follows the notice.
LEMMA ItemChanges ==
    ASSUME NoticeInv, NEW i \in ItemIds, NEW r \in ItemRows, items' = [items EXCEPT ![i] = r],
           notice' \in Notice, made' \in 0..MaxNoticeItems, editor' \in [Editors -> EditorRows],
           mixed' \in BOOLEAN, ~mixed' => ~mixed,
           ~mixed' /\ r.stored /\ ~r.done /\ ~r.moved =>
              notice'.stored /\ notice'.item = i /\ notice'.date = r.date,
           ~mixed' => \A j \in ItemIds \ {i} : Open(j) /\ ~items[j].moved =>
              notice'.stored /\ notice'.item = j /\ notice'.date = items[j].date
    PROVE  NoticeInv'
<1>1. items' \in [ItemIds -> ItemRows] /\ items'[i] = r /\ \A j \in ItemIds \ {i} : items'[j] = items[j]
  BY DEF NoticeInv, NoticeTypes
<1>2. NoticeTypes'
  BY <1>1 DEF NoticeTypes
<1>3. DeadlineFollowsNotice'
  BY <1>1 DEF DeadlineFollowsNotice, Open
<1>4. QED BY <1>2, <1>3 DEF NoticeInv

LEMMA WorkStep ==
    ASSUME NoticeInv, NEW i \in ItemIds,
           \/ \E ticked \in BOOLEAN : SetDone(i, ticked)
           \/ \E date \in Dates : Reschedule(i, date)
           \/ DeleteItem(i)
    PROVE  NoticeInv'
<1>1. /\ items[i] \in ItemRows /\ NoticeTypes
      /\ ~mixed => \A j \in ItemIds : Open(j) /\ ~items[j].moved =>
              notice.stored /\ notice.item = j /\ notice.date = items[j].date
  BY DEF NoticeInv, NoticeTypes, DeadlineFollowsNotice
<1>2. ASSUME NEW ticked \in BOOLEAN, SetDone(i, ticked) PROVE NoticeInv'
  <2> DEFINE r == [items[i] EXCEPT !.done = ticked, !.moved = items[i].moved \/ ~ticked]
  <2>1. items' = [items EXCEPT ![i] = r] /\ UNCHANGED <<notice, made, editor, mixed>>
    BY <1>1, <1>2 DEF SetDone, NoticeTypes
  <2>3. r \in ItemRows /\ (~r.done => r.moved)
    BY <1>1 DEF ItemRows
  <2> HIDE DEF r
  <2>4. QED BY <1>1, <2>1, <2>3, ItemChanges DEF NoticeTypes
<1>3. ASSUME NEW date \in Dates, Reschedule(i, date) PROVE NoticeInv'
  <2> DEFINE r == [items[i] EXCEPT !.date = date, !.moved = TRUE]
  <2>1. items' = [items EXCEPT ![i] = r] /\ UNCHANGED <<notice, made, editor, mixed>>
    BY <1>1, <1>3 DEF Reschedule, NoticeTypes
  <2>2. r \in ItemRows /\ r.moved
    BY <1>1, NoticeBlanks DEF ItemRows
  <2> HIDE DEF r
  <2>3. QED BY <1>1, <2>1, <2>2, ItemChanges DEF NoticeTypes
<1>4. CASE DeleteItem(i)
  <2>1. /\ items' = [items EXCEPT ![i] = NotThere] /\ UNCHANGED <<made, editor, mixed>>
        /\ notice' = IF notice.item = i THEN [notice EXCEPT !.item = NoItem] ELSE notice
    BY <1>4 DEF DeleteItem
  <2>2. notice' \in Notice
    BY <1>1, <2>1 DEF NoticeTypes, Notice
  <2>3. ~mixed' => \A j \in ItemIds \ {i} : Open(j) /\ ~items[j].moved =>
              notice'.stored /\ notice'.item = j /\ notice'.date = items[j].date
    BY <1>1, <2>1
  <2>4. QED BY <1>1, <2>1, <2>2, <2>3, NoticeBlanks, ItemChanges DEF NoticeTypes
<1>5. QED BY <1>2, <1>3, <1>4

LEMMA ReadNoticeStep ==
    ASSUME NoticeInv, NEW e \in Editors, (\E date \in AnyDate : ReadNotice(e, date)) \/ LeaveNotice(e)
    PROVE  NoticeInv'
<1>1. UNCHANGED <<notice, items, made, mixed>>
  BY DEF ReadNotice, LeaveNotice
<1>2. editor' \in [Editors -> EditorRows]
  <2>1. notice \in Notice /\ editor \in [Editors -> EditorRows]
    BY DEF NoticeInv, NoticeTypes
  <2>2. CASE LeaveNotice(e)
    BY <2>1, <2>2, NoticeBlanks DEF LeaveNotice
  <2>3. ASSUME NEW date \in AnyDate, ReadNotice(e, date) PROVE editor' \in [Editors -> EditorRows]
    <3>1. [on |-> TRUE, seen |-> notice, date |-> date] \in EditorRows
      BY <2>1 DEF EditorRows
    <3>2. QED BY <2>1, <2>3, <3>1 DEF ReadNotice
  <2>4. QED BY <2>2, <2>3
<1>3. QED BY <1>1, <1>2 DEF NoticeInv, NoticeTypes, DeadlineFollowsNotice, Open

LEMMA SaveNoticeStep ==
    ASSUME NoticeInv, NEW e \in Editors, CreateItem(e) \/ MoveItem(e) \/ RemoveItem(e) PROVE NoticeInv'
<1> DEFINE seen == editor[e].seen
           date == editor[e].date
<1>1. /\ NoticeTypes /\ editor[e] \in EditorRows /\ seen \in Notice /\ date \in AnyDate
      /\ seen.item \in ItemIds \cup {NoItem} /\ mixed \in BOOLEAN
      /\ ~mixed => \A j \in ItemIds : Open(j) /\ ~items[j].moved =>
              notice.stored /\ notice.item = j /\ notice.date = items[j].date
  BY DEF NoticeInv, NoticeTypes, DeadlineFollowsNotice, EditorRows, Notice
<1>2. ASSUME NEW item \in ItemIds \cup {NoItem}, NEW newItems, Saves(e, item, newItems)
      PROVE  /\ items' = newItems /\ notice' \in Notice /\ editor' \in [Editors -> EditorRows]
             /\ notice'.stored /\ notice'.item = item /\ notice'.date = date
             /\ mixed' \in BOOLEAN /\ (~mixed' => ~mixed /\ seen = notice)
  <2>1. notice' = [stored |-> TRUE, date |-> date, item |-> item] /\ items' = newItems
        /\ mixed' = (mixed \/ seen # notice) /\ editor' = [editor EXCEPT ![e] = Apart]
    BY <1>2 DEF Saves
  <2>2. notice' \in Notice /\ notice'.stored /\ notice'.item = item /\ notice'.date = date
    BY <1>1, <2>1 DEF Notice
  <2>3. mixed' \in BOOLEAN /\ (~mixed' => ~mixed /\ seen = notice)
    BY <1>1, <2>1
  <2>4. editor' \in [Editors -> EditorRows]
    BY <1>1, <2>1, NoticeBlanks DEF NoticeTypes
  <2>5. QED BY <2>1, <2>2, <2>3, <2>4
<1>3. CASE CreateItem(e)
  <2> DEFINE r == [stored |-> TRUE, done |-> FALSE, date |-> date, moved |-> FALSE]
  <2>1. made + 1 \in ItemIds /\ made' = made + 1 /\ made' \in 0..MaxNoticeItems /\ seen.item = NoItem
    BY <1>1, <1>3, NoticesAssumption DEF CreateItem, NoticeTypes, ItemIds
  <2>2. PICK i \in ItemIds : i = made + 1
    BY <2>1
  <2>3. Saves(e, i, [items EXCEPT ![i] = r])
    BY <1>3, <2>2 DEF CreateItem
  <2>4. r \in ItemRows /\ r.date = date
    BY <1>1 DEF ItemRows
  <2> HIDE DEF r, date, seen
  <2>5. /\ items' = [items EXCEPT ![i] = r] /\ notice' \in Notice /\ editor' \in [Editors -> EditorRows]
        /\ notice'.stored /\ notice'.item = i /\ notice'.date = date
        /\ mixed' \in BOOLEAN /\ (~mixed' => ~mixed /\ seen = notice)
    BY <1>2, <2>3
  <2>6. ~mixed' => \A j \in ItemIds : ~(Open(j) /\ ~items[j].moved)
    BY <1>1, <2>1, <2>5, NoticeBlanks
  <2>7. QED BY <2>1, <2>4, <2>5, <2>6, ItemChanges
<1>4. CASE MoveItem(e)
  <2>1. seen.item \in ItemIds
    BY <1>1, <1>4 DEF MoveItem
  <2>2. PICK i \in ItemIds : i = seen.item
    BY <2>1
  <2> DEFINE r == IF items[i].done THEN items[i] ELSE [items[i] EXCEPT !.date = date, !.moved = FALSE]
  <2>3. Saves(e, i, [items EXCEPT ![i] = r]) /\ made' = made
    BY <1>4, <2>2 DEF MoveItem
  <2>4. r \in ItemRows /\ (~r.done => r.date = date)
    <3>1. items[i] \in ItemRows
      BY <1>1 DEF NoticeTypes
    <3>2. QED BY <1>1, <3>1 DEF ItemRows
  <2>5. seen.item = i
    BY <2>2
  <2> HIDE DEF r, date, seen
  <2>6. /\ items' = [items EXCEPT ![i] = r] /\ notice' \in Notice /\ editor' \in [Editors -> EditorRows]
        /\ notice'.stored /\ notice'.item = i /\ notice'.date = date
        /\ mixed' \in BOOLEAN /\ (~mixed' => ~mixed /\ seen = notice)
    BY <1>2, <2>3
  <2>7. ~mixed' => \A j \in ItemIds \ {i} : ~(Open(j) /\ ~items[j].moved)
    BY <1>1, <2>5, <2>6
  <2>8. QED BY <1>1, <2>3, <2>4, <2>6, <2>7, ItemChanges DEF NoticeTypes
<1>5. CASE RemoveItem(e)
  <2>1. CASE seen.item # NoItem /\ Open(seen.item)
    <3>1. PICK i \in ItemIds : i = seen.item
      BY <1>1, <2>1
    <3>2. Saves(e, NoItem, [items EXCEPT ![i] = NotThere]) /\ made' = made
      BY <1>5, <2>1, <3>1 DEF RemoveItem
    <3> HIDE DEF date, seen
    <3>3. /\ items' = [items EXCEPT ![i] = NotThere] /\ notice' \in Notice /\ editor' \in [Editors -> EditorRows]
          /\ mixed' \in BOOLEAN /\ (~mixed' => ~mixed /\ seen = notice)
      BY <1>2, <3>2
    <3>4. ~mixed' => \A j \in ItemIds \ {i} : ~(Open(j) /\ ~items[j].moved)
      BY <1>1, <3>1, <3>3
    <3>5. QED BY <1>1, <3>2, <3>3, <3>4, NoticeBlanks, ItemChanges DEF NoticeTypes
  <2>2. CASE ~(seen.item # NoItem /\ Open(seen.item))
    <3>1. PICK i \in ItemIds \cup {NoItem} : i = seen.item
      BY <1>1
    <3>2. Saves(e, i, items) /\ made' = made
      BY <1>5, <2>2, <3>1 DEF RemoveItem
    <3> HIDE DEF date, seen
    <3>3. /\ items' = items /\ notice' \in Notice /\ editor' \in [Editors -> EditorRows]
          /\ mixed' \in BOOLEAN /\ (~mixed' => ~mixed /\ seen = notice)
      BY <1>2, <3>2
    <3>4. ~mixed' => \A j \in ItemIds : ~(Open(j) /\ ~items[j].moved)
      BY <1>1, <2>2, <3>1, <3>3, NoticeBlanks
    <3>5. QED BY <1>1, <3>2, <3>3, <3>4 DEF NoticeInv, NoticeTypes, DeadlineFollowsNotice, Open
  <2>3. QED BY <2>1, <2>2
<1>6. QED BY <1>3, <1>4, <1>5

LEMMA DeleteNoticeStep == ASSUME NoticeInv, DeleteNotice PROVE NoticeInv'
<1>1. /\ items' = [i \in ItemIds |-> IF i = notice.item /\ Open(i) THEN NotThere ELSE items[i]]
      /\ notice' = Unsaved /\ UNCHANGED <<made, editor, mixed>>
  BY DEF DeleteNotice
<1>2. NoticeTypes'
  BY <1>1, NoticeBlanks DEF NoticeInv, NoticeTypes
<1>3. ~mixed => \A i \in ItemIds : ~(Open(i)' /\ ~items'[i].moved)
  BY <1>1, NoticeBlanks DEF NoticeInv, DeadlineFollowsNotice, Open
<1>4. QED BY <1>1, <1>2, <1>3 DEF NoticeInv, DeadlineFollowsNotice

LEMMA NoticeInvStep == NoticeInv /\ [NoticesNext]_noticeVars => NoticeInv'
<1>1. ASSUME NoticeInv, UNCHANGED noticeVars PROVE NoticeInv'
  BY <1>1 DEF noticeVars, NoticeInv, NoticeTypes, DeadlineFollowsNotice, Open
<1>2. QED BY <1>1, ReadNoticeStep, SaveNoticeStep, DeleteNoticeStep, WorkStep DEF NoticesNext

\* A deadline in Work that came from a notice has the notice's date, unless staff moved it or
\* opened it again, or two requests saved the notice at once (sync_item, delete_notice).
THEOREM DeadlinesKept == NoticesSpec => []DeadlineFollowsNotice
<1>1. NoticeInv => DeadlineFollowsNotice
  BY DEF NoticeInv
<1>2. QED BY <1>1, NoticeInvInit, NoticeInvStep, PTL DEF NoticesSpec

----------------------------------------------------------------------------
\* Announcements.  A copy that is open knows what the row holds, or is older than the row; what
\* a save is about to announce is what it really changes, unless its saver had not seen the last
\* change; and one transaction at a time holds the row.

SeenVersions == 0..MaxRecordSaves
RecordRows == [there : BOOLEAN, v : SeenVersions, value : Tracked, to : Assignees]
FactRows == [due : SUBSET Announcement, gifts : SUBSET Gift, blind : SUBSET RecordSaves,
             cut : SUBSET RecordSaves]
SaverRows == [step : {"idle", "open", "saved", "hooks"}, who : Assignees, atomic : BOOLEAN,
              leaver : Assignees, seen : SeenVersions, new : BOOLEAN, value : Tracked,
              to : Assignees, before : Tracked, loaded : Assignees, pending : SUBSET Kinds,
              hooks : Seq(Announcement), within : SUBSET Gift, after : SUBSET Gift,
              draft : RecordRows, truth : FactRows]
Deliveries == [what : Announcement, holds : RecordSaves]

TellTypes ==
    /\ sort \in Sorts /\ record \in RecordRows /\ signedUp \subseteq Colleagues
    /\ teller \in [RecordRequests -> SaverRows]
    /\ announced \subseteq Deliveries /\ bell \subseteq Gift
    /\ happened \in FactRows

\* The copy remembers what it held when it was loaded or last saved.
Remembers(t) ==
    /\ t.value = t.before /\ t.to = t.loaded
    /\ t.leaver # NoColleague => t.atomic /\ t.who # NoColleague
    /\ \A kind \in t.pending : \E a \in ToSet(t.hooks) : a.kind = kind

OpenWell(t) ==
    t.step = "open" =>
        /\ t.new <=> ~record.there
        /\ t.pending = {} /\ t.hooks = << >> /\ t.after = {}
        /\ t.leaver # NoColleague => t.loaded = t.leaver

\* Nobody has seen more than the row holds, and who has seen the last of it has that.
SeenWell(t) ==
    t.step = "open" \/ (t.step = "hooks" /\ ~t.atomic) =>
        /\ t.seen <= record.v
        /\ t.seen = record.v => t.before = record.value /\ t.loaded = record.to

HandedOver(t) == t.leaver # NoColleague /\ t.draft.to \notin {NoColleague, t.who}
HandedGift(t) == [to |-> t.draft.to, at |-> t.draft.v]

EventsReady(t) ==
    /\ t.truth.due \subseteq ToSet(t.hooks)
    /\ \A a \in ToSet(t.hooks) :
          a.at = t.draft.v /\ (a \in t.truth.due \/ a.at \in t.truth.blind)

GiftsReady(t) ==
    /\ \A g \in t.truth.gifts : g \in t.within \/ (HandedOver(t) /\ g = HandedGift(t))
    /\ \A g \in t.within : g \in t.truth.gifts \/ g.at \in t.truth.blind
    /\ HandedOver(t) => HandedGift(t) \in t.truth.gifts \/ t.draft.v \in t.truth.blind

SavedWell(t) ==
    t.step = "saved" =>
        /\ t.draft.there /\ t.draft.v = record.v + 1 /\ t.draft.v \in RecordSaves
        /\ t.atomic /\ ~t.new /\ t.truth.cut = {}
        /\ EventsReady(t) /\ GiftsReady(t)
        /\ sort \in {"contact", "matter"} => "created" \in t.pending \/ "updated" \in t.pending

HooksWell(t) ==
    t.step = "hooks" =>
        /\ record.there /\ ~t.new
        /\ \A a \in ToSet(t.hooks) :
              a.at <= record.v /\ (a \in happened.due \/ a.at \in happened.blind)
        /\ \A g \in t.after : g \in happened.gifts \/ g.at \in happened.blind

TellsWell(t) == Remembers(t) /\ OpenWell(t) /\ SeenWell(t) /\ SavedWell(t) /\ HooksWell(t)

RowAlone ==
    /\ \A s, q \in RecordRequests : teller[s].step = "saved" /\ teller[q].step = "saved" => s = q
    /\ ~record.there =>
          /\ record = NoRecord
          /\ \A s, q \in RecordRequests :
                teller[s].step # "idle" /\ teller[q].step # "idle" => s = q

\* What is to be toTell is toTell, lost with its process, or with a request that will tell it.
EventComes(a) ==
    \/ a.at \in happened.cut
    \/ \E d \in announced : d.what = a /\ d.holds >= a.at
    \/ \E s \in RecordRequests : teller[s].step = "hooks" /\ a \in ToSet(teller[s].hooks)
GiftComes(g) ==
    \/ g.at \in happened.cut \/ g \in bell
    \/ \E s \in RecordRequests : teller[s].step = "hooks" /\ g \in teller[s].after

AllTold ==
    /\ \A a \in happened.due : EventComes(a)
    /\ \A d \in announced : d.what \in happened.due \/ d.what.at \in happened.blind
    /\ \A g \in happened.gifts : GiftComes(g)
    /\ \A g \in bell : g \in happened.gifts \/ g.at \in happened.blind

TellInv ==
    TellTypes /\ (\A s \in RecordRequests : TellsWell(teller[s])) /\ RowAlone /\ AllTold
LEMMA SaverBlanks ==
    /\ NoRecord \in RecordRows /\ ~NoRecord.there /\ NoRecord.v = 0
    /\ NoRecord.value = 0 /\ NoRecord.to = NoColleague
    /\ NoFacts \in FactRows /\ NoFacts.due = {} /\ NoFacts.gifts = {}
    /\ NoFacts.blind = {} /\ NoFacts.cut = {}
    /\ NoSaver \in SaverRows /\ NoSaver.step = "idle" /\ NoSaver.leaver = NoColleague
    /\ NoSaver.value = 0 /\ NoSaver.before = 0 /\ NoSaver.to = NoColleague
    /\ NoSaver.loaded = NoColleague /\ NoSaver.pending = {} /\ NoSaver.hooks = << >>
    /\ NoSaver.after = {} /\ NoSaver.within = {} /\ NoSaver.seen = 0 /\ ~NoSaver.new
<1>1. 0 \in SeenVersions /\ 0 \in Tracked /\ NoColleague \in Assignees /\ Kinds # {}
  BY AnnouncementsAssumption DEF SeenVersions, Tracked, Assignees, Kinds
<1>2. /\ NoRecord \in RecordRows /\ ~NoRecord.there /\ NoRecord.v = 0
      /\ NoRecord.value = 0 /\ NoRecord.to = NoColleague
  BY <1>1 DEF NoRecord, RecordRows
<1>3. /\ NoFacts \in FactRows /\ NoFacts.due = {} /\ NoFacts.gifts = {}
      /\ NoFacts.blind = {} /\ NoFacts.cut = {}
  BY DEF NoFacts, FactRows
<1>4. << >> \in Seq(Announcement)
  OBVIOUS
<1>5. NoSaver \in SaverRows
  BY <1>1, <1>2, <1>3, <1>4 DEF NoSaver, SaverRows
<1>6. QED BY <1>2, <1>3, <1>5 DEF NoSaver

LEMMA VersionFacts ==
    /\ \A v \in SeenVersions : v \in Nat /\ v <= MaxRecordSaves
    /\ \A v \in RecordSaves : v \in Nat /\ v \in SeenVersions
    /\ \A v \in SeenVersions : v + 1 \in RecordSaves => v + 1 \in SeenVersions
BY AnnouncementsAssumption DEF SeenVersions, RecordSaves

\* Which event a save is, by the sort of record.
Emits(kind, created, before, after) ==
    \/ kind = "created" /\ created /\ sort # "invoice"
    \/ kind = "updated" /\ ~created /\ sort \in {"contact", "matter"}
    \/ kind = "status_changed" /\ ~created /\ before # after /\ sort = "matter"
    \/ kind = "completed" /\ after = 1 /\ (created \/ before = 0) /\ sort = "work_item"
    \/ kind = "issued" /\ before = 0 /\ after = 1 /\ sort = "invoice"

LEMMA ShortEvents ==
    /\ << >> \in Seq(Kinds) /\ ToSet(<< >>) = {} /\ << >> \o << >> = << >>
    /\ \A p \in Kinds : /\ <<p>> \in Seq(Kinds) /\ ToSet(<<p>>) = {p}
                        /\ <<p>> \o << >> = <<p>> /\ << >> \o <<p>> = <<p>>
    /\ \A p, q \in Kinds : /\ <<p, q>> \in Seq(Kinds) /\ ToSet(<<p, q>>) = {p, q}
                           /\ <<p>> \o <<q>> = <<p, q>>
<1>1. << >> \in Seq(Kinds) /\ ToSet(<< >>) = {} /\ << >> \o << >> = << >>
  BY DEF ToSet
<1>2. ASSUME NEW p \in Kinds
      PROVE  /\ <<p>> \in Seq(Kinds) /\ ToSet(<<p>>) = {p}
             /\ <<p>> \o << >> = <<p>> /\ << >> \o <<p>> = <<p>>
  <2>1. <<p>> \in Seq(Kinds) /\ <<p>> \o << >> = <<p>> /\ << >> \o <<p>> = <<p>>
    BY <1>2
  <2>2. DOMAIN <<p>> = {1} /\ <<p>>[1] = p
    OBVIOUS
  <2>3. QED BY <2>1, <2>2 DEF ToSet
<1>3. ASSUME NEW p \in Kinds, NEW q \in Kinds
      PROVE  <<p, q>> \in Seq(Kinds) /\ ToSet(<<p, q>>) = {p, q} /\ <<p>> \o <<q>> = <<p, q>>
  <2>1. <<p, q>> \in Seq(Kinds)
    OBVIOUS
  <2>2. DOMAIN <<p, q>> = {1, 2} /\ <<p, q>>[1] = p /\ <<p, q>>[2] = q
    OBVIOUS
  <2>3. <<p>> \o <<q>> = <<p, q>>
    <3> DEFINE both == <<p>> \o <<q>>
    <3>1. <<p>> \in Seq(Kinds) /\ <<q>> \in Seq(Kinds) /\ Len(<<p>>) = 1 /\ Len(<<q>>) = 1
          /\ <<p>>[1] = p /\ <<q>>[1] = q
      OBVIOUS
    <3>2. both \in Seq(Kinds) /\ Len(both) = 2 /\ both[1] = p /\ both[2] = q
      BY <3>1
    <3> HIDE DEF both
    <3>3. both = <<both[1], both[2]>>
      BY <3>2
    <3>4. QED BY <3>2, <3>3 DEF both
  <2>4. QED BY <2>1, <2>2, <2>3 DEF ToSet
<1>4. QED BY <1>1, <1>2, <1>3

LEMMA EventKinds ==
    ASSUME sort \in Sorts, NEW created \in BOOLEAN, NEW before \in Tracked, NEW after \in Tracked
    PROVE  /\ EventsOf({}, created, before, after) \in Seq(Kinds)
           /\ \A kind \in Kinds : kind \in ToSet(EventsOf({}, created, before, after))
                                     <=> Emits(kind, created, before, after)
<1> DEFINE events == EventsOf({}, created, before, after)
           born == Emit({}, "created", created)
           saved == born \o Emit({}, "updated", ~created)
           differs == Emit({}, "status_changed", ~created /\ before # after)
           completed == Emit({}, "completed", after = 1 /\ (created \/ before = 0))
<1>1. \A kind \in Kinds : kind = "created" \/ kind = "updated" \/ kind = "status_changed"
                             \/ kind = "completed" \/ kind = "issued"
  BY DEF Kinds
<1>2. /\ "created" \in Kinds /\ "updated" \in Kinds /\ "status_changed" \in Kinds
      /\ "completed" \in Kinds /\ "issued" \in Kinds
  BY DEF Kinds
<1>3. /\ born = IF created THEN <<"created">> ELSE << >>
      /\ Emit({}, "updated", ~created) = IF created THEN << >> ELSE <<"updated">>
      /\ differs = IF ~created /\ before # after THEN <<"status_changed">> ELSE << >>
      /\ completed = IF after = 1 /\ (created \/ before = 0) THEN <<"completed">> ELSE << >>
      /\ Emit({}, "issued", before = 0 /\ after = 1)
            = IF before = 0 /\ after = 1 THEN <<"issued">> ELSE << >>
  BY DEF Emit, Merged
<1>4. saved = IF created THEN <<"created">> ELSE <<"updated">>
  <2> HIDE DEF born
  <2>1. QED BY <1>2, <1>3, ShortEvents
<1>5. /\ sort = "contact" => events = saved
      /\ sort = "matter" => events = saved \o differs
      /\ sort = "work_item" => events = born \o completed
      /\ sort = "invoice" => events = Emit({}, "issued", before = 0 /\ after = 1)
  BY DEF EventsOf
<1>0. /\ << >> \in Seq(Kinds) /\ ToSet(<< >>) = {}
      /\ <<"created">> \in Seq(Kinds) /\ ToSet(<<"created">>) = {"created"}
      /\ <<"updated">> \in Seq(Kinds) /\ ToSet(<<"updated">>) = {"updated"}
      /\ <<"completed">> \in Seq(Kinds) /\ ToSet(<<"completed">>) = {"completed"}
      /\ <<"issued">> \in Seq(Kinds) /\ ToSet(<<"issued">>) = {"issued"}
      /\ <<"updated", "status_changed">> \in Seq(Kinds)
      /\ ToSet(<<"updated", "status_changed">>) = {"updated", "status_changed"}
      /\ <<"created", "completed">> \in Seq(Kinds)
      /\ ToSet(<<"created", "completed">>) = {"created", "completed"}
  BY <1>2, ShortEvents
<1> SUFFICES /\ events \in Seq(Kinds)
             /\ \A kind \in Kinds : kind \in ToSet(events) <=> Emits(kind, created, before, after)
  OBVIOUS
<1> HIDE DEF saved, born, differs, completed, events
<1>6. CASE sort = "contact"
  <2>1. QED BY <1>1, <1>2, <1>4, <1>5, <1>6, ShortEvents DEF Emits
<1>7. CASE sort = "matter"
  <2>1. events = IF created THEN <<"created">>
                 ELSE IF before # after THEN <<"updated", "status_changed">> ELSE <<"updated">>
    BY <1>2, <1>3, <1>4, <1>5, <1>7, ShortEvents
  <2>2. CASE created
    BY <1>1, <1>2, <1>7, <2>1, <2>2, <1>0 DEF Emits
  <2>3. CASE ~created /\ before # after
    BY <1>1, <1>2, <1>7, <2>1, <2>3, <1>0 DEF Emits
  <2>4. CASE ~created /\ before = after
    BY <1>1, <1>2, <1>7, <2>1, <2>4, <1>0 DEF Emits
  <2>5. QED BY <2>2, <2>3, <2>4
<1>8. CASE sort = "work_item"
  <2>1. events = IF after = 1 /\ (created \/ before = 0)
                 THEN (IF created THEN <<"created", "completed">> ELSE <<"completed">>)
                 ELSE (IF created THEN <<"created">> ELSE << >>)
    BY <1>2, <1>3, <1>5, <1>8, ShortEvents
  <2>2. CASE created
    BY <1>1, <1>2, <1>8, <2>1, <2>2, <1>0 DEF Emits
  <2>3. CASE ~created
    BY <1>1, <1>2, <1>8, <2>1, <2>3, <1>0 DEF Emits
  <2>4. QED BY <2>2, <2>3
<1>9. CASE sort = "invoice"
  <2>1. QED BY <1>1, <1>2, <1>3, <1>5, <1>9, <1>0 DEF Emits
<1>10. QED BY <1>6, <1>7, <1>8, <1>9 DEF Sorts

LEMMA HooksSay ==
    ASSUME NEW kinds \in Seq(Kinds), NEW at \in RecordSaves, NEW from \in Tracked, NEW to \in Tracked
    PROVE  /\ Hooks(kinds, at, from, to) \in Seq(Announcement)
           /\ \A kind \in ToSet(kinds) : Says(kind, at, from, to) \in ToSet(Hooks(kinds, at, from, to))
           /\ \A a \in ToSet(Hooks(kinds, at, from, to)) :
                 \E kind \in ToSet(kinds) : a = Says(kind, at, from, to)
           /\ \A kind \in Kinds : /\ Says(kind, at, from, to) \in Announcement
                                  /\ Says(kind, at, from, to).kind = kind
                                  /\ Says(kind, at, from, to).at = at
<1>1. \A kind \in Kinds : /\ Says(kind, at, from, to) \in Announcement
                          /\ Says(kind, at, from, to).kind = kind
                          /\ Says(kind, at, from, to).at = at
  BY DEF Says, Announcement, Tracked
<1>2. \A k \in DOMAIN kinds : kinds[k] \in Kinds
  OBVIOUS
<1>3. Hooks(kinds, at, from, to) \in Seq(Announcement)
  BY <1>1, <1>2 DEF Hooks
<1>4. QED BY <1>1, <1>2, <1>3 DEF Hooks, ToSet

LEMMA HeadAndTail ==
    ASSUME NEW S, NEW q \in Seq(S), q # << >>
    PROVE  /\ Head(q) \in S /\ Tail(q) \in Seq(S) /\ Head(q) \in ToSet(q)
           /\ \A x \in ToSet(q) : x = Head(q) \/ x \in ToSet(Tail(q))
           /\ \A x \in ToSet(Tail(q)) : x \in ToSet(q)
<1>1. Head(q) = q[1] /\ 1 \in DOMAIN q /\ Tail(q) \in Seq(S) /\ q[1] \in S
  OBVIOUS
<1>2. \A k \in DOMAIN Tail(q) : k + 1 \in DOMAIN q /\ Tail(q)[k] = q[k + 1]
  OBVIOUS
<1>3. \A k \in DOMAIN q : k = 1 \/ (k - 1 \in DOMAIN Tail(q) /\ Tail(q)[k - 1] = q[k])
  OBVIOUS
<1>4. \A r \in Seq(S) : \A k \in DOMAIN r : r[k] \in ToSet(r)
  BY DEF ToSet
<1>5. \A r \in Seq(S) : \A x \in ToSet(r) : \E k \in DOMAIN r : x = r[k]
  BY DEF ToSet
<1>6. Head(q) \in ToSet(q)
  BY <1>1, <1>4
<1>7. ASSUME NEW x \in ToSet(q)
      PROVE  x = Head(q) \/ x \in ToSet(Tail(q))
  <2>1. PICK k \in DOMAIN q : x = q[k]
    BY <1>5
  <2>2. CASE k = 1
    BY <2>1, <2>2, <1>1
  <2>3. CASE k - 1 \in DOMAIN Tail(q) /\ Tail(q)[k - 1] = q[k]
    BY <2>1, <2>3, <1>1, <1>4
  <2>4. QED BY <2>2, <2>3, <1>3
<1>8. ASSUME NEW x \in ToSet(Tail(q))
      PROVE  x \in ToSet(q)
  <2>1. PICK k \in DOMAIN Tail(q) : x = Tail(q)[k]
    BY <1>1, <1>5
  <2>2. k + 1 \in DOMAIN q /\ x = q[k + 1]
    BY <2>1, <1>2
  <2>3. QED BY <2>2, <1>4
<1>9. QED BY <1>1, <1>6, <1>7, <1>8

\* The events and the notifications a save of a copy leads to.
KindsOf(s, value) == EventsOf(teller[s].pending, teller[s].new, teller[s].before, value)
HooksOf(s, value) == Hooks(KindsOf(s, value), record.v + 1, teller[s].before, value)
GiftsOf(s, to) ==
    IF Tells(s, IF teller[s].new THEN NoColleague ELSE teller[s].loaded, to)
    THEN {[to |-> to, at |-> record.v + 1]} ELSE {}

SavesCopy(s, fields, value, to) ==
    /\ teller[s].step = "open" /\ record.v + 1 \in RecordSaves
    /\ MayBecome(s, fields, value, to)

LEMMA RowWritten ==
    ASSUME TellTypes, NEW s \in RecordRequests, TellsWell(teller[s]),
           NEW fields \in {"all", "value", "assignee"}, NEW value \in Tracked, NEW to \in Assignees,
           SavesCopy(s, fields, value, to)
    PROVE  LET w == Written(fields, value, to) IN
           /\ w \in RecordRows /\ w.there /\ w.v = record.v + 1
           /\ fields # "assignee" => w.value = value
           /\ fields = "assignee" => w.value = record.value
           /\ fields # "value" => w.to = to
           /\ fields = "value" => w.to = record.to
<1>1. record.value \in Tracked /\ record.to \in Assignees /\ record.v \in SeenVersions
  BY DEF TellTypes, RecordRows
<1>2. record.v + 1 \in SeenVersions
  BY <1>1, VersionFacts DEF SavesCopy
<1>3. QED BY <1>1, <1>2 DEF Written, RecordRows

\* What changed is announced, and nothing else but by a saver that had not seen what it changed.
LEMMA EventsGotReady ==
    ASSUME TellTypes, NEW s \in RecordRequests, TellsWell(teller[s]),
           NEW fields \in {"all", "value", "assignee"}, NEW value \in Tracked, NEW to \in Assignees,
           SavesCopy(s, fields, value, to), NEW w, w = Written(fields, value, to)
    PROVE  /\ KindsOf(s, value) \in Seq(Kinds) /\ HooksOf(s, value) \in Seq(Announcement)
           /\ Happened(s, w).due \subseteq ToSet(HooksOf(s, value))
           /\ \A a \in ToSet(HooksOf(s, value)) :
                 /\ a.at = w.v
                 /\ a \in Happened(s, w).due \/ a.at \in Happened(s, w).blind
           /\ \A kind \in ToSet(KindsOf(s, value)) :
                 \E a \in ToSet(HooksOf(s, value)) : a.kind = kind
           /\ sort \in {"contact", "matter"} =>
                 "created" \in ToSet(KindsOf(s, value)) \/ "updated" \in ToSet(KindsOf(s, value))
<1> DEFINE t == teller[s]
           created == t.new
           differs == ~created /\ ~Blind(s) /\ record.value # w.value
           changed == {kind \in Kinds :
                         \/ kind = "created" /\ created /\ sort # "invoice"
                         \/ kind = "updated" /\ ~created /\ sort \in {"contact", "matter"}
                         \/ kind = "status_changed" /\ differs /\ sort = "matter"
                         \/ kind = "issued" /\ differs /\ sort = "invoice"
                         \/ kind = "completed" /\ (differs \/ created)
                            /\ sort = "work_item" /\ w.value = 1}
<1>1. /\ t \in SaverRows /\ sort \in Sorts /\ record \in RecordRows
      /\ record.value \in Tracked /\ record.v \in SeenVersions
  BY DEF TellTypes, RecordRows
<1>2. /\ t.new \in BOOLEAN /\ t.before \in Tracked /\ t.value = t.before /\ t.pending = {}
      /\ created <=> ~record.there
      /\ ~Blind(s) => t.before = record.value
  BY <1>1 DEF SaverRows, TellsWell, Remembers, OpenWell, SeenWell, SavesCopy, Blind
<1>3. /\ w.v = record.v + 1 /\ w.v \in RecordSaves
      /\ fields # "assignee" => w.value = value
      /\ fields = "assignee" => w.value = record.value
  BY RowWritten DEF SavesCopy
<1>4. /\ fields = "assignee" => value = t.before
      /\ created => fields = "all"
      /\ sort = "invoice" => value >= t.before /\ (created => value = 0)
  BY <1>2 DEF SavesCopy, MayBecome
<1>5. KindsOf(s, value) \in Seq(Kinds)
      /\ \A kind \in Kinds : kind \in ToSet(KindsOf(s, value)) <=> Emits(kind, created, t.before, value)
  BY <1>1, <1>2, EventKinds DEF KindsOf
<1>6. ToSet(KindsOf(s, value)) \subseteq Kinds
  BY <1>5 DEF ToSet
<1>7. /\ HooksOf(s, value) \in Seq(Announcement)
      /\ \A kind \in ToSet(KindsOf(s, value)) : Says(kind, w.v, t.before, value) \in ToSet(HooksOf(s, value))
      /\ \A a \in ToSet(HooksOf(s, value)) :
            \E kind \in ToSet(KindsOf(s, value)) : a = Says(kind, w.v, t.before, value)
      /\ \A kind \in Kinds : /\ Says(kind, w.v, t.before, value).kind = kind
                             /\ Says(kind, w.v, t.before, value).at = w.v
  BY <1>2, <1>3, <1>5, HooksSay DEF HooksOf
<1>8. /\ Happened(s, w).due = {Says(kind, w.v, record.value, w.value) : kind \in changed}
      /\ Happened(s, w).blind = IF Blind(s) THEN {w.v} ELSE {}
  BY <1>2 DEF Happened
<1>9. ASSUME NEW kind \in changed
      PROVE  /\ kind \in ToSet(KindsOf(s, value))
             /\ Says(kind, w.v, record.value, w.value) = Says(kind, w.v, t.before, value)
  <2>1. kind \in Kinds
    OBVIOUS
  <2>2. differs => t.before = record.value /\ fields # "assignee" /\ w.value = value
    BY <1>2, <1>3
  <2>3. Emits(kind, created, t.before, value)
    BY <2>2, <1>1, <1>2, <1>3, <1>4 DEF Emits, Tracked
  <2>4. kind = "status_changed" => differs
    OBVIOUS
  <2>5. Says(kind, w.v, record.value, w.value) = Says(kind, w.v, t.before, value)
    BY <2>2, <2>4 DEF Says
  <2>6. QED BY <1>5, <2>1, <2>3, <2>5
<1>10. ASSUME NEW kind \in ToSet(KindsOf(s, value)), ~Blind(s)
       PROVE  /\ kind \in changed
              /\ Says(kind, w.v, record.value, w.value) = Says(kind, w.v, t.before, value)
  <2>1. kind \in Kinds /\ Emits(kind, created, t.before, value)
    BY <1>5, <1>6
  <2>2. t.before = record.value
    BY <1>2, <1>10
  <2>3. created => w.value = value
    BY <1>3, <1>4
  <2>4. t.before # value => w.value = value
    BY <1>3, <1>4
  <2>5. t.before # value /\ ~created => differs
    BY <2>2, <2>4, <1>10
  <2>6. kind \in changed
    BY <2>1, <2>2, <2>3, <2>4, <2>5, <1>2, <1>3, <1>4 DEF Emits, Tracked
  <2>7. Says(kind, w.v, record.value, w.value) = Says(kind, w.v, t.before, value)
    BY <2>1, <2>2, <2>4 DEF Says, Emits
  <2>8. QED BY <2>6, <2>7
<1> HIDE DEF changed, differs
<1>11. Happened(s, w).due \subseteq ToSet(HooksOf(s, value))
  BY <1>7, <1>8, <1>9
<1>12. ASSUME NEW a \in ToSet(HooksOf(s, value))
       PROVE  a.at = w.v /\ (a \in Happened(s, w).due \/ a.at \in Happened(s, w).blind)
  <2>1. PICK kind \in ToSet(KindsOf(s, value)) : a = Says(kind, w.v, t.before, value)
    BY <1>7
  <2>2. a.at = w.v
    BY <1>6, <1>7, <2>1
  <2>3. CASE Blind(s)
    BY <1>8, <2>2, <2>3
  <2>4. CASE ~Blind(s)
    BY <1>8, <1>10, <2>1, <2>2, <2>4
  <2>5. QED BY <2>2, <2>3, <2>4
<1>13. \A kind \in ToSet(KindsOf(s, value)) : \E a \in ToSet(HooksOf(s, value)) : a.kind = kind
  BY <1>6, <1>7
<1>14. sort \in {"contact", "matter"} =>
          "created" \in ToSet(KindsOf(s, value)) \/ "updated" \in ToSet(KindsOf(s, value))
  BY <1>5 DEF Emits, Kinds
<1>15. QED BY <1>5, <1>7, <1>11, <1>12, <1>13, <1>14

\* Who is really given the record is toTell, here or by the hand-over, and nobody else but by a
\* saver that had not seen who has it.
LEMMA GiftsGotReady ==
    ASSUME TellTypes, NEW s \in RecordRequests, TellsWell(teller[s]),
           NEW fields \in {"all", "value", "assignee"}, NEW value \in Tracked, NEW to \in Assignees,
           SavesCopy(s, fields, value, to), NEW w, w = Written(fields, value, to)
    PROVE  LET given == Happened(s, w).gifts
               left == teller[s].leaver # NoColleague /\ w.to \notin {NoColleague, teller[s].who}
           IN  /\ GiftsOf(s, to) \subseteq Gift
               /\ \A g \in given : g \in GiftsOf(s, to) \/ (left /\ g = [to |-> w.to, at |-> w.v])
               /\ \A g \in GiftsOf(s, to) : g \in given \/ g.at \in Happened(s, w).blind
               /\ left => [to |-> w.to, at |-> w.v] \in given \/ w.v \in Happened(s, w).blind
<1> DEFINE t == teller[s]
           g == [to |-> w.to, at |-> w.v]
           gives == /\ w.to \notin {NoColleague, t.who} /\ t.who # NoColleague
                    /\ w.to \in signedUp
                    /\ t.new \/ (~Blind(s) /\ w.to # record.to)
           left == t.leaver # NoColleague /\ w.to \notin {NoColleague, t.who}
<1>1. t \in SaverRows /\ signedUp \subseteq Colleagues
  BY DEF TellTypes
<1>2. /\ t.new \in BOOLEAN /\ t.to = t.loaded
      /\ t.new <=> ~record.there
      /\ ~Blind(s) => t.loaded = record.to
      /\ t.leaver # NoColleague => t.who # NoColleague /\ t.loaded = t.leaver
  BY <1>1 DEF SaverRows, TellsWell, Remembers, OpenWell, SeenWell, SavesCopy, Blind
<1>3. /\ w.v = record.v + 1 /\ w.v \in RecordSaves
      /\ fields # "value" => w.to = to
      /\ fields = "value" => w.to = record.to
  BY RowWritten DEF SavesCopy
<1>4. /\ fields = "value" => to = t.loaded
      /\ t.new => fields = "all"
      /\ t.leaver # NoColleague => fields = "assignee" /\ to \in signedUp \cup {NoColleague} /\ to # t.leaver
  BY <1>2 DEF SavesCopy, MayBecome
<1>5. /\ Happened(s, w).gifts = IF gives THEN {g} ELSE {}
      /\ Happened(s, w).blind = IF Blind(s) THEN {w.v} ELSE {}
  BY <1>2 DEF Happened
<1>6. Tells(s, IF t.new THEN NoColleague ELSE t.loaded, to) <=>
         /\ t.leaver = NoColleague
         /\ to # NoColleague /\ (t.new \/ to # t.loaded)
         /\ t.who # NoColleague /\ t.who # to
         /\ to \in signedUp
  BY <1>2 DEF Tells
<1>7. GiftsOf(s, to) = IF Tells(s, IF t.new THEN NoColleague ELSE t.loaded, to)
                       THEN {[to |-> to, at |-> w.v]} ELSE {}
  BY <1>3 DEF GiftsOf
<1>8. GiftsOf(s, to) \subseteq Gift
  BY <1>1, <1>3, <1>6, <1>7 DEF Gift
<1>9. gives => left \/ (w.to = to /\ Tells(s, IF t.new THEN NoColleague ELSE t.loaded, to))
  BY <1>2, <1>3, <1>4, <1>6
<1>10. Tells(s, IF t.new THEN NoColleague ELSE t.loaded, to) => Blind(s) \/ (gives /\ w.to = to)
  BY <1>2, <1>3, <1>4, <1>6
<1>11. left => gives \/ Blind(s)
  BY <1>2, <1>3, <1>4
<1>12. /\ \A x \in Happened(s, w).gifts : x \in GiftsOf(s, to) \/ (left /\ x = g)
       /\ \A x \in GiftsOf(s, to) : x \in Happened(s, w).gifts \/ x.at \in Happened(s, w).blind
       /\ left => g \in Happened(s, w).gifts \/ w.v \in Happened(s, w).blind
  <2> HIDE DEF gives, left
  <2>1. \A x \in Happened(s, w).gifts : x \in GiftsOf(s, to) \/ (left /\ x = g)
    BY <1>5, <1>7, <1>9
  <2>2. \A x \in GiftsOf(s, to) : x \in Happened(s, w).gifts \/ x.at \in Happened(s, w).blind
    BY <1>5, <1>7, <1>10
  <2>3. left => g \in Happened(s, w).gifts \/ w.v \in Happened(s, w).blind
    BY <1>5, <1>11
  <2>4. QED BY <2>1, <2>2, <2>3
<1>13. QED BY <1>8, <1>12

\* What really happened has its type, and adds up.
LEMMA FactsAdd ==
    ASSUME NEW known \in FactRows, NEW new \in FactRows
    PROVE  /\ Joined(known, new) \in FactRows
           /\ Joined(known, new).due = known.due \cup new.due
           /\ Joined(known, new).gifts = known.gifts \cup new.gifts
           /\ Joined(known, new).blind = known.blind \cup new.blind
           /\ Joined(known, new).cut = known.cut \cup new.cut
BY DEF FactRows, Joined

LEMMA FactsType ==
    ASSUME TellTypes, NEW s \in RecordRequests, TellsWell(teller[s]),
           NEW fields \in {"all", "value", "assignee"}, NEW value \in Tracked, NEW to \in Assignees,
           SavesCopy(s, fields, value, to), NEW w, w = Written(fields, value, to)
    PROVE  Happened(s, w) \in FactRows /\ Happened(s, w).cut = {}
<1>1. w.v \in RecordSaves /\ w.value \in Tracked /\ w.to \in Assignees
  BY RowWritten DEF SavesCopy, RecordRows
<1>2. \A kind \in Kinds : Says(kind, w.v, record.value, w.value) \in Announcement
  BY <1>1 DEF Says, Announcement, Tracked, TellTypes, RecordRows
<1>3. w.to \in signedUp => [to |-> w.to, at |-> w.v] \in Gift
  BY <1>1 DEF Gift, TellTypes
<1>4. QED BY <1>1, <1>2, <1>3 DEF Happened, FactRows

----------------------------------------------------------------------------
\* The steps of the announcements

LEMMA TellInvInit == AnnouncementsInit => TellInv
<1> SUFFICES ASSUME AnnouncementsInit PROVE TellInv
  OBVIOUS
<1>1. record \in RecordRows
  <2>1. CASE record = NoRecord
    BY <2>1, SaverBlanks
  <2>2. ASSUME NEW to \in Assignees, record = [NoRecord EXCEPT !.there = TRUE, !.to = to]
        PROVE  record \in RecordRows
    BY <2>2, SaverBlanks DEF RecordRows
  <2>3. QED BY <2>1, <2>2 DEF AnnouncementsInit
<1>2. ~record.there => record = NoRecord
  <2>1. ASSUME NEW to \in Assignees, record = [NoRecord EXCEPT !.there = TRUE, !.to = to]
        PROVE  record.there
    BY <2>1, SaverBlanks DEF RecordRows
  <2>2. QED BY <2>1 DEF AnnouncementsInit
<1>3. \A s \in RecordRequests : teller[s] = NoSaver
  BY DEF AnnouncementsInit
<1>4. TellTypes
  BY <1>1, SaverBlanks DEF AnnouncementsInit, TellTypes
<1>5. \A s \in RecordRequests : TellsWell(teller[s])
  BY <1>3, SaverBlanks DEF TellsWell, Remembers, OpenWell, SeenWell, SavedWell, HooksWell
<1>6. RowAlone
  BY <1>2, <1>3, SaverBlanks DEF RowAlone
<1>7. AllTold
  BY SaverBlanks DEF AnnouncementsInit, AllTold
<1>8. QED BY <1>4, <1>5, <1>6, <1>7 DEF TellInv

\* A request moves on, the row and what happened stay.
LEMMA SaverMoves ==
    ASSUME TellInv, NEW s \in RecordRequests, NEW r \in SaverRows,
           teller' = [teller EXCEPT ![s] = r],
           UNCHANGED <<sort, record, signedUp>>, TellsWell(r), happened' \in FactRows,
           happened'.due = happened.due, happened'.gifts = happened.gifts,
           happened'.blind = happened.blind, announced' \subseteq Deliveries, bell' \subseteq Gift,
           r.step = "saved" => teller[s].step = "saved",
           r.step # "idle" => \/ teller[s].step # "idle" \/ record.there
                              \/ \A q \in RecordRequests : teller[q].step = "idle",
           AllTold'
    PROVE  TellInv'
<1>1. TellTypes'
  BY DEF TellInv, TellTypes
<1>2. \A q \in RecordRequests : teller'[q] = IF q = s THEN r ELSE teller[q]
  BY DEF TellInv, TellTypes
<1>3. \A q \in RecordRequests : TellsWell(teller'[q])
  BY <1>2 DEF TellInv
<1>4. (\A q \in RecordRequests : TellsWell(teller[q]))'
  BY <1>3 DEF TellsWell, Remembers, OpenWell, SeenWell, SavedWell, HooksWell, EventsReady, GiftsReady,
              HandedOver, HandedGift
<1>5. RowAlone'
  BY <1>2 DEF TellInv, RowAlone
<1>6. QED BY <1>1, <1>4, <1>5 DEF TellInv

\* What is still to come comes, when a request that has nothing to send moves on.
LEMMA StillTold ==
    ASSUME TellInv, NEW s \in RecordRequests, NEW r \in SaverRows,
           teller' = [teller EXCEPT ![s] = r], teller[s].step # "hooks",
           UNCHANGED <<happened, announced, bell>>
    PROVE  AllTold'
<1>1. \A q \in RecordRequests : teller[q].step = "hooks" => teller'[q] = teller[q]
  BY DEF TellInv, TellTypes
<1>2. ASSUME NEW a \in happened.due PROVE EventComes(a)'
  BY <1>1 DEF EventComes, TellInv, AllTold
<1>3. ASSUME NEW g \in happened.gifts PROVE GiftComes(g)'
  BY <1>1 DEF GiftComes, TellInv, AllTold
<1>4. QED BY <1>2, <1>3 DEF TellInv, AllTold

LEMMA OpenCopyStep ==
    ASSUME TellInv, NEW s \in RecordRequests, NEW r \in SaverRows,
           teller[s].step = "idle", record.there,
           r.step = "open", r.seen = record.v, r.value = record.value, r.to = record.to,
           r.before = record.value, r.loaded = record.to,
           r.pending = {}, r.hooks = << >>, r.after = {}, ~r.new,
           r.leaver # NoColleague => r.atomic /\ r.who # NoColleague /\ record.to = r.leaver,
           teller' = [teller EXCEPT ![s] = r],
           UNCHANGED <<sort, record, signedUp, announced, bell, happened>>
    PROVE  TellInv'
<1>1. record.v \in SeenVersions /\ happened \in FactRows /\ announced \subseteq Deliveries /\ bell \subseteq Gift
  BY DEF TellInv, TellTypes, RecordRows
<1>2. TellsWell(r)
  BY <1>1, VersionFacts DEF TellsWell, Remembers, OpenWell, SeenWell, SavedWell, HooksWell
<1>3. AllTold'
  BY StillTold
<1>4. QED BY <1>1, <1>2, <1>3, SaverMoves

LEMMA LoadStep ==
    ASSUME TellInv, NEW s \in RecordRequests, NEW who \in Assignees, NEW atomic \in BOOLEAN,
           OpenRecord(s, who, atomic)
    PROVE  TellInv'
<1> DEFINE r == [NoSaver EXCEPT !.step = "open", !.who = who, !.atomic = atomic, !.seen = record.v,
                                !.value = record.value, !.to = record.to,
                                !.before = record.value, !.loaded = record.to]
<1>1. record.v \in SeenVersions /\ record.value \in Tracked /\ record.to \in Assignees
  BY DEF TellInv, TellTypes, RecordRows
<1>2. PICK blank \in SaverRows : blank = NoSaver
  BY SaverBlanks
<1>3. /\ r \in SaverRows /\ r.step = "open" /\ r.leaver = blank.leaver /\ r.seen = record.v
      /\ r.value = record.value /\ r.to = record.to
      /\ r.before = record.value /\ r.loaded = record.to
      /\ r.pending = blank.pending /\ r.hooks = blank.hooks /\ r.after = blank.after
      /\ r.new = blank.new
  BY <1>1, <1>2 DEF SaverRows
<1>4. /\ teller' = [teller EXCEPT ![s] = r] /\ teller[s].step = "idle" /\ record.there
      /\ UNCHANGED <<sort, record, signedUp, announced, bell, happened>>
  BY DEF OpenRecord
<1> HIDE DEF r
<1>5. QED BY <1>2, <1>3, <1>4, SaverBlanks, OpenCopyStep

LEMMA LookForWorkStep ==
    ASSUME TellInv, NEW s \in RecordRequests, NEW who \in Colleagues, NEW leaver \in Colleagues,
           LookForWork(s, who, leaver)
    PROVE  TellInv'
<1> DEFINE r == [NoSaver EXCEPT !.step = "open", !.who = who, !.atomic = TRUE, !.leaver = leaver,
                                !.seen = record.v, !.value = record.value, !.to = record.to,
                                !.before = record.value, !.loaded = record.to]
<1>1. /\ record.v \in SeenVersions /\ record.value \in Tracked /\ record.to \in Assignees
      /\ who \in Assignees /\ leaver \in Assignees /\ who # NoColleague
  BY AnnouncementsAssumption DEF TellInv, TellTypes, RecordRows, Assignees
<1>2. PICK blank \in SaverRows : blank = NoSaver
  BY SaverBlanks
<1>3. /\ r \in SaverRows /\ r.step = "open" /\ r.leaver = leaver /\ r.who = who /\ r.atomic
      /\ r.seen = record.v /\ r.value = record.value /\ r.to = record.to
      /\ r.before = record.value /\ r.loaded = record.to
      /\ r.pending = blank.pending /\ r.hooks = blank.hooks /\ r.after = blank.after
      /\ r.new = blank.new
  BY <1>1, <1>2 DEF SaverRows
<1>4. /\ teller' = [teller EXCEPT ![s] = r] /\ teller[s].step = "idle" /\ record.there
      /\ record.to = leaver /\ UNCHANGED <<sort, record, signedUp, announced, bell, happened>>
  BY DEF LookForWork
<1> HIDE DEF r
<1>5. QED BY <1>1, <1>2, <1>3, <1>4, SaverBlanks, OpenCopyStep

LEMMA NewRecordStep ==
    ASSUME TellInv, NEW s \in RecordRequests, NEW who \in Assignees, NEW atomic \in BOOLEAN,
           NewRecord(s, who, atomic)
    PROVE  TellInv'
<1> DEFINE r == [NoSaver EXCEPT !.step = "open", !.new = TRUE, !.who = who, !.atomic = atomic]
<1>1. /\ happened \in FactRows /\ announced \subseteq Deliveries /\ bell \subseteq Gift
      /\ record = NoRecord /\ ~record.there
  BY DEF TellInv, TellTypes, NewRecord, RowAlone
<1>2. PICK blank \in SaverRows : blank = NoSaver
  BY SaverBlanks
<1>3. /\ r \in SaverRows /\ r.step = "open" /\ r.new /\ r.leaver = blank.leaver
      /\ r.seen = blank.seen /\ r.value = blank.value /\ r.to = blank.to
      /\ r.before = blank.before /\ r.loaded = blank.loaded
      /\ r.pending = blank.pending /\ r.hooks = blank.hooks /\ r.after = blank.after
  BY <1>2 DEF SaverRows
<1>4. teller' = [teller EXCEPT ![s] = r] /\ UNCHANGED <<sort, record, signedUp, announced, bell, happened>>
  BY DEF NewRecord
<1> HIDE DEF r
<1>5. TellsWell(r)
  BY <1>1, <1>2, <1>3, SaverBlanks DEF TellsWell, Remembers, OpenWell, SeenWell, SavedWell, HooksWell
<1>6. AllTold'
  BY <1>3, <1>4, StillTold DEF NewRecord
<1>7. QED BY <1>1, <1>3, <1>4, <1>5, <1>6, SaverMoves DEF NewRecord

LEMMA LeaveStep ==
    ASSUME TellInv, NEW s \in RecordRequests, LeaveRecord(s) PROVE TellInv'
<1>1. /\ happened \in FactRows /\ announced \subseteq Deliveries /\ bell \subseteq Gift
  BY DEF TellInv, TellTypes
<1>2. /\ teller' = [teller EXCEPT ![s] = NoSaver] /\ teller[s].step # "hooks"
      /\ UNCHANGED <<sort, record, signedUp, announced, bell, happened>>
  BY DEF LeaveRecord
<1>3. TellsWell(NoSaver)
  BY SaverBlanks DEF TellsWell, Remembers, OpenWell, SeenWell, SavedWell, HooksWell
<1>4. AllTold'
  BY <1>2, SaverBlanks, StillTold
<1>5. QED BY <1>1, <1>2, <1>3, <1>4, SaverBlanks, SaverMoves

LEMMA SaveAgainStep ==
    ASSUME TellInv, NEW s \in RecordRequests, SaveRecordAgain(s) PROVE TellInv'
<1> DEFINE t == teller[s]
           kinds == EventsOf(t.pending, FALSE, t.before, t.value)
           r == [t EXCEPT !.pending = t.pending \cup ToSet(kinds),
                          !.hooks = t.hooks \o Hooks(kinds, t.draft.v, t.before, t.value)]
<1>1. /\ t \in SaverRows /\ t.step = "saved" /\ sort \in Sorts /\ TellsWell(t)
      /\ happened \in FactRows /\ announced \subseteq Deliveries /\ bell \subseteq Gift
  BY DEF TellInv, TellTypes, SaveRecordAgain
<1>2. /\ t.before = t.value /\ t.before \in Tracked
      /\ sort \in {"contact", "matter"} => "created" \in t.pending \/ "updated" \in t.pending
  BY <1>1 DEF TellsWell, Remembers, SavedWell, SaverRows
<1>3. kinds = << >>
  <2>1. /\ Emit(t.pending, "created", FALSE) = << >>
        /\ sort \in {"contact", "matter"} => Emit(t.pending, "updated", ~FALSE) = << >>
        /\ Emit(t.pending, "status_changed", ~FALSE /\ t.before # t.value) = << >>
        /\ Emit(t.pending, "completed", t.value = 1 /\ (FALSE \/ t.before = 0)) = << >>
        /\ Emit(t.pending, "issued", t.before = 0 /\ t.value = 1) = << >>
    BY <1>2 DEF Emit, Merged
  <2>2. << >> \o << >> = << >>
    BY ShortEvents
  <2>3. QED BY <1>1, <2>1, <2>2 DEF EventsOf, Sorts
<1>4. Hooks(<< >>, t.draft.v, t.before, t.value) = << >>
  BY DEF Hooks
<1>5. t.pending \cup ToSet(<< >>) = t.pending /\ t.hooks \o << >> = t.hooks
  BY <1>1, ShortEvents DEF SaverRows
<1>6. r = [t EXCEPT !.pending = t.pending, !.hooks = t.hooks]
  BY <1>3, <1>4, <1>5
<1>7. r = t
  BY <1>1, <1>6 DEF SaverRows
<1>8. /\ teller' = [teller EXCEPT ![s] = r]
      /\ UNCHANGED <<sort, record, signedUp, announced, bell, happened>>
  BY DEF SaveRecordAgain
<1> HIDE DEF r
<1>9. AllTold'
  BY <1>1, <1>7, <1>8, StillTold
<1>10. QED BY <1>1, <1>7, <1>8, <1>9, SaverMoves

\* An event's hook makes its delivery from a row that is no older.
LEMMA RunHookStep ==
    ASSUME TellInv, NEW s \in RecordRequests, RunHook(s) PROVE TellInv'
<1> DEFINE t == teller[s]
           a == Head(t.hooks)
           d == [what |-> a, holds |-> record.v]
           r == [t EXCEPT !.hooks = Tail(t.hooks), !.pending = t.pending \ {a.kind}]
<1>1. /\ t \in SaverRows /\ t.step = "hooks" /\ t.hooks # << >> /\ TellsWell(t)
      /\ t.hooks \in Seq(Announcement) /\ t.pending \in SUBSET Kinds
      /\ record \in RecordRows /\ record.v \in SeenVersions
      /\ happened \in FactRows /\ announced \subseteq Deliveries /\ bell \subseteq Gift
  BY DEF TellInv, TellTypes, RunHook, SaverRows, RecordRows
<1>2. /\ a \in Announcement /\ Tail(t.hooks) \in Seq(Announcement) /\ a \in ToSet(t.hooks)
      /\ \A x \in ToSet(t.hooks) : x = a \/ x \in ToSet(Tail(t.hooks))
      /\ \A x \in ToSet(Tail(t.hooks)) : x \in ToSet(t.hooks)
  BY <1>1, HeadAndTail
<1>3. a.at \in RecordSaves /\ a.at <= record.v /\ (a \in happened.due \/ a.at \in happened.blind)
  BY <1>1, <1>2 DEF TellsWell, HooksWell, Announcement
<1>4. d \in Deliveries
  <2>1. record.v \in RecordSaves
    BY <1>1, <1>3, VersionFacts DEF RecordSaves
  <2>2. QED BY <1>2, <2>1 DEF Deliveries
<1>5. /\ r \in SaverRows /\ r.step = "hooks" /\ r.hooks = Tail(t.hooks) /\ r.pending = t.pending \ {a.kind}
      /\ r.atomic = t.atomic /\ r.new = t.new /\ r.value = t.value /\ r.before = t.before
      /\ r.to = t.to /\ r.loaded = t.loaded /\ r.leaver = t.leaver /\ r.who = t.who
      /\ r.seen = t.seen /\ r.after = t.after
  BY <1>1, <1>2 DEF SaverRows
<1>6. /\ teller' = [teller EXCEPT ![s] = r] /\ announced' = announced \cup {d}
      /\ UNCHANGED <<sort, record, signedUp, bell, happened>>
  BY DEF RunHook
<1> HIDE DEF r, a
<1>7. TellsWell(r)
  <2>1. Remembers(r)
    BY <1>1, <1>2, <1>5 DEF TellsWell, Remembers
  <2>2. QED BY <1>1, <1>2, <1>5, <2>1 DEF TellsWell, OpenWell, SeenWell, SavedWell, HooksWell
<1>8. AllTold'
  <2>1. \A q \in RecordRequests : teller'[q] = IF q = s THEN r ELSE teller[q]
    BY <1>6 DEF TellInv, TellTypes
  <2>2. ASSUME NEW x \in happened.due PROVE EventComes(x)'
    <3>1. EventComes(x)
      BY DEF TellInv, AllTold
    <3>2. CASE x = a
      <4>1. d \in announced' /\ d.what = x /\ d.holds = record.v /\ record.v \in Nat
        BY <1>1, <1>6, <3>2, VersionFacts
      <4>2. x.at \in Nat /\ x.at <= record.v
        BY <1>3, <3>2, VersionFacts
      <4> HIDE DEF d
      <4>3. \E e \in announced' : e.what = x /\ e.holds >= x.at
        BY <4>1, <4>2
      <4>4. QED BY <4>3 DEF EventComes
    <3>3. CASE x # a
      BY <1>1, <1>2, <1>5, <1>6, <2>1, <3>1, <3>3 DEF EventComes
    <3>4. QED BY <3>2, <3>3
  <2>3. ASSUME NEW g \in happened.gifts PROVE GiftComes(g)'
    <3>1. GiftComes(g)
      BY DEF TellInv, AllTold
    <3>2. QED BY <1>1, <1>5, <1>6, <2>1, <3>1 DEF GiftComes
  <2>4. \A x \in announced' : x.what \in happened.due \/ x.what.at \in happened.blind
    BY <1>3, <1>6 DEF TellInv, AllTold
  <2>5. \A g \in bell : g \in happened.gifts \/ g.at \in happened.blind
    BY DEF TellInv, AllTold
  <2>6. QED BY <1>6, <2>2, <2>3, <2>4, <2>5 DEF AllTold
<1>9. announced' \subseteq Deliveries
  BY <1>1, <1>4, <1>6
<1>10. QED BY <1>1, <1>5, <1>6, <1>7, <1>8, <1>9, SaverMoves

LEMMA TellColleagueStep ==
    ASSUME TellInv, NEW s \in RecordRequests, TellColleague(s) PROVE TellInv'
<1> DEFINE t == teller[s]
           r == IF t.atomic THEN NoSaver ELSE [t EXCEPT !.step = "open", !.after = {}]
<1>1. /\ t \in SaverRows /\ t.step = "hooks" /\ t.hooks = << >> /\ TellsWell(t)
      /\ happened \in FactRows /\ announced \subseteq Deliveries /\ bell \subseteq Gift
      /\ t.after \subseteq Gift /\ t.atomic \in BOOLEAN
  BY DEF TellInv, TellTypes, TellColleague, SaverRows
<1>2. t.pending = {}
  BY <1>1, ShortEvents DEF TellsWell, Remembers
<1>3. /\ teller' = [teller EXCEPT ![s] = r] /\ bell' = bell \cup t.after
      /\ UNCHANGED <<sort, record, signedUp, announced, happened>>
  BY DEF TellColleague
<1>4. r \in SaverRows /\ TellsWell(r) /\ r.step \in {"idle", "open"}
  <2>1. CASE t.atomic
    BY <2>1, SaverBlanks DEF TellsWell, Remembers, OpenWell, SeenWell, SavedWell, HooksWell
  <2>2. CASE ~t.atomic
    <3>1. /\ r \in SaverRows /\ r.step = "open" /\ r.hooks = t.hooks /\ r.pending = t.pending
          /\ r.atomic = t.atomic /\ r.new = t.new /\ r.value = t.value /\ r.before = t.before
          /\ r.to = t.to /\ r.loaded = t.loaded /\ r.leaver = t.leaver /\ r.who = t.who
          /\ r.seen = t.seen /\ r.after = {}
      BY <1>1, <2>2 DEF SaverRows
    <3> HIDE DEF r
    <3>2. QED BY <1>1, <1>2, <2>2, <3>1 DEF TellsWell, Remembers, OpenWell, SeenWell, SavedWell, HooksWell
  <2>3. QED BY <1>1, <2>1, <2>2
<1> HIDE DEF r
<1>5. \A g \in t.after : g \in happened.gifts \/ g.at \in happened.blind
  BY <1>1 DEF TellsWell, HooksWell
<1>6. AllTold'
  <2>1. \A q \in RecordRequests : teller'[q] = IF q = s THEN r ELSE teller[q]
    BY <1>3 DEF TellInv, TellTypes
  <2>2. ASSUME NEW x \in happened.due PROVE EventComes(x)'
    <3>1. EventComes(x)
      BY DEF TellInv, AllTold
    <3>2. x \notin ToSet(t.hooks)
      BY <1>1, ShortEvents
    <3>3. QED BY <1>3, <2>1, <3>1, <3>2 DEF EventComes
  <2>3. ASSUME NEW g \in happened.gifts PROVE GiftComes(g)'
    <3>1. GiftComes(g)
      BY DEF TellInv, AllTold
    <3>2. QED BY <1>3, <2>1, <3>1 DEF GiftComes
  <2>4. QED BY <1>3, <1>5, <2>2, <2>3 DEF TellInv, AllTold
<1>7. bell' \subseteq Gift
  BY <1>1, <1>3
<1>8. QED BY <1>1, <1>3, <1>4, <1>6, <1>7, SaverMoves

LEMMA CutShortStep ==
    ASSUME TellInv, NEW s \in RecordRequests, CutShort(s) PROVE TellInv'
<1> DEFINE t == teller[s]
           lost == {h.at : h \in ToSet(t.hooks)} \cup {n.at : n \in t.after}
<1>1. /\ t \in SaverRows /\ t.step = "hooks" /\ t.hooks \in Seq(Announcement) /\ t.after \subseteq Gift
      /\ happened \in FactRows /\ announced \subseteq Deliveries /\ bell \subseteq Gift
  BY DEF TellInv, TellTypes, CutShort, SaverRows
<1>2. lost \subseteq RecordSaves
  <2>1. \A h \in ToSet(t.hooks) : h \in Announcement
    BY <1>1 DEF ToSet
  <2>2. \A h \in ToSet(t.hooks) : h.at \in RecordSaves
    BY <2>1 DEF Announcement
  <2>3. \A n \in t.after : n.at \in RecordSaves
    BY <1>1 DEF Gift
  <2>4. QED BY <2>2, <2>3
<1>3. /\ happened' \in FactRows /\ happened'.cut = happened.cut \cup lost
      /\ happened'.due = happened.due /\ happened'.gifts = happened.gifts
      /\ happened'.blind = happened.blind
  <2>1. happened' = [happened EXCEPT !.cut = happened.cut \cup lost]
    BY DEF CutShort
  <2> HIDE DEF lost
  <2>2. QED BY <1>1, <1>2, <2>1 DEF FactRows
<1>4. /\ teller' = [teller EXCEPT ![s] = NoSaver]
      /\ UNCHANGED <<sort, record, signedUp, announced, bell>>
  BY DEF CutShort
<1>5. TellsWell(NoSaver)
  BY SaverBlanks DEF TellsWell, Remembers, OpenWell, SeenWell, SavedWell, HooksWell
<1>6. AllTold'
  <2>1. \A q \in RecordRequests \ {s} : teller'[q] = teller[q]
    BY <1>4 DEF TellInv, TellTypes
  <2>2. ASSUME NEW x \in happened.due PROVE EventComes(x)'
    <3>1. EventComes(x)
      BY DEF TellInv, AllTold
    <3>2. x \in ToSet(t.hooks) => x.at \in lost
      OBVIOUS
    <3>3. QED BY <1>3, <1>4, <2>1, <3>1, <3>2 DEF EventComes
  <2>3. ASSUME NEW g \in happened.gifts PROVE GiftComes(g)'
    <3>1. GiftComes(g)
      BY DEF TellInv, AllTold
    <3>2. g \in t.after => g.at \in lost
      OBVIOUS
    <3>3. QED BY <1>3, <1>4, <2>1, <3>1, <3>2 DEF GiftComes
  <2>4. QED BY <1>3, <1>4, <2>2, <2>3 DEF TellInv, AllTold
<1>7. QED BY <1>1, <1>3, <1>4, <1>5, <1>6, SaverBlanks, SaverMoves

\* The row changes: nobody else holds it, and who had seen it has now seen an older one.
LEMMA RowMoves ==
    ASSUME TellInv, NEW s \in RecordRequests, NEW r \in SaverRows, NEW w \in RecordRows,
           NEW truth \in FactRows,
           teller' = [teller EXCEPT ![s] = r], record' = w, happened' = Joined(happened, truth),
           teller[s].step \in {"open", "saved"},
           \A q \in RecordRequests \ {s} : teller[q].step # "saved",
           w.there, w.v = record.v + 1, r.step = "hooks",
           sort' = sort, signedUp' \subseteq signedUp, announced' = announced,
           bell' \subseteq Gift, bell \subseteq bell',
           \A g \in bell' : g \in bell \/ g \in truth.gifts \/ g.at \in truth.blind,
           truth.due \subseteq ToSet(r.hooks),
           \A g \in truth.gifts : g \in r.after \/ g \in bell',
           TellsWell(r)'
    PROVE  TellInv'
<1>1. /\ happened \in FactRows /\ announced \subseteq Deliveries
      /\ record \in RecordRows /\ record.v \in SeenVersions /\ record.v \in Nat
  BY VersionFacts DEF TellInv, TellTypes, RecordRows
<1>2. /\ happened' \in FactRows
      /\ happened'.due = happened.due \cup truth.due
      /\ happened'.gifts = happened.gifts \cup truth.gifts
      /\ happened'.blind = happened.blind \cup truth.blind
      /\ happened'.cut = happened.cut \cup truth.cut
  BY <1>1, FactsAdd
<1>3. TellTypes'
  BY <1>1, <1>2 DEF TellInv, TellTypes
<1>4. \A q \in RecordRequests : teller'[q] = IF q = s THEN r ELSE teller[q]
  BY DEF TellInv, TellTypes
<1>5. ASSUME NEW q \in RecordRequests \ {s} PROVE TellsWell(teller[q])'
  <2> DEFINE t == teller[q]
  <2>1. /\ teller'[q] = t /\ t \in SaverRows /\ t.step # "saved" /\ TellsWell(t)
        /\ t.hooks \in Seq(Announcement) /\ t.seen \in Nat
    BY <1>4, VersionFacts DEF TellInv, TellTypes, SaverRows
  <2>2. t.step # "idle" => record.there
    BY <1>4 DEF TellInv, RowAlone
  <2>3. \A a \in ToSet(t.hooks) : a.at \in Nat
    <3>1. \A a \in ToSet(t.hooks) : a \in Announcement
      BY <2>1 DEF ToSet
    <3>2. QED BY <3>1, VersionFacts DEF Announcement
  <2>4. Remembers(t) /\ OpenWell(t)'
    BY <2>1, <2>2, <1>4 DEF TellsWell, OpenWell
  <2>5. SeenWell(t)'
    BY <1>1, <1>4, <2>1 DEF TellsWell, SeenWell
  <2>6. HooksWell(t)'
    BY <1>1, <1>2, <1>4, <2>1, <2>3 DEF TellsWell, HooksWell
  <2>7. SavedWell(t)'
    BY <1>4, <2>1 DEF SavedWell
  <2>8. Remembers(t)'
    BY <1>4, <2>1, <2>4 DEF Remembers
  <2>9. QED BY <1>4, <2>4, <2>5, <2>6, <2>7, <2>8 DEF TellsWell
<1>6. TellsWell(teller[s])'
  BY <1>4 DEF TellsWell, Remembers, OpenWell, SeenWell, SavedWell, HooksWell
<1>7. RowAlone'
  BY <1>4 DEF RowAlone
<1>8. AllTold'
  <2>1. ASSUME NEW a \in happened'.due PROVE EventComes(a)'
    <3>1. CASE a \in truth.due
      BY <1>4, <3>1 DEF EventComes
    <3>2. CASE a \in happened.due
      <4>1. EventComes(a)
        BY <3>2 DEF TellInv, AllTold
      <4>2. QED BY <1>2, <1>4, <4>1 DEF EventComes
    <3>3. QED BY <1>2, <3>1, <3>2
  <2>2. ASSUME NEW g \in happened'.gifts PROVE GiftComes(g)'
    <3>1. CASE g \in truth.gifts
      BY <1>4, <3>1 DEF GiftComes
    <3>2. CASE g \in happened.gifts
      <4>1. GiftComes(g)
        BY <3>2 DEF TellInv, AllTold
      <4>2. QED BY <1>2, <1>4, <4>1 DEF GiftComes
    <3>3. QED BY <1>2, <3>1, <3>2
  <2>3. QED BY <1>2, <2>1, <2>2 DEF TellInv, AllTold
<1>9. QED BY <1>3, <1>5, <1>6, <1>7, <1>8 DEF TellInv

LEMMA SaveCopyStep ==
    ASSUME TellInv, NEW s \in RecordRequests, NEW fields \in {"all", "value", "assignee"},
           NEW value \in Tracked, NEW to \in Assignees, SaveRecord(s, fields, value, to)
    PROVE  TellInv'
<1> DEFINE t == teller[s]
           w == Written(fields, value, to)
           truly == Happened(s, w)
           kinds == KindsOf(s, value)
           hooks == HooksOf(s, value)
           toTell == GiftsOf(s, to)
           seen == IF Blind(s) THEN t.seen ELSE w.v
<1>1. /\ t \in SaverRows /\ t.step = "open" /\ TellsWell(t) /\ record \in RecordRows
      /\ t.atomic \in BOOLEAN /\ t.new \in BOOLEAN /\ t.seen \in SeenVersions
      /\ t.pending = {} /\ t.after = {} /\ t.after \subseteq Gift /\ t.within \subseteq Gift
      /\ t.draft \in RecordRows /\ t.truth \in FactRows
      /\ happened \in FactRows /\ announced \subseteq Deliveries /\ bell \subseteq Gift
      /\ record.v \in SeenVersions /\ record.v \in Nat /\ t.seen \in Nat /\ t.seen <= record.v
  BY VersionFacts DEF TellInv, TellTypes, SaveRecord, SaverRows, RecordRows, TellsWell, OpenWell, SeenWell
<1>2. SavesCopy(s, fields, value, to)
  BY DEF SaveRecord, SavesCopy, Written
<1>3. TellTypes /\ TellsWell(t)
  BY <1>1 DEF TellInv
<1>4. /\ w \in RecordRows /\ w.there /\ w.v = record.v + 1 /\ w.v \in RecordSaves /\ w.v \in SeenVersions
      /\ fields # "assignee" => w.value = value
      /\ fields = "assignee" => w.value = record.value
      /\ fields # "value" => w.to = to
      /\ fields = "value" => w.to = record.to
  BY <1>2, <1>3, RowWritten, VersionFacts DEF SavesCopy
<1>5. /\ kinds \in Seq(Kinds) /\ hooks \in Seq(Announcement)
      /\ truly.due \subseteq ToSet(hooks)
      /\ \A a \in ToSet(hooks) : a.at = w.v /\ (a \in truly.due \/ a.at \in truly.blind)
      /\ \A kind \in ToSet(kinds) : \E a \in ToSet(hooks) : a.kind = kind
      /\ sort \in {"contact", "matter"} => "created" \in ToSet(kinds) \/ "updated" \in ToSet(kinds)
  BY <1>2, <1>3, EventsGotReady
<1>6. /\ toTell \subseteq Gift
      /\ \A g \in truly.gifts :
            \/ g \in toTell
            \/ /\ t.leaver # NoColleague /\ w.to \notin {NoColleague, t.who}
               /\ g = [to |-> w.to, at |-> w.v]
      /\ \A g \in toTell : g \in truly.gifts \/ g.at \in truly.blind
      /\ t.leaver # NoColleague /\ w.to \notin {NoColleague, t.who} =>
            [to |-> w.to, at |-> w.v] \in truly.gifts \/ w.v \in truly.blind
  BY <1>2, <1>3, GiftsGotReady
<1>7. truly \in FactRows /\ truly.cut = {}
  BY <1>2, <1>3, FactsType
<1>8. ToSet(kinds) \subseteq Kinds
  BY <1>5 DEF ToSet
<1>9. /\ fields = "value" => to = t.loaded
      /\ fields = "assignee" => value = t.before
      /\ ~Blind(s) => t.before = record.value /\ t.loaded = record.to
      /\ t.leaver # NoColleague => t.atomic /\ t.who # NoColleague
      /\ Blind(s) <=> t.seen # record.v
  BY <1>1, <1>2 DEF SavesCopy, MayBecome, TellsWell, Remembers, SeenWell, Blind
<1>10. /\ \A q \in RecordRequests \ {s} : teller[q].step # "saved"
       /\ UNCHANGED <<sort, signedUp, announced, bell>>
  BY DEF SaveRecord, RecordFree
<1>11. /\ t.atomic => /\ teller' = [teller EXCEPT ![s] =
                            [t EXCEPT !.seen = seen, !.new = FALSE, !.value = value, !.to = to,
                               !.before = value, !.loaded = to,
                               !.pending = t.pending \cup ToSet(kinds), !.hooks = hooks,
                               !.step = "saved", !.within = toTell, !.draft = w, !.truth = truly]]
                      /\ UNCHANGED <<record, happened>>
       /\ ~t.atomic => /\ teller' = [teller EXCEPT ![s] =
                            [t EXCEPT !.seen = seen, !.new = FALSE, !.value = value, !.to = to,
                               !.before = value, !.loaded = to,
                               !.pending = t.pending \cup ToSet(kinds), !.hooks = hooks,
                               !.step = "hooks", !.after = toTell]]
                       /\ record' = w /\ happened' = Joined(happened, truly)
  BY <1>4 DEF SaveRecord, GiftsOf, HooksOf, KindsOf
<1>12. seen \in SeenVersions /\ seen \in Nat /\ seen <= w.v
       /\ (seen = w.v => value = w.value /\ to = w.to)
  BY <1>1, <1>4, <1>9, VersionFacts
<1> HIDE DEF w, truly, kinds, hooks, toTell, seen
<1>13. CASE t.atomic
  <2> DEFINE m == [t EXCEPT !.seen = seen, !.new = FALSE, !.value = value, !.to = to,
                            !.before = value, !.loaded = to,
                            !.pending = t.pending \cup ToSet(kinds), !.hooks = hooks,
                            !.step = "saved", !.within = toTell, !.draft = w, !.truth = truly]
  <2>1. /\ m \in SaverRows /\ m.step = "saved" /\ ~m.new /\ m.value = value /\ m.before = value
        /\ m.to = to /\ m.loaded = to /\ m.pending = ToSet(kinds) /\ m.hooks = hooks
        /\ m.within = toTell /\ m.draft = w /\ m.truth = truly /\ m.leaver = t.leaver
        /\ m.who = t.who /\ m.atomic = t.atomic
    BY <1>1, <1>4, <1>5, <1>6, <1>7, <1>8, <1>12 DEF SaverRows
  <2>2. teller' = [teller EXCEPT ![s] = m] /\ UNCHANGED <<record, happened>>
    BY <1>11, <1>13
  <2> HIDE DEF m
  <2>3. Remembers(m)
    BY <1>5, <1>9, <2>1 DEF Remembers
  <2>4. EventsReady(m)
    BY <1>5, <2>1 DEF EventsReady
  <2>5. GiftsReady(m)
    BY <1>6, <2>1 DEF GiftsReady, HandedOver, HandedGift
  <2>6. SavedWell(m)
    BY <1>4, <1>5, <1>7, <1>13, <2>1, <2>4, <2>5 DEF SavedWell
  <2>7. TellsWell(m)
    BY <2>1, <2>3, <2>6 DEF TellsWell, OpenWell, SeenWell, HooksWell
  <2>8. TellTypes'
    BY <1>1, <1>10, <2>1, <2>2 DEF TellInv, TellTypes
  <2>9. \A q \in RecordRequests : teller'[q] = IF q = s THEN m ELSE teller[q]
    BY <2>2 DEF TellInv, TellTypes
  <2>10. (\A q \in RecordRequests : TellsWell(teller[q]))'
    BY <1>10, <2>2, <2>7, <2>9
       DEF TellInv, TellsWell, Remembers, OpenWell, SeenWell, SavedWell, HooksWell, EventsReady,
           GiftsReady, HandedOver, HandedGift
  <2>11. RowAlone'
    BY <1>1, <1>10, <2>1, <2>2, <2>9 DEF TellInv, RowAlone
  <2>12. AllTold'
    BY <1>1, <1>10, <2>1, <2>2, StillTold
  <2>13. QED BY <2>8, <2>10, <2>11, <2>12 DEF TellInv
<1>14. CASE ~t.atomic
  <2> DEFINE m == [t EXCEPT !.seen = seen, !.new = FALSE, !.value = value, !.to = to,
                            !.before = value, !.loaded = to,
                            !.pending = t.pending \cup ToSet(kinds), !.hooks = hooks,
                            !.step = "hooks", !.after = toTell]
  <2>0. m \in SaverRows
    BY <1>1, <1>4, <1>5, <1>6, <1>8, <1>12 DEF SaverRows
  <2>1. PICK n \in SaverRows :
        /\ n = m /\ n.step = "hooks" /\ ~n.new /\ n.value = value /\ n.before = value
        /\ n.to = to /\ n.loaded = to /\ n.pending = ToSet(kinds) /\ n.hooks = hooks
        /\ n.after = toTell /\ n.leaver = t.leaver /\ n.seen = seen
        /\ n.who = t.who /\ n.atomic = t.atomic
    BY <2>0, <1>1 DEF SaverRows
  <2>2. /\ teller' = [teller EXCEPT ![s] = n]
        /\ record' = w /\ happened' = Joined(happened, truly)
    BY <1>11, <1>14, <2>1
  <2> HIDE DEF m
  <2>3. Remembers(n)
    BY <1>5, <1>9, <2>1 DEF Remembers
  <2>4. /\ truly.due \subseteq happened'.due /\ truly.gifts \subseteq happened'.gifts
        /\ truly.blind \subseteq happened'.blind
    BY <1>1, <1>7, <2>2, FactsAdd
  <2>5. w.v \in Nat
    BY <1>4, VersionFacts
  <2>6. /\ t.leaver = NoColleague
        /\ \A g \in truly.gifts : g \in n.after
    BY <1>6, <1>9, <1>14, <2>1
  <2>7. (\A a \in ToSet(n.hooks) :
            a.at <= record'.v /\ (a \in happened'.due \/ a.at \in happened'.blind))
        /\ \A g \in n.after : g \in happened'.gifts \/ g.at \in happened'.blind
    BY <1>5, <1>6, <2>1, <2>2, <2>4, <2>5
  <2>8. SeenWell(n)'
    BY <1>12, <2>1, <2>2 DEF SeenWell
  <2>9. HooksWell(n)'
    BY <1>4, <2>1, <2>2, <2>7 DEF HooksWell
  <2>10. TellsWell(n)'
    BY <2>1, <2>3, <2>8, <2>9 DEF TellsWell, Remembers, OpenWell, SavedWell
  <2>11. QED
    BY <1>1, <1>4, <1>5, <1>7, <1>10, <2>1, <2>2, <2>6, <2>10, RowMoves
<1>15. QED BY <1>1, <1>13, <1>14

\* deactivate's successor is toTell when the hand-over is committed.
LEMMA CommitStep ==
    ASSUME TellInv, NEW s \in RecordRequests, CommitRecord(s) PROVE TellInv'
<1> DEFINE t == teller[s]
           toTell == IF HandedOver(t) THEN {HandedGift(t)} ELSE {}
           m == [t EXCEPT !.step = "hooks", !.draft = NoRecord, !.truth = NoFacts, !.after = toTell]
<1>1. /\ t \in SaverRows /\ t.step = "saved" /\ TellsWell(t)
      /\ t.within \subseteq Gift /\ t.draft \in RecordRows /\ t.truth \in FactRows
      /\ t.draft.to \in Assignees
      /\ happened \in FactRows /\ announced \subseteq Deliveries /\ bell \subseteq Gift
      /\ record.v \in Nat
  BY VersionFacts DEF TellInv, TellTypes, CommitRecord, SaverRows, RecordRows
<1>2. /\ t.draft.there /\ t.draft.v = record.v + 1 /\ t.draft.v \in RecordSaves
      /\ t.atomic /\ ~t.new /\ t.truth.cut = {} /\ EventsReady(t) /\ GiftsReady(t) /\ Remembers(t)
  BY <1>1 DEF TellsWell, SavedWell
<1>3. toTell \subseteq Gift
  BY <1>1, <1>2 DEF HandedOver, HandedGift, Gift, Assignees
<1>4. PICK r \in SaverRows :
         /\ r = m /\ r.step = "hooks" /\ r.after = toTell /\ r.hooks = t.hooks
      /\ r.pending = t.pending /\ r.new = t.new /\ r.value = t.value /\ r.before = t.before
      /\ r.to = t.to /\ r.loaded = t.loaded /\ r.leaver = t.leaver /\ r.who = t.who
      /\ r.atomic = t.atomic
  <2> HIDE DEF toTell
  <2>1. m \in SaverRows
    BY <1>1, <1>3, SaverBlanks DEF SaverRows
  <2>2. QED BY <1>1, <2>1 DEF SaverRows
<1>5. /\ teller' = [teller EXCEPT ![s] = r]
      /\ record' = t.draft /\ bell' = bell \cup t.within /\ signedUp' \subseteq signedUp
      /\ happened' = Joined(happened, t.truth) /\ announced' = announced /\ sort' = sort
  BY <1>4 DEF CommitRecord, HandedOver, HandedGift
<1>6. \A q \in RecordRequests \ {s} : teller[q].step # "saved"
  BY <1>1 DEF TellInv, RowAlone
<1>7. /\ t.truth.due \subseteq happened'.due /\ t.truth.gifts \subseteq happened'.gifts
      /\ t.truth.blind \subseteq happened'.blind
  BY <1>1, <1>5, FactsAdd
<1>8. /\ \A a \in ToSet(t.hooks) :
            a.at <= record'.v /\ (a \in happened'.due \/ a.at \in happened'.blind)
      /\ \A g \in toTell : g \in happened'.gifts \/ g.at \in happened'.blind
      /\ \A g \in t.within : g \in t.truth.gifts \/ g.at \in t.truth.blind
      /\ \A g \in t.truth.gifts : g \in toTell \/ g \in bell'
  <2>1. t.draft.v \in Nat /\ t.draft.v <= record'.v
    BY <1>1, <1>2, <1>5
  <2>2. \A a \in ToSet(t.hooks) :
            a.at <= record'.v /\ (a \in happened'.due \/ a.at \in happened'.blind)
    BY <1>2, <1>7, <2>1 DEF EventsReady
  <2>3. HandedGift(t).at = t.draft.v
    BY DEF HandedGift
  <2>4. \A g \in toTell : g \in happened'.gifts \/ g.at \in happened'.blind
    BY <1>2, <1>7, <2>3 DEF GiftsReady
  <2>5. /\ \A g \in t.within : g \in t.truth.gifts \/ g.at \in t.truth.blind
        /\ \A g \in t.truth.gifts : g \in toTell \/ g \in bell'
    BY <1>2, <1>5 DEF GiftsReady
  <2>6. QED BY <2>2, <2>4, <2>5
<1> HIDE DEF toTell, m
<1>9. TellsWell(r)'
  <2>1. Remembers(r)'
    BY <1>2, <1>4 DEF Remembers
  <2>2. HooksWell(r)'
    BY <1>2, <1>4, <1>5, <1>8 DEF HooksWell
  <2>3. QED BY <1>2, <1>4, <2>1, <2>2 DEF TellsWell, OpenWell, SeenWell, SavedWell
<1>10. /\ bell' \subseteq Gift
       /\ \A g \in bell' : g \in bell \/ g \in t.truth.gifts \/ g.at \in t.truth.blind
  BY <1>1, <1>5, <1>8
<1>11. t.truth.due \subseteq ToSet(r.hooks) /\ \A g \in t.truth.gifts : g \in r.after \/ g \in bell'
  BY <1>2, <1>4, <1>8 DEF EventsReady
<1>12. QED BY <1>1, <1>2, <1>4, <1>5, <1>6, <1>9, <1>10, <1>11, RowMoves

LEMMA TellInvStep == TellInv /\ [EventsNext \/ GiftsNext]_tellVars => TellInv'
<1>1. ASSUME TellInv, UNCHANGED tellVars PROVE TellInv'
  BY <1>1 DEF tellVars, TellInv, TellTypes, TellsWell, Remembers, OpenWell, SeenWell, SavedWell, HooksWell,
              EventsReady, GiftsReady, HandedOver, HandedGift, RowAlone, AllTold, EventComes, GiftComes
<1>2. ASSUME TellInv, NEW s \in RecordRequests, AfterSave(s) PROVE TellInv'
  BY <1>2, SaveAgainStep, CommitStep, LeaveStep, RunHookStep, TellColleagueStep, CutShortStep DEF AfterSave
<1>3. NoColleague \in Assignees /\ 0 \in Tracked
  BY DEF Assignees, Tracked
<1>4. ASSUME TellInv, EventsNext PROVE TellInv'
  BY <1>2, <1>3, <1>4, LoadStep, NewRecordStep, SaveCopyStep DEF EventsNext
<1>5. ASSUME TellInv, GiftsNext PROVE TellInv'
  BY <1>2, <1>3, <1>5, LoadStep, NewRecordStep, LookForWorkStep, SaveCopyStep DEF GiftsNext
<1>6. QED BY <1>1, <1>4, <1>5

LEMMA TellingIsTold == TellInv => EventsTold /\ GiftsTold
<1>1. TellInv => EventsTold
  BY DEF TellInv, AllTold, EventComes, EventsTold
<1>2. TellInv => GiftsTold
  BY DEF TellInv, AllTold, GiftComes, GiftsTold
<1>3. QED BY <1>1, <1>2

\* Every committed change of a record is announced, with what it changed, and whoever is given
\* the record is toTell of it, unless the process went away after the commit; and nothing else
\* is, but by a saver that had not seen the last change (emit, queue_deliveries,
\* assignment_saved, notify).
THEOREM ChangesAnnounced == AnnouncementsSpec => [](EventsTold /\ GiftsTold)
BY TellingIsTold, TellInvInit, TellInvStep, PTL DEF AnnouncementsSpec

\* Side by side, what the office must be told of, it is told of (record_status, sync_item, emit,
\* notify).
THEOREM OfficeTold == Spec => []OfficeIsTold
<1> DEFINE Inv == CaseInv /\ NoticeInv /\ TellInv
<1>1. Init => Inv
  BY CaseInvInit, NoticeInvInit, TellInvInit DEF Init
<1>2. Inv /\ [Next]_allVars => Inv'
  <2>1. [Next]_allVars => /\ [CaseNext]_caseVars /\ [NoticesNext]_noticeVars
                          /\ [EventsNext \/ GiftsNext]_tellVars
    BY DEF Next, allVars
  <2>2. QED BY <2>1, CaseInvStep, NoticeInvStep, TellInvStep
<1>3. Inv => OfficeIsTold
  BY CaseIsTold, TellingIsTold DEF NoticeInv, OfficeIsTold
<1>4. QED BY <1>1, <1>2, <1>3, PTL DEF Spec

----------------------------------------------------------------------------
\* Imports.  Unless two imports were saved at once, or one saved and discarded: a plan adds
\* people with the next numbers, none of whom shares an email or phone with another; what
\* the CRM and the plan hold together has one matter of each number, and each matter of the
\* other system, and each linked client, is of somebody with the client's email or phone.
\* A client without any keeps the first contact.  The CRM becomes what it and the plan hold.

Finds(n, c, folk) == \E p \in folk : p.n = n /\ Means(p, c)
Keyless(c) == provider.keys[c] = {}
Unsure(c) == ~OneHas(provider.keys[c])

\* People with numbers of their own and no common email or phone.
FolkRight(folk) ==
    /\ IsFiniteSet(folk)
    /\ \A p \in folk : /\ p = [n |-> p.n, keys |-> p.keys] /\ p.keys \in SUBSET Keys
                       /\ p.n \in 1..Cardinality(folk)
    /\ \A p, q \in folk : p.n = q.n => p = q
    /\ \A p, q \in folk : p.keys \cap q.keys # {} => p = q

LinksRight(known, folk) ==
    /\ known \in [Clients -> Nat]
    /\ \A c \in Clients : known[c] # 0 => c \notin provider.companies /\ Finds(known[c], c, folk)

CasesRight(files, known, folk) ==
    /\ \A c \in files : /\ c = [case |-> c.case, of |-> c.of, by |-> c.by]
                        /\ c.case \in OldMatters \cup Receipts /\ c.of \in Nat /\ c.by \in Ids
    /\ \A c, d \in files : c.case = d.case => c = d
    /\ \A c \in files : \A w \in Clients : c.case \in OldMatters /\ w = provider.client[c.case] =>
          known[w] # 0 /\ Finds(c.of, w, folk) /\ (Keyless(w) => known[w] = c.of)

\* A row names a matter of the other system with its client, and nobody but its contacts.
RowRight(r) ==
    /\ r \in Row
    /\ r.case \notin OldMatters => r.parties = {}
    /\ r.case \in Receipts => r.client = "none"
    /\ r.case \in OldMatters => r.client = provider.client[r.case] /\ r.parties \subseteq provider.parties[r.case]
    /\ r.client \in Clients /\ ~r.skip => r.client \notin provider.companies /\ r.keys = provider.keys[r.client]

RowsRight(list) ==
    /\ list \in Seq(Row)
    /\ \A k \in 1..Len(list) : RowRight(list[k])
    /\ \A j, k \in 1..Len(list) : list[j].case = list[k].case /\ list[j].case \in OldMatters => j = k

\* What a plan holds with what the CRM holds.
FolkWith(plan) == people \cup plan.people
CasesWith(plan) == cases \cup plan.cases

PlanFolk(plan) ==
    /\ FolkRight(FolkWith(plan)) /\ IsFiniteSet(plan.people)
    /\ Cardinality(FolkWith(plan)) = Cardinality(people) + Cardinality(plan.people)
    /\ \A p \in plan.people :
          /\ p.n > Cardinality(people)
          /\ p.n = Cardinality(people) + Cardinality({q \in plan.people : q.n <= p.n})

PlanLinks(plan) ==
    /\ LinksRight(plan.links, FolkWith(plan))
    /\ plan.byRef \in [Clients -> Nat]
    /\ \A c \in Clients :
          /\ plan.byRef[c] # 0 => Finds(plan.byRef[c], c, FolkWith(plan))
          /\ links[c] # 0 => plan.links[c] # 0
          /\ Keyless(c) => /\ links[c] # 0 => plan.byRef[c] \in {0, links[c]}
                           /\ plan.links[c] = IF plan.byRef[c] # 0 THEN plan.byRef[c] ELSE links[c]

PlanCases(plan, i, list, k) ==
    /\ CasesRight(CasesWith(plan), plan.links, FolkWith(plan))
    /\ \A c \in plan.cases : c.by = i /\ \E j \in 1..k : list[j].case = c.case

\* The clients of list that may be imported are linked, unless two contacts have the keys.
PlanCovers(plan, list, k) ==
    \A j \in 1..k : ~list[j].skip /\ list[j].client \in Clients =>
        plan.links[list[j].client] # 0 \/ Unsure(list[j].client)

PlanShape(plan) ==
    plan = [on |-> TRUE, people |-> plan.people, cases |-> plan.cases, links |-> plan.links,
            byRef |-> plan.byRef]

PlanRight(plan, i, list, k) ==
    /\ PlanShape(plan) /\ PlanFolk(plan) /\ PlanLinks(plan)
    /\ PlanCases(plan, i, list, k) /\ PlanCovers(plan, list, k)

ProviderTypes ==
    provider \in [keys : [Clients -> SUBSET Keys], companies : SUBSET Clients,
                  client : [OldMatters -> Clients], parties : [OldMatters -> SUBSET Clients],
                  contacts : SUBSET Clients, there : SUBSET OldMatters]

CRMRight ==
    /\ FolkRight(people) /\ Cardinality(people) <= MaxPeople
    /\ LinksRight(links, people) /\ CasesRight(cases, links, people)
    /\ \A c \in cases : upload[c.by].status = "imported"

PartyRight(q) ==
    \E c \in cases, p \in Clients :
        /\ c.case = q.case /\ q.of # c.of /\ p \in provider.parties[q.case]
        /\ Finds(q.of, p, people) /\ links[p] # 0 /\ (Keyless(p) => links[p] = q.of)

\* The contacts an import has brought for its matters are their parties, if one contact
\* means each; and a client whose row was imported is linked, if so.
NamedBy(c, p) ==
    \E k \in 1..Len(upload[c.by].rows) :
        upload[c.by].rows[k].case = c.case /\ p \in upload[c.by].rows[k].parties
PartiesRight ==
    /\ parties \subseteq Parties /\ \A q \in parties : PartyRight(q)
    /\ \A c \in cases : \A p \in Clients :
          NamedBy(c, p) /\ links[p] \notin {0, c.of} /\ LinkedBy(p, c.by) /\ ~Unsure(p)
          => [case |-> c.case, of |-> links[p]] \in parties
Covered(i) ==
    \A k \in 1..Len(upload[i].rows) :
        ~upload[i].rows[k].skip /\ upload[i].rows[k].client \in Clients =>
            links[upload[i].rows[k].client] # 0 \/ Unsure(upload[i].rows[k].client)

UploadRight(i) ==
    /\ RowsRight(upload[i].rows)
    /\ upload[i].sheet => \A k \in 1..Len(upload[i].rows) : upload[i].rows[k].client = "none"
    /\ upload[i].status = "imported" => Covered(i)
UploadsRight ==
    /\ upload \in [Ids -> [status : {"none", "preparing", "imported", "gone"}, sheet : BOOLEAN, rows : Seq(Row)]]
    /\ Used = 1..Cardinality(Used)
    /\ \A i \in Ids : UploadRight(i) /\ (upload[i].status = "none" => upload[i].sheet)
    /\ \A i, j \in Ids : i < j /\ ~upload[i].sheet /\ ~upload[j].sheet => upload[i].status # "preparing"

FetchedRight ==
    /\ fetched \in [step : {"none", "contacts", "relationships", "read", "built"}, contacts : SUBSET Clients,
                    parties : SUBSET (OldMatters \X Clients), matters : SUBSET OldMatters, rows : Seq(Row)]
    /\ \A m \in OldMatters : \A p \in Clients : <<m, p>> \in fetched.parties => p \in provider.parties[m]
    /\ RowsRight(fetched.rows)

SavingRight ==
    /\ saving = [i \in Ids |-> saving[i]]
    /\ \A i \in Ids : saving[i].on \in BOOLEAN
    /\ \A i, j \in Ids : saving[i].on /\ saving[j].on => i = j
    /\ \A i \in Ids : saving[i].on =>
          /\ upload[i].status = "preparing" /\ i \notin leaving
          /\ PlanRight(saving[i], i, upload[i].rows, Len(upload[i].rows))
    /\ leaving \subseteq Ids /\ \A i \in leaving : upload[i].status \in {"preparing", "gone"}

AloneRight == CRMRight /\ PartiesRight /\ UploadsRight /\ FetchedRight /\ SavingRight
ImportInv == beside \in BOOLEAN /\ ProviderTypes /\ (~beside => AloneRight)

\* A set of numbers has a least one.
LEMMA LeastOf ==
    ASSUME NEW B \in SUBSET Nat, B # {} PROVE \E n \in B : \A m \in B : n <= m
<1> DEFINE Smaller == {p \in Nat \X Nat : p[1] < p[2]}
<1>1. IsWellFoundedOn(Smaller, Nat)
  BY NatLessThanWellFounded DEF OpToRel
<1> HIDE DEF Smaller
<1>2. PICK n \in B : \A m \in B : <<m, n>> \notin Smaller
  BY <1>1, WFMin
<1>3. ASSUME NEW m \in B PROVE n <= m
  <2>1. m \in Nat /\ n \in Nat /\ <<m, n>> \notin Smaller
    BY <1>2
  <2>2. QED BY <2>1 DEF Smaller
<1>4. QED BY <1>3

\* The plans after each row; that there are such is shown by the least row at which there
\* would be none.
FirstPlan == [NoPlan EXCEPT !.on = TRUE, !.links = links]
PlansUpTo(f, i, list, n) ==
    f = [k \in 0..n |-> IF k = 0 THEN FirstPlan ELSE PlanRow(i, f[k - 1], list[k])]

LEMMA PlansExist ==
    ASSUME NEW i, NEW list, NEW n \in Nat PROVE \E f : PlansUpTo(f, i, list, n)
<1> DEFINE Reached(m) == \E f : PlansUpTo(f, i, list, m)
           Bad == {m \in Nat : ~Reached(m)}
<1>1. ASSUME NEW m \in Nat, m = 0 \/ Reached(m - 1) PROVE Reached(m)
  <2>1. PICK g : m # 0 => PlansUpTo(g, i, list, m - 1)
    BY <1>1
  <2> DEFINE h == [k \in 0..m |-> IF k = 0 THEN FirstPlan ELSE PlanRow(i, g[k - 1], list[k])]
  <2>2. ASSUME NEW k \in 0..m, k # 0 PROVE h[k - 1] = g[k - 1]
    <3>1. k - 1 \in 0..(m - 1) /\ k - 1 \in 0..m /\ m # 0
      BY <2>2
    <3>2. g[k - 1] = IF k - 1 = 0 THEN FirstPlan ELSE PlanRow(i, g[k - 1 - 1], list[k - 1])
      BY <2>1, <3>1 DEF PlansUpTo
    <3>3. h[k - 1] = IF k - 1 = 0 THEN FirstPlan ELSE PlanRow(i, g[k - 1 - 1], list[k - 1])
      BY <3>1
    <3>4. QED BY <3>2, <3>3
  <2>3. h = [k \in 0..m |-> IF k = 0 THEN FirstPlan ELSE PlanRow(i, h[k - 1], list[k])]
    <3>1. \A k \in 0..m : (IF k = 0 THEN FirstPlan ELSE PlanRow(i, g[k - 1], list[k]))
                        = (IF k = 0 THEN FirstPlan ELSE PlanRow(i, h[k - 1], list[k]))
      <4> HIDE DEF h
      <4>1. QED BY <2>2
    <3>2. QED BY <3>1
  <2> HIDE DEF h
  <2>4. QED BY <2>3 DEF PlansUpTo
<1>2. Bad = {}
  <2>1. SUFFICES ASSUME Bad # {} PROVE FALSE
    OBVIOUS
  <2>2. Bad \in SUBSET Nat
    OBVIOUS
  <2>3. PICK m \in Bad : \A j \in Bad : m <= j
    <3> HIDE DEF Bad
    <3>1. QED BY <2>1, <2>2, LeastOf
  <2> HIDE DEF Reached
  <2>4. m \in Nat /\ ~Reached(m)
    OBVIOUS
  <2>5. m # 0 => m - 1 \in Nat /\ ~(m <= m - 1)
    BY <2>4
  <2>6. m # 0 => Reached(m - 1)
    BY <2>3, <2>5
  <2>7. QED BY <1>1, <2>4, <2>6
<1>3. QED BY <1>2

LEMMA PlanUnfold ==
    ASSUME NEW i, NEW list, list = upload[i].rows, Len(list) \in Nat
    PROVE  \E f : PlansUpTo(f, i, list, Len(list)) /\ PlanOf(i) = f[Len(list)]
<1> DEFINE g == CHOOSE f : PlansUpTo(f, i, list, Len(list))
<1>1. PlansUpTo(g, i, list, Len(list))
  BY PlansExist
<1>2. PlanOf(i) = g[Len(list)]
  BY DEF PlanOf, PlansUpTo, FirstPlan
<1>3. QED BY <1>1, <1>2

\* What planning a line comes to, if it is taken: whom it means, and what the plan then holds.
CaseOf(line, n, i) == IF line.case = "none" THEN {} ELSE {[case |-> line.case, of |-> n, by |-> i]}
Taken(plan, new, i, line, n, fresh) ==
    /\ new = [on |-> TRUE, people |-> plan.people \cup fresh, cases |-> plan.cases \cup CaseOf(line, n, i),
              links |-> [c \in Clients |-> IF c = line.client THEN n ELSE plan.links[c]],
              byRef |-> new.byRef]
    /\ new.byRef \in [Clients -> Nat]
    /\ \A c \in Clients : new.byRef[c] # plan.byRef[c] => c = line.client /\ new.byRef[c] = n
    /\ (line.client \in Clients /\ Keyless(line.client)) =>
          /\ new.byRef[line.client] = n /\ plan.links[line.client] \in {0, n}
          /\ links[line.client] # 0 => n = links[line.client]
Whom(plan, line, n, fresh) ==
    \/ /\ fresh = {}
       /\ \E p \in FolkWith(plan) : p.n = n /\ (line.client \in Clients => Means(p, line.client))
    \/ /\ fresh = {[n |-> n, keys |-> line.keys]} /\ n = NextNumber(plan)
       /\ \A p \in FolkWith(plan) : p.keys \cap line.keys = {}
LeftOut(plan, line) ==
    line.skip \/ Here(plan, line) \/ line.client \notin Clients \/ Unsure(line.client)
RowPlanned(plan, new, i, line) ==
    \/ new = plan /\ LeftOut(plan, line)
    \/ /\ ~line.skip /\ ~Here(plan, line)
       /\ \E n \in Nat \ {0} : \E fresh : Taken(plan, new, i, line, n, fresh) /\ Whom(plan, line, n, fresh)

\* Whom a plan and the CRM hold has a number, and its own.
LEMMA FolkNumbers ==
    ASSUME NEW folk, FolkRight(folk)
    PROVE  /\ Cardinality(folk) \in Nat
           /\ \A p \in folk : p.n \in Nat \ {0} /\ p.n <= Cardinality(folk)
<1>1. Cardinality(folk) \in Nat
  BY FS_CardinalityType DEF FolkRight
<1>2. QED BY <1>1 DEF FolkRight

\* Two contacts with a key: somebody is not sure.
LEMMA TwoShare ==
    ASSUME NEW keys, FolkRight(people), Cardinality(Shares(keys, people)) > 1 PROVE ~OneHas(keys)
<1> DEFINE S == Shares(keys, people)
<1>1. SUFFICES ASSUME \A p, q \in S : p = q PROVE FALSE
  BY DEF OneHas
<1>2. IsFiniteSet(S)
  BY FS_Subset DEF FolkRight, Shares
<1>3. S # {}
  BY FS_EmptySet
<1>4. PICK x : x \in S
  BY <1>3
<1>5. S = {x}
  BY <1>1, <1>4
<1>6. Cardinality(S) = 1
  BY <1>5, FS_Singleton
<1>7. QED BY <1>6

\* The contact whose number a client is linked by is the one who is meant.
LEMMA FinderMeans ==
    ASSUME NEW folk, FolkRight(folk), NEW n, NEW c, Finds(n, c, folk), NEW p \in folk, p.n = n
    PROVE  Means(p, c)
BY DEF FolkRight, Finds

\* What the rows before say: the contact meant, of the plan.
LEMMA EarlierMeans ==
    ASSUME NEW plan, NEW line, PlanFolk(plan), PlanLinks(plan), RowRight(line), ~line.skip, NEW x \in Earlier(plan, line)
    PROVE  /\ x \in plan.people
           /\ line.client \in Clients => Means(x, line.client)
           /\ (line.client \in Clients /\ Keyless(line.client)) => x.n = plan.byRef[line.client]
<1>1. /\ x \in plan.people
      /\ \/ line.client # "none" /\ x.n = plan.byRef[line.client]
         \/ x.keys \cap line.keys # {}
  BY DEF Earlier, Shares
<1>2. line.client \in Clients => line.keys = provider.keys[line.client]
  BY DEF RowRight
<1>3. ASSUME line.client \in Clients, x.n = plan.byRef[line.client] PROVE Means(x, line.client)
  <2>1. x \in FolkWith(plan) /\ FolkRight(FolkWith(plan))
    BY <1>1 DEF FolkWith, PlanFolk
  <2>2. x.n # 0
    BY <2>1, FolkNumbers
  <2>3. Finds(x.n, line.client, FolkWith(plan))
    BY <1>3, <2>2 DEF PlanLinks
  <2>4. QED BY <2>1, <2>3, FinderMeans
<1>4. QED BY <1>1, <1>2, <1>3 DEF Means, Keyless

\* Planning a row: it is left out, or the plan takes it up.
LinkedOf(plan, line) ==
    LET known == IF Linked(plan, line) # {} THEN Linked(plan, line) ELSE Shares(line.keys, people)
    IN  IF Earlier(plan, line) # {} THEN Earlier(plan, line) ELSE known
TakenBy(plan, line, i, n, fresh) ==
    [plan EXCEPT
       !.people = @ \cup fresh,
       !.cases = @ \cup CaseOf(line, n, i),
       !.links = IF line.client = "none" THEN @ ELSE [@ EXCEPT ![line.client] = n],
       !.byRef = IF line.client = "none" \/ Earlier(plan, line) # {} THEN @ ELSE [@ EXCEPT ![line.client] = n]]

LEMMA PlanRowCases ==
    ASSUME NEW plan, NEW line, NEW i
    PROVE  \/ /\ PlanRow(i, plan, line) = plan
              /\ \/ line.skip \/ Here(plan, line) \/ line.client = "none"
                 \/ /\ Earlier(plan, line) = {}
                    /\ Cardinality(IF Linked(plan, line) # {} THEN Linked(plan, line) ELSE Shares(line.keys, people)) > 1
           \/ /\ ~line.skip /\ ~Here(plan, line)
              /\ \/ /\ LinkedOf(plan, line) = {}
                    /\ PlanRow(i, plan, line) = TakenBy(plan, line, i, NextNumber(plan), {[n |-> NextNumber(plan), keys |-> line.keys]})
                 \/ \E x \in LinkedOf(plan, line) : PlanRow(i, plan, line) = TakenBy(plan, line, i, x.n, {})
<1> DEFINE known == IF Linked(plan, line) # {} THEN Linked(plan, line) ELSE Shares(line.keys, people)
           found == LinkedOf(plan, line)
           n == IF found = {} THEN NextNumber(plan) ELSE (CHOOSE p \in found : TRUE).n
           fresh == IF found = {} THEN {[n |-> n, keys |-> line.keys]} ELSE {}
           A == line.skip \/ Here(plan, line)
           B == Earlier(plan, line) = {} /\ Cardinality(known) > 1
           C == found # {} /\ line.case = "none" /\ line.client = "none"
<1>1. PlanRow(i, plan, line) = (CASE A -> plan [] B -> plan [] C -> plan [] OTHER -> TakenBy(plan, line, i, n, fresh))
  BY DEF PlanRow, TakenBy, LinkedOf, CaseOf
<1> HIDE DEF known, found, n, fresh, A, B, C
<1>2. CASE A \/ B \/ C
  <2>1. PlanRow(i, plan, line) = plan
    BY <1>1, <1>2
  <2>2. QED BY <1>2, <2>1 DEF A, B, C, known
<1>3. CASE ~(A \/ B \/ C)
  <2>1. PlanRow(i, plan, line) = TakenBy(plan, line, i, n, fresh)
    BY <1>1, <1>3
  <2>2. ~line.skip /\ ~Here(plan, line)
    BY <1>3 DEF A
  <2>3. CASE found = {}
    BY <2>1, <2>2, <2>3 DEF found, n, fresh
  <2>4. CASE found # {}
    <3>1. PICK x \in found : x = CHOOSE p \in found : TRUE
      BY <2>4
    <3>2. n = x.n /\ fresh = {}
      BY <2>4, <3>1 DEF n, fresh
    <3>3. QED BY <2>1, <2>2, <3>1, <3>2 DEF found
  <2>5. QED BY <2>3, <2>4
<1>4. QED BY <1>2, <1>3

LEMMA TakenFields ==
    ASSUME NEW plan, PlanShape(plan), PlanLinks(plan), NEW line, RowRight(line), NEW n \in Nat, NEW fresh, NEW i,
           NEW new, new = TakenBy(plan, line, i, n, fresh)
    PROVE  /\ new = [on |-> TRUE, people |-> plan.people \cup fresh, cases |-> plan.cases \cup CaseOf(line, n, i),
                     links |-> [c \in Clients |-> IF c = line.client THEN n ELSE plan.links[c]],
                     byRef |-> new.byRef]
           /\ new.byRef \in [Clients -> Nat]
           /\ \A c \in Clients : new.byRef[c] = (IF c = line.client /\ Earlier(plan, line) = {} THEN n ELSE plan.byRef[c])
<1>1. line.client \in Clients \cup {"none"} /\ "none" \notin Clients
  BY ImportsAssumption DEF RowRight, Row
<1>2. plan.links \in [Clients -> Nat] /\ plan.byRef \in [Clients -> Nat]
  BY DEF PlanLinks, LinksRight
<1> DEFINE ls == IF line.client = "none" THEN plan.links ELSE [plan.links EXCEPT ![line.client] = n]
           bs == IF line.client = "none" \/ Earlier(plan, line) # {} THEN plan.byRef ELSE [plan.byRef EXCEPT ![line.client] = n]
<1>3. new = [on |-> TRUE, people |-> plan.people \cup fresh, cases |-> plan.cases \cup CaseOf(line, n, i),
             links |-> ls, byRef |-> bs]
  <2> DEFINE ps == plan.people \cup fresh
             cs == plan.cases \cup CaseOf(line, n, i)
  <2> HIDE DEF ls, bs
  <2>1. new = [plan EXCEPT !.people = ps, !.cases = cs, !.links = ls, !.byRef = bs]
    BY DEF TakenBy, ls, bs
  <2>2. \E ys, ds, ks, rs : plan = [on |-> TRUE, people |-> ys, cases |-> ds, links |-> ks, byRef |-> rs]
    BY DEF PlanShape
  <2> HIDE DEF ps, cs
  <2>3. new \in [on : {TRUE}, people : {ps}, cases : {cs}, links : {ls}, byRef : {bs}]
    <3>1. PICK ys, ds, ks, rs : plan = [on |-> TRUE, people |-> ys, cases |-> ds, links |-> ks, byRef |-> rs]
      BY <2>2
    <3>2. QED BY <2>1, <3>1
  <2>5. new = [on |-> TRUE, people |-> ps, cases |-> cs, links |-> ls, byRef |-> bs]
    BY <2>3
  <2>6. QED BY <2>5 DEF ps, cs
<1>4. ls = [c \in Clients |-> IF c = line.client THEN n ELSE plan.links[c]]
  BY <1>1, <1>2
<1>5. bs \in [Clients -> Nat] /\ \A c \in Clients : bs[c] = (IF c = line.client /\ Earlier(plan, line) = {} THEN n ELSE plan.byRef[c])
  BY <1>1, <1>2
<1> HIDE DEF ls, bs
<1>6. new.byRef = bs
  BY <1>3
<1>7. QED BY <1>3, <1>4, <1>5, <1>6

\* The contact the other system's id is known to mean, or one with a key of the row.
LEMMA KnownMeans ==
    ASSUME NEW plan, NEW line, PlanFolk(plan), PlanLinks(plan), FolkRight(people), LinksRight(links, people),
           RowRight(line), ~line.skip, Earlier(plan, line) = {},
           NEW x \in LinkedOf(plan, line)
    PROVE  /\ x \in people
           /\ line.client \in Clients => Means(x, line.client)
           /\ (line.client \in Clients /\ Keyless(line.client)) =>
                 x.n = IF plan.byRef[line.client] # 0 THEN plan.byRef[line.client] ELSE links[line.client]
<1> DEFINE m == IF plan.byRef[line.client] # 0 THEN plan.byRef[line.client] ELSE links[line.client]
<1>1. /\ x \in people
      /\ \/ line.client # "none" /\ x.n = m
         \/ x.keys \cap line.keys # {}
  BY DEF LinkedOf, Linked, Shares
<1>2. line.client \in Clients => line.keys = provider.keys[line.client]
  BY DEF RowRight
<1>3. ASSUME line.client \in Clients, x.n = m PROVE Means(x, line.client)
  <2>1. x \in FolkWith(plan) /\ FolkRight(FolkWith(plan))
    BY <1>1 DEF FolkWith, PlanFolk
  <2>2. x.n # 0
    BY <2>1, FolkNumbers
  <2>3. CASE plan.byRef[line.client] # 0
    <3>1. Finds(x.n, line.client, FolkWith(plan))
      BY <1>3, <2>3 DEF PlanLinks
    <3>2. QED BY <2>1, <3>1, FinderMeans
  <2>4. CASE plan.byRef[line.client] = 0
    <3>1. Finds(x.n, line.client, people)
      BY <1>3, <2>2, <2>4 DEF LinksRight
    <3>2. QED BY <1>1, <3>1, FinderMeans
  <2>5. QED BY <2>3, <2>4
<1>4. QED BY <1>1, <1>2, <1>3 DEF Means, Keyless

\* Nobody is found: a client without keys is not linked.
LEMMA NobodyKnown ==
    ASSUME NEW plan, NEW line, PlanFolk(plan), PlanLinks(plan), FolkRight(people), LinksRight(links, people),
           RowRight(line), ~line.skip, LinkedOf(plan, line) = {}
    PROVE  /\ \A p \in FolkWith(plan) : p.keys \cap line.keys = {}
           /\ (line.client \in Clients /\ Keyless(line.client)) =>
                 plan.byRef[line.client] = 0 /\ links[line.client] = 0
<1>1. Earlier(plan, line) = {} /\ Linked(plan, line) = {} /\ Shares(line.keys, people) = {}
  BY DEF LinkedOf
<1>2. Shares(line.keys, plan.people) = {}
  BY <1>1 DEF Earlier
<1>3. \A p \in FolkWith(plan) : p.keys \cap line.keys = {}
  BY <1>1, <1>2 DEF FolkWith, Shares
<1>4. ASSUME line.client \in Clients PROVE plan.byRef[line.client] = 0 /\ links[line.client] = 0
  <2>1. line.client # "none"
    BY <1>4, ImportsAssumption
  <2>2. \A p \in people : p.n # (IF plan.byRef[line.client] # 0 THEN plan.byRef[line.client] ELSE links[line.client])
    BY <1>1, <2>1 DEF Linked
  <2>3. \A p \in plan.people : p.n # plan.byRef[line.client]
    BY <1>1, <2>1 DEF Earlier
  <2>4. plan.byRef[line.client] = 0
    <3>1. SUFFICES ASSUME plan.byRef[line.client] # 0 PROVE FALSE
      OBVIOUS
    <3>2. PICK p \in FolkWith(plan) : p.n = plan.byRef[line.client]
      BY <1>4, <3>1 DEF PlanLinks, Finds
    <3>3. QED BY <2>2, <2>3, <3>1, <3>2 DEF FolkWith
  <2>5. links[line.client] = 0
    <3>1. SUFFICES ASSUME links[line.client] # 0 PROVE FALSE
      OBVIOUS
    <3>2. PICK p \in people : p.n = links[line.client]
      BY <1>4, <3>1 DEF LinksRight, Finds
    <3>3. QED BY <2>2, <2>4, <3>2
  <2>6. QED BY <2>4, <2>5
<1>5. QED BY <1>3, <1>4

LEMMA NextFree ==
    ASSUME NEW plan, PlanFolk(plan), FolkRight(people)
    PROVE  NextNumber(plan) \in Nat \ {0} /\ NextNumber(plan) = Cardinality(FolkWith(plan)) + 1
<1>1. Cardinality(people) \in Nat /\ Cardinality(plan.people) \in Nat
  BY FolkNumbers, FS_CardinalityType DEF PlanFolk
<1>2. QED BY <1>1 DEF PlanFolk, NextNumber

LEMMA KnownOne ==
    ASSUME NEW plan, NEW line, FolkRight(people), RowRight(line), ~line.skip, line.client \in Clients,
           Cardinality(IF Linked(plan, line) # {} THEN Linked(plan, line) ELSE Shares(line.keys, people)) > 1
    PROVE  Unsure(line.client)
<1>1. line.keys = provider.keys[line.client]
  BY DEF RowRight
<1>2. CASE Linked(plan, line) = {}
  BY <1>1, <1>2, TwoShare DEF Unsure
<1>3. CASE Linked(plan, line) # {}
  <2>1. PICK x : x \in Linked(plan, line)
    BY <1>3
  <2>2. \A y \in Linked(plan, line) : y = x
    BY <2>1 DEF Linked, FolkRight
  <2>3. Linked(plan, line) = {x}
    BY <2>1, <2>2
  <2>4. Cardinality(Linked(plan, line)) = 1
    BY <2>3, FS_Singleton
  <2>5. QED BY <1>3, <2>4
<1>4. QED BY <1>2, <1>3

\* Planning a row takes it up, or leaves it out for a reason.
LEMMA RowIsPlanned ==
    ASSUME NEW plan, NEW line, NEW i, FolkRight(people), LinksRight(links, people),
           PlanShape(plan), PlanFolk(plan), PlanLinks(plan), RowRight(line)
    PROVE  RowPlanned(plan, PlanRow(i, plan, line), i, line)
<1> DEFINE new == PlanRow(i, plan, line)
           w == line.client
<1>0. w \in Clients \cup {"none"} /\ "none" \notin Clients
  BY ImportsAssumption DEF RowRight, Row
<1>1. CASE /\ new = plan
           /\ \/ line.skip \/ Here(plan, line) \/ line.client = "none"
              \/ /\ Earlier(plan, line) = {}
                 /\ Cardinality(IF Linked(plan, line) # {} THEN Linked(plan, line) ELSE Shares(line.keys, people)) > 1
  <2>1. LeftOut(plan, line)
    BY <1>0, <1>1, KnownOne DEF LeftOut
  <2>2. QED BY <1>1, <2>1 DEF RowPlanned
<1>2. CASE /\ ~line.skip /\ ~Here(plan, line)
           /\ LinkedOf(plan, line) = {}
           /\ new = TakenBy(plan, line, i, NextNumber(plan), {[n |-> NextNumber(plan), keys |-> line.keys]})
  <2>1. PICK n \in Nat \ {0} : n = NextNumber(plan)
    BY NextFree
  <2>2. PICK fresh : fresh = {[n |-> n, keys |-> line.keys]}
    OBVIOUS
  <2>3. new = TakenBy(plan, line, i, n, fresh)
    BY <1>2, <2>1, <2>2
  <2> HIDE DEF new
  <2>4. /\ new = [on |-> TRUE, people |-> plan.people \cup fresh, cases |-> plan.cases \cup CaseOf(line, n, i),
                  links |-> [c \in Clients |-> IF c = line.client THEN n ELSE plan.links[c]],
                  byRef |-> new.byRef]
        /\ new.byRef \in [Clients -> Nat]
        /\ \A c \in Clients : new.byRef[c] = (IF c = line.client /\ Earlier(plan, line) = {} THEN n ELSE plan.byRef[c])
    BY <2>3, TakenFields
  <2>5. /\ \A p \in FolkWith(plan) : p.keys \cap line.keys = {}
        /\ (w \in Clients /\ Keyless(w)) => plan.byRef[w] = 0 /\ links[w] = 0
    BY <1>2, NobodyKnown
  <2>6. Earlier(plan, line) = {}
    BY <1>2 DEF LinkedOf
  <2>7. (w \in Clients /\ Keyless(w)) => /\ new.byRef[w] = n /\ plan.links[w] \in {0, n}
                                         /\ links[w] # 0 => n = links[w]
    BY <2>4, <2>5, <2>6 DEF PlanLinks
  <2>8. Taken(plan, new, i, line, n, fresh)
    BY <2>4, <2>7 DEF Taken
  <2>9. Whom(plan, line, n, fresh)
    BY <2>1, <2>2, <2>5 DEF Whom
  <2>10. ~line.skip /\ ~Here(plan, line)
    BY <1>2
  <2>11. RowPlanned(plan, new, i, line)
    BY <2>8, <2>9, <2>10 DEF RowPlanned
  <2>12. QED BY <2>11 DEF new
<1>3. ASSUME ~line.skip /\ ~Here(plan, line), NEW x \in LinkedOf(plan, line), new = TakenBy(plan, line, i, x.n, {})
      PROVE  RowPlanned(plan, new, i, line)
  <2>1. /\ x \in FolkWith(plan)
        /\ w \in Clients => Means(x, w)
    BY <1>3, EarlierMeans, KnownMeans DEF LinkedOf, FolkWith
  <2>2. PICK n \in Nat \ {0} : n = x.n
    BY <2>1, FolkNumbers DEF PlanFolk
  <2>9. PICK fresh : fresh = {}
    OBVIOUS
  <2>3. new = TakenBy(plan, line, i, n, fresh)
    BY <1>3, <2>2, <2>9
  <2> HIDE DEF new
  <2>4. /\ new = [on |-> TRUE, people |-> plan.people \cup fresh, cases |-> plan.cases \cup CaseOf(line, n, i),
                  links |-> [c \in Clients |-> IF c = line.client THEN n ELSE plan.links[c]],
                  byRef |-> new.byRef]
        /\ new.byRef \in [Clients -> Nat]
        /\ \A c \in Clients : new.byRef[c] = (IF c = line.client /\ Earlier(plan, line) = {} THEN n ELSE plan.byRef[c])
    BY <2>3, TakenFields
  <2>5. ASSUME w \in Clients, Keyless(w)
        PROVE  /\ new.byRef[w] = n /\ plan.links[w] \in {0, n}
               /\ links[w] # 0 => n = links[w]
    <3>1. /\ links[w] # 0 => plan.byRef[w] \in {0, links[w]}
          /\ plan.links[w] = IF plan.byRef[w] # 0 THEN plan.byRef[w] ELSE links[w]
      BY <2>5 DEF PlanLinks
    <3>2. CASE Earlier(plan, line) # {}
      <4>1. x \in Earlier(plan, line)
        BY <1>3, <3>2 DEF LinkedOf
      <4>2. n = plan.byRef[w]
        BY <1>3, <2>2, <2>5, <4>1, EarlierMeans
      <4>3. QED BY <2>4, <2>5, <3>1, <3>2, <4>2
    <3>3. CASE Earlier(plan, line) = {}
      <4>1. n = IF plan.byRef[w] # 0 THEN plan.byRef[w] ELSE links[w]
        BY <1>3, <2>2, <2>5, <3>3, KnownMeans
      <4>2. QED BY <2>4, <2>5, <3>1, <3>3, <4>1
    <3>4. QED BY <3>2, <3>3
  <2>6. Taken(plan, new, i, line, n, fresh)
    BY <2>4, <2>5 DEF Taken
  <2>7. Whom(plan, line, n, fresh)
    BY <2>1, <2>2, <2>9 DEF Whom
  <2>8. ~line.skip /\ ~Here(plan, line)
    BY <1>3
  <2>10. QED BY <2>6, <2>7, <2>8 DEF RowPlanned
<1>4. QED BY <1>1, <1>2, <1>3, PlanRowCases

\* Whom the row means is with the plan then, whose new contacts have the next numbers.
LEMMA FolkOneMore ==
    ASSUME NEW plan, PlanFolk(plan), FolkRight(people), NEW x, NEW new, new.people = plan.people \cup {x},
           NEW keys \in SUBSET Keys, x = [n |-> NextNumber(plan), keys |-> keys],
           \A p \in FolkWith(plan) : p.keys \cap keys = {}
    PROVE  PlanFolk(new)
<1> DEFINE folk == FolkWith(plan)
           m == Cardinality(folk)
           base == Cardinality(people)
<1>1. /\ base \in Nat /\ Cardinality(plan.people) \in Nat /\ m \in Nat
      /\ m = base + Cardinality(plan.people)
      /\ \A p \in folk : p.n \in Nat \ {0} /\ p.n <= m
      /\ IsFiniteSet(folk) /\ IsFiniteSet(plan.people)
  BY FolkNumbers, FS_CardinalityType DEF PlanFolk, FolkRight
<1>2. x.n = m + 1 /\ x.keys = keys
  BY <1>1 DEF NextNumber
<1>3. FolkWith(new) = folk \cup {x}
  BY DEF FolkWith
<1>4. x \notin folk /\ x \notin plan.people
  <2>1. x \notin folk
    <3>1. ~(m + 1 <= m)
      BY <1>1
    <3>2. QED BY <1>1, <1>2, <3>1
  <2>2. QED BY <2>1 DEF FolkWith
<1>5. /\ IsFiniteSet(FolkWith(new)) /\ IsFiniteSet(new.people)
      /\ Cardinality(FolkWith(new)) = m + 1 /\ Cardinality(new.people) = Cardinality(plan.people) + 1
  <2>1. IsFiniteSet(folk \cup {x}) /\ Cardinality(folk \cup {x}) = m + 1
    <3> HIDE DEF folk
    <3>1. QED BY <1>1, <1>4, FS_AddElement DEF m
  <2>2. IsFiniteSet(plan.people \cup {x}) /\ Cardinality(plan.people \cup {x}) = Cardinality(plan.people) + 1
    BY <1>1, <1>4, FS_AddElement
  <2>3. QED BY <1>3, <2>1, <2>2
<1>6. FolkRight(FolkWith(new))
  <2>1. \A p \in folk : /\ p = [n |-> p.n, keys |-> p.keys] /\ p.keys \in SUBSET Keys
                        /\ p.n \in 1..m
    BY DEF FolkRight, PlanFolk
  <2>2. \A p, q \in folk : (p.n = q.n => p = q) /\ (p.keys \cap q.keys # {} => p = q)
    BY DEF FolkRight, PlanFolk
  <2>3. \A p \in folk : p.n # x.n
    BY <1>1, <1>2
  <2>4. \A p \in folk : p.keys \cap x.keys = {}
    BY <1>2
  <2>5. x = [n |-> x.n, keys |-> x.keys] /\ x.n \in 1..(m + 1)
    BY <1>1, <1>2
  <2> HIDE DEF folk, m
  <2>6. \A p \in folk \cup {x} : p = [n |-> p.n, keys |-> p.keys] /\ p.keys \in SUBSET Keys /\ p.n \in 1..(m + 1)
    BY <1>1, <1>2, <2>1, <2>5 DEF m
  <2>7. \A p, q \in folk \cup {x} : p.n = q.n => p = q
    BY <2>2, <2>3
  <2>8. \A p, q \in folk \cup {x} : p.keys \cap q.keys # {} => p = q
    BY <2>2, <2>4
  <2>9. QED BY <1>3, <1>5, <2>6, <2>7, <2>8 DEF FolkRight
<1>7. ASSUME NEW p \in new.people
      PROVE  p.n > base /\ p.n = base + Cardinality({q \in new.people : q.n <= p.n})
  <2>1. CASE p = x
    <3>1. \A q \in new.people : q.n <= p.n
      <4>1. \A q \in plan.people : q.n <= m /\ q.n \in Nat
        BY <1>1 DEF FolkWith
      <4>2. \A q \in plan.people : q.n <= m + 1
        BY <1>1, <4>1
      <4>3. QED BY <1>1, <1>2, <2>1, <4>2
    <3>2. {q \in new.people : q.n <= p.n} = new.people
      BY <3>1
    <3>3. p.n = m + 1 /\ Cardinality({q \in new.people : q.n <= p.n}) = Cardinality(plan.people) + 1
      BY <1>2, <1>5, <2>1, <3>2
    <3>4. m + 1 > base /\ m + 1 = base + (Cardinality(plan.people) + 1)
      BY <1>1
    <3>5. QED BY <3>3, <3>4
  <2>2. CASE p # x
    <3>1. p \in plan.people /\ p \in folk
      BY <2>2 DEF FolkWith
    <3>2. ~(x.n <= p.n)
      BY <1>1, <1>2, <3>1
    <3>3. {q \in new.people : q.n <= p.n} = {q \in plan.people : q.n <= p.n}
      BY <3>2
    <3>4. p.n > base /\ p.n = base + Cardinality({q \in plan.people : q.n <= p.n})
      BY <3>1 DEF PlanFolk
    <3>5. QED BY <3>3, <3>4
  <2>3. QED BY <2>1, <2>2
<1>8. Cardinality(FolkWith(new)) = base + Cardinality(new.people)
  BY <1>1, <1>5
<1>9. QED BY <1>5, <1>6, <1>7, <1>8 DEF PlanFolk

LEMMA FolkGrows ==
    ASSUME NEW plan, PlanFolk(plan), FolkRight(people), NEW line, RowRight(line), ~line.skip,
           NEW new, NEW n, NEW fresh, new.people = plan.people \cup fresh, Whom(plan, line, n, fresh)
    PROVE  /\ PlanFolk(new) /\ FolkWith(plan) \subseteq FolkWith(new)
           /\ line.client \in Clients => Finds(n, line.client, FolkWith(new))
<1>1. FolkWith(plan) \subseteq FolkWith(new)
  BY DEF FolkWith
<1>2. CASE /\ fresh = {}
           /\ \E p \in FolkWith(plan) : p.n = n /\ (line.client \in Clients => Means(p, line.client))
  <2>1. new.people = plan.people
    BY <1>2
  <2>2. PlanFolk(new)
    BY <2>1 DEF PlanFolk, FolkWith
  <2>3. QED BY <1>1, <1>2, <2>2 DEF Finds
<1>3. CASE /\ fresh = {[n |-> n, keys |-> line.keys]} /\ n = NextNumber(plan)
           /\ \A p \in FolkWith(plan) : p.keys \cap line.keys = {}
  <2>1. PICK x : x = [n |-> n, keys |-> line.keys]
    OBVIOUS
  <2>2. line.keys \in SUBSET Keys
    BY DEF RowRight, Row
  <2>3. PlanFolk(new)
    BY <1>3, <2>1, <2>2, FolkOneMore
  <2>4. x \in FolkWith(new) /\ x.n = n /\ x.keys = line.keys
    BY <1>3, <2>1 DEF FolkWith
  <2>5. line.client \in Clients => Means(x, line.client)
    BY <2>4 DEF RowRight, Means
  <2>6. QED BY <1>1, <2>3, <2>4, <2>5 DEF Finds
<1>4. QED BY <1>2, <1>3 DEF Whom

LEMMA FindsStays ==
    ASSUME NEW folk, NEW more, folk \subseteq more, NEW n, NEW c, Finds(n, c, folk) PROVE Finds(n, c, more)
BY DEF Finds

LEMMA LinksGrow ==
    ASSUME ProviderTypes, NEW plan, PlanLinks(plan), NEW line, RowRight(line), ~line.skip, NEW new, NEW i,
           NEW n \in Nat \ {0}, NEW fresh, Taken(plan, new, i, line, n, fresh), FolkWith(plan) \subseteq FolkWith(new),
           line.client \in Clients => Finds(n, line.client, FolkWith(new))
    PROVE  PlanLinks(new) /\ \A c \in Clients : plan.links[c] # 0 => new.links[c] # 0
<1>1. /\ \A c \in Clients : new.links[c] = IF c = line.client THEN n ELSE plan.links[c]
      /\ new.links \in [Clients -> Nat]
  BY DEF Taken, PlanLinks, LinksRight
<1>2. /\ new.byRef \in [Clients -> Nat]
      /\ \A c \in Clients : new.byRef[c] # plan.byRef[c] => c = line.client /\ new.byRef[c] = n
      /\ (line.client \in Clients /\ Keyless(line.client)) =>
          /\ new.byRef[line.client] = n /\ plan.links[line.client] \in {0, n}
          /\ links[line.client] # 0 => n = links[line.client]
  BY DEF Taken
<1>3. \A c \in Clients : plan.links[c] # 0 => c \notin provider.companies /\ Finds(plan.links[c], c, FolkWith(new))
  BY FindsStays DEF PlanLinks, LinksRight
<1>4. line.client \in Clients => line.client \notin provider.companies
  BY DEF RowRight
<1>5. LinksRight(new.links, FolkWith(new))
  BY <1>1, <1>3, <1>4 DEF LinksRight
<1>6. \A c \in Clients : new.byRef[c] # 0 => Finds(new.byRef[c], c, FolkWith(new))
  <2>1. \A c \in Clients : plan.byRef[c] # 0 => Finds(plan.byRef[c], c, FolkWith(new))
    BY FindsStays DEF PlanLinks
  <2>2. QED BY <1>2, <2>1
<1>7. \A c \in Clients : links[c] # 0 => new.links[c] # 0
  BY <1>1 DEF PlanLinks
<1>8. ASSUME NEW c \in Clients, Keyless(c)
      PROVE  /\ links[c] # 0 => new.byRef[c] \in {0, links[c]}
             /\ new.links[c] = IF new.byRef[c] # 0 THEN new.byRef[c] ELSE links[c]
  <2>1. CASE c = line.client
    BY <1>1, <1>2, <1>8, <2>1
  <2>2. CASE c # line.client
    <3>1. new.byRef[c] = plan.byRef[c] /\ new.links[c] = plan.links[c]
      BY <1>1, <1>2, <2>2
    <3>2. QED BY <1>8, <3>1 DEF PlanLinks
  <2>3. QED BY <2>1, <2>2
<1>9. \A c \in Clients : plan.links[c] # 0 => new.links[c] # 0
  BY <1>1
<1>10. QED BY <1>2, <1>5, <1>6, <1>7, <1>8, <1>9 DEF PlanLinks

\* The matter of the row is new, and its client's.
LEMMA CasesGrow ==
    ASSUME ProviderTypes, NEW plan, NEW list, NEW k \in 1..Len(list), NEW i \in Ids, NEW new,
           RowsRight(list), PlanCases(plan, i, list, k - 1), PlanLinks(plan), PlanLinks(new),
           ~list[k].skip, ~Here(plan, list[k]), NEW n \in Nat \ {0}, NEW fresh, Taken(plan, new, i, list[k], n, fresh),
           FolkWith(plan) \subseteq FolkWith(new),
           list[k].client \in Clients => Finds(n, list[k].client, FolkWith(new))
    PROVE  PlanCases(new, i, list, k)
<1> DEFINE line == list[k]
           d == [case |-> line.case, of |-> n, by |-> i]
<1>1. RowRight(line) /\ k \in Nat /\ Len(list) \in Nat
  BY LenProperties DEF RowsRight
<1>2. /\ \A c \in Clients : new.links[c] = IF c = line.client THEN n ELSE plan.links[c]
      /\ new.cases = plan.cases \cup CaseOf(line, n, i)
      /\ (line.client \in Clients /\ Keyless(line.client)) => plan.links[line.client] \in {0, n}
  BY DEF Taken
<1>3. CasesRight(CasesWith(plan), plan.links, FolkWith(plan))
  BY DEF PlanCases
<1>4. \A c \in CasesWith(new) : c \in CasesWith(plan) \/ (c = d /\ line.case # "none")
  BY <1>2 DEF CasesWith, CaseOf
<1>5. line.case # "none" =>
         /\ line.case \in OldMatters \cup Receipts
         /\ \A c \in CasesWith(plan) : c.case # line.case
  <2>1. SUFFICES ASSUME line.case # "none"
                 PROVE  line.case \in OldMatters \cup Receipts /\ \A c \in CasesWith(plan) : c.case # line.case
    OBVIOUS
  <2>2. line.case \in OldMatters \cup Receipts
    BY <1>1, <2>1 DEF RowRight, Row
  <2>3. /\ \A c \in cases : c.case # line.case
        /\ line.case \in Receipts => \A c \in plan.cases : c.case # line.case
    BY <2>1 DEF Here
  <2>4. ASSUME line.case \in OldMatters, NEW c \in plan.cases, c.case = line.case PROVE FALSE
    <3>1. PICK j \in 1..(k - 1) : list[j].case = c.case
      BY DEF PlanCases
    <3>2. j \in 1..Len(list) /\ j # k
      BY <1>1, <3>1
    <3>3. \A a, b \in 1..Len(list) : list[a].case = list[b].case /\ list[a].case \in OldMatters => a = b
      BY DEF RowsRight
    <3>4. QED BY <2>4, <3>1, <3>2, <3>3
  <2>5. QED BY <2>2, <2>3, <2>4 DEF CasesWith
<1>6. \A c \in CasesWith(new) : /\ c = [case |-> c.case, of |-> c.of, by |-> c.by]
                                /\ c.case \in OldMatters \cup Receipts /\ c.of \in Nat /\ c.by \in Ids
  <2>1. \A c \in CasesWith(plan) : /\ c = [case |-> c.case, of |-> c.of, by |-> c.by]
                                   /\ c.case \in OldMatters \cup Receipts /\ c.of \in Nat /\ c.by \in Ids
    BY <1>3 DEF CasesRight
  <2>2. line.case # "none" => /\ d = [case |-> d.case, of |-> d.of, by |-> d.by]
                              /\ d.case \in OldMatters \cup Receipts /\ d.of \in Nat /\ d.by \in Ids
    BY <1>5
  <2> HIDE DEF d
  <2>3. QED BY <1>4, <2>1, <2>2
<1>7. \A c, e \in CasesWith(new) : c.case = e.case => c = e
  <2>1. \A c, e \in CasesWith(plan) : c.case = e.case => c = e
    BY <1>3 DEF CasesRight
  <2>2. d.case = line.case
    OBVIOUS
  <2> HIDE DEF d
  <2>3. QED BY <1>4, <1>5, <2>1, <2>2
<1>8. ASSUME NEW c \in CasesWith(new), NEW w \in Clients, c.case \in OldMatters, w = provider.client[c.case]
      PROVE  new.links[w] # 0 /\ Finds(c.of, w, FolkWith(new)) /\ (Keyless(w) => new.links[w] = c.of)
  <2>1. CASE c \in CasesWith(plan)
    <3>1. plan.links[w] # 0 /\ Finds(c.of, w, FolkWith(plan)) /\ (Keyless(w) => plan.links[w] = c.of)
      BY <1>3, <1>8, <2>1 DEF CasesRight
    <3>2. Finds(c.of, w, FolkWith(new))
      BY <3>1, FindsStays
    <3>3. QED BY <1>2, <3>1, <3>2
  <2>2. CASE c = d /\ line.case # "none"
    <3>1. c.case = line.case /\ c.of = n
      BY <2>2
    <3>2. w = line.client
      BY <1>1, <1>8, <3>1 DEF RowRight
    <3>3. QED BY <1>2, <3>1, <3>2
  <2>3. QED BY <1>4, <2>1, <2>2
<1>9. \A c \in new.cases : c.by = i /\ \E j \in 1..k : list[j].case = c.case
  <2>1. \A c \in plan.cases : c.by = i /\ \E j \in 1..(k - 1) : list[j].case = c.case
    BY DEF PlanCases
  <2>2. \A j \in 1..(k - 1) : j \in 1..k
    BY <1>1
  <2>3. k \in 1..k
    BY <1>1
  <2>4. \A c \in new.cases : c \in plan.cases \/ c = d
    BY <1>2 DEF CaseOf
  <2>5. d.by = i /\ d.case = list[k].case
    OBVIOUS
  <2> HIDE DEF d
  <2>6. QED BY <2>1, <2>2, <2>3, <2>4, <2>5
<1> HIDE DEF d, line
<1>10. CasesRight(CasesWith(new), new.links, FolkWith(new))
  BY <1>6, <1>7, <1>8 DEF CasesRight
<1>11. QED BY <1>9, <1>10 DEF PlanCases

CRMKeeps == FolkRight(people) /\ LinksRight(links, people) /\ CasesRight(cases, links, people)

\* A client of a row that was left out was linked, or cannot be told.
LEMMA LeftOutCovered ==
    ASSUME ProviderTypes, CRMKeeps, NEW plan, PlanLinks(plan), NEW line, RowRight(line), LeftOut(plan, line),
           ~line.skip, line.client \in Clients
    PROVE  plan.links[line.client] # 0 \/ Unsure(line.client)
<1>1. CASE Unsure(line.client)
  BY <1>1
<1>2. CASE Here(plan, line)
  <2>1. line.case \notin Receipts
    BY ImportsAssumption DEF RowRight
  <2>2. PICK c \in cases : c.case = line.case
    BY <1>2, <2>1 DEF Here
  <2>3. c.case \in OldMatters
    BY <2>1, <2>2 DEF CRMKeeps, CasesRight
  <2>4. line.client = provider.client[c.case]
    BY <2>2, <2>3 DEF RowRight
  <2>5. links[line.client] # 0
    BY <2>3, <2>4 DEF CRMKeeps, CasesRight
  <2>6. QED BY <2>5 DEF PlanLinks
<1>3. QED BY <1>1, <1>2 DEF LeftOut

\* Row by row, the plan stays right.
LEMMA PlanRowKeeps ==
    ASSUME ProviderTypes, CRMKeeps, NEW i \in Ids, NEW list, RowsRight(list), NEW k \in 1..Len(list), NEW plan,
           PlanRight(plan, i, list, k - 1)
    PROVE  PlanRight(PlanRow(i, plan, list[k]), i, list, k)
<1> DEFINE new == PlanRow(i, plan, list[k])
<1>1. RowRight(list[k]) /\ k \in Nat /\ Len(list) \in Nat /\ k - 1 \in Nat
  BY LenProperties DEF RowsRight
<1>2. PlanShape(plan) /\ PlanFolk(plan) /\ PlanLinks(plan) /\ PlanCases(plan, i, list, k - 1) /\ PlanCovers(plan, list, k - 1)
  BY DEF PlanRight
<1>3. FolkRight(people) /\ LinksRight(links, people)
  BY DEF CRMKeeps
<1>4. RowPlanned(plan, new, i, list[k])
  BY <1>1, <1>2, <1>3, RowIsPlanned
<1>5. \A j \in 1..k : j \in 1..(k - 1) \/ j = k
  BY <1>1
<1>6. \A j \in 1..(k - 1) : j \in 1..k
  BY <1>1
<1> HIDE DEF new
<1>7. CASE new = plan /\ LeftOut(plan, list[k])
  <2>1. PlanCases(plan, i, list, k)
    BY <1>2, <1>6 DEF PlanCases
  <2>2. PlanCovers(plan, list, k)
    <3>1. (~list[k].skip /\ list[k].client \in Clients) => plan.links[list[k].client] # 0 \/ Unsure(list[k].client)
      BY <1>1, <1>2, <1>7, LeftOutCovered
    <3>2. QED BY <1>2, <1>5, <3>1 DEF PlanCovers
  <2>3. QED BY <1>2, <1>7, <2>1, <2>2 DEF PlanRight, new
<1>8. ASSUME ~list[k].skip, ~Here(plan, list[k]), NEW n \in Nat \ {0}, NEW fresh,
             Taken(plan, new, i, list[k], n, fresh), Whom(plan, list[k], n, fresh)
      PROVE  PlanRight(new, i, list, k)
  <2>1. new.people = plan.people \cup fresh /\ PlanShape(new)
    BY <1>8 DEF Taken, PlanShape
  <2>2. /\ PlanFolk(new) /\ FolkWith(plan) \subseteq FolkWith(new)
        /\ list[k].client \in Clients => Finds(n, list[k].client, FolkWith(new))
    BY <1>1, <1>2, <1>3, <1>8, <2>1, FolkGrows
  <2>3. PlanLinks(new) /\ \A c \in Clients : plan.links[c] # 0 => new.links[c] # 0
    BY <1>1, <1>2, <1>8, <2>2, LinksGrow
  <2>4. PlanCases(new, i, list, k)
    BY <1>2, <1>8, <2>2, <2>3, CasesGrow
  <2>5. list[k].client \in Clients => new.links[list[k].client] # 0
    BY <1>8 DEF Taken
  <2>6. PlanCovers(new, list, k)
    BY <1>2, <1>5, <2>3, <2>5 DEF PlanCovers
  <2>7. QED BY <2>1, <2>2, <2>3, <2>4, <2>6 DEF PlanRight
<1>9. PlanRight(new, i, list, k)
  <2>1. CASE new = plan /\ LeftOut(plan, list[k])
    BY <1>7, <2>1 DEF new
  <2>2. CASE ~(new = plan /\ LeftOut(plan, list[k]))
    BY <1>4, <1>8, <2>2 DEF RowPlanned
  <2>3. QED BY <2>1, <2>2
<1>10. QED BY <1>9 DEF new

LEMMA FirstPlanRight ==
    ASSUME CRMKeeps, NEW i, NEW list PROVE PlanRight(FirstPlan, i, list, 0)
<1> DEFINE p == FirstPlan
<1>1. p \in [on : {TRUE}, people : {{}}, cases : {{}}, links : {links}, byRef : {[c \in Clients |-> 0]}]
  BY DEF FirstPlan, NoPlan
<1> HIDE DEF p
<1>2. PlanShape(p)
  BY <1>1 DEF PlanShape
<1>3. FolkWith(p) = people /\ CasesWith(p) = cases /\ p.people = {} /\ p.cases = {} /\ p.links = links
  BY <1>1 DEF FolkWith, CasesWith
<1>4. p.byRef = [c \in Clients |-> 0]
  BY <1>1
<1>5. PlanFolk(p)
  <2>1. IsFiniteSet({}) /\ Cardinality({}) = 0 /\ Cardinality(people) \in Nat
    BY FS_EmptySet, FolkNumbers DEF CRMKeeps
  <2>2. QED BY <1>3, <2>1 DEF PlanFolk, CRMKeeps
<1>6. PlanLinks(p)
  BY <1>3, <1>4 DEF PlanLinks, CRMKeeps
<1>7. PlanCases(p, i, list, 0)
  BY <1>3 DEF PlanCases, CRMKeeps
<1>8. PlanCovers(p, list, 0)
  <2>1. 1..0 = {}
    OBVIOUS
  <2>2. QED BY <2>1 DEF PlanCovers
<1>9. QED BY <1>2, <1>5, <1>6, <1>7, <1>8 DEF PlanRight, p

\* The plan of an import is right: there is no first row after which it is not.
LEMMA PlanOfRight ==
    ASSUME ProviderTypes, CRMKeeps, NEW i \in Ids, RowsRight(upload[i].rows)
    PROVE  PlanRight(PlanOf(i), i, upload[i].rows, Len(upload[i].rows))
<1>1. PICK list : list = upload[i].rows
  OBVIOUS
<1>2. RowsRight(list) /\ Len(list) \in Nat
  BY <1>1, LenProperties DEF RowsRight
<1>3. PICK f : PlansUpTo(f, i, list, Len(list)) /\ PlanOf(i) = f[Len(list)]
  BY <1>1, <1>2, PlanUnfold
<1> DEFINE Bad == {k \in Nat : k <= Len(list) /\ ~PlanRight(f[k], i, list, k)}
<1>4. Bad = {}
  <2>1. SUFFICES ASSUME Bad # {} PROVE FALSE
    OBVIOUS
  <2>2. Bad \in SUBSET Nat
    OBVIOUS
  <2>3. PICK k \in Bad : \A j \in Bad : k <= j
    <3> HIDE DEF Bad
    <3>1. QED BY <2>1, <2>2, LeastOf
  <2>4. k \in Nat /\ k <= Len(list) /\ ~PlanRight(f[k], i, list, k)
    OBVIOUS
  <2>5. f[k] = IF k = 0 THEN FirstPlan ELSE PlanRow(i, f[k - 1], list[k])
    BY <1>2, <1>3, <2>4 DEF PlansUpTo
  <2>6. k # 0
    BY <2>4, <2>5, FirstPlanRight
  <2>7. k - 1 \in Nat /\ ~(k <= k - 1) /\ k - 1 <= Len(list) /\ k \in 1..Len(list)
    BY <1>2, <2>4, <2>6
  <2>8. PlanRight(f[k - 1], i, list, k - 1)
    BY <2>3, <2>7
  <2>9. PlanRight(f[k], i, list, k)
    BY <1>2, <2>5, <2>6, <2>7, <2>8, PlanRowKeeps
  <2>10. QED BY <2>4, <2>9
<1>5. PlanRight(f[Len(list)], i, list, Len(list))
  BY <1>2, <1>4
<1>6. QED BY <1>1, <1>3, <1>5

\* One contact has the keys: whoever is found by them is that one.
LEMMA OneFound ==
    ASSUME NEW c, ~Unsure(c), ~Keyless(c), NEW n, NEW m, Finds(n, c, people), Finds(m, c, people)
    PROVE  n = m
BY DEF Unsure, OneHas, Keyless, Finds, Means, Shares

\* The invariant says what the property says.
LEMMA ImportInvSays == ImportInv => ImportedOnce
<1>1. SUFFICES ASSUME ImportInv PROVE ImportedOnce
  OBVIOUS
<1>2. SUFFICES ASSUME ~beside PROVE ImportedOnce
  BY DEF ImportedOnce, NoSecondContact, MatterImportedOnce, RightPeople
<1>3. ProviderTypes /\ CRMRight /\ PartiesRight /\ UploadsRight
  BY <1>1, <1>2 DEF ImportInv, AloneRight
<1>4. NoSecondContact
  BY <1>3 DEF NoSecondContact, CRMRight, FolkRight
<1>5. LinksRight(links, people) /\ CasesRight(cases, links, people)
  BY <1>3 DEF CRMRight
<1>6. ASSUME NEW m \in OldMatters, NEW c \in cases, c.case = m
      PROVE  /\ \E p \in people : p.n = c.of /\ Means(p, provider.client[m])
             /\ OneHas(provider.keys[provider.client[m]]) => links[provider.client[m]] = c.of
  <2>1. PICK w \in Clients : w = provider.client[m]
    BY <1>3 DEF ProviderTypes
  <2>2. links[w] # 0 /\ Finds(c.of, w, people) /\ (Keyless(w) => links[w] = c.of)
    BY <1>5, <1>6, <2>1 DEF CasesRight
  <2>3. Finds(links[w], w, people)
    BY <1>5, <2>2 DEF LinksRight
  <2>4. OneHas(provider.keys[w]) => links[w] = c.of
    BY <2>2, <2>3, OneFound DEF Unsure
  <2>5. QED BY <2>1, <2>2, <2>4 DEF Finds
<1>7. MatterImportedOnce
  <2>1. \A c, d \in cases : c.case = d.case => c = d
    BY <1>5 DEF CasesRight
  <2>2. \A c \in cases : upload[c.by].status = "imported"
    BY <1>3 DEF CRMRight
  <2>3. QED BY <1>6, <2>1, <2>2 DEF MatterImportedOnce
<1>8. \A c \in Clients : links[c] # 0 => c \notin provider.companies /\ \E p \in people : p.n = links[c] /\ Means(p, c)
  BY <1>5 DEF LinksRight, Finds
<1>9. ASSUME NEW q \in parties
      PROVE  \E c \in cases, p \in provider.parties[q.case] :
                /\ c.case = q.case /\ q.of # c.of
                /\ \E x \in people : x.n = q.of /\ Means(x, p)
                /\ OneHas(provider.keys[p]) => links[p] = q.of
  <2>1. PICK c \in cases, p \in Clients :
            /\ c.case = q.case /\ q.of # c.of /\ p \in provider.parties[q.case]
            /\ Finds(q.of, p, people) /\ links[p] # 0 /\ (Keyless(p) => links[p] = q.of)
    BY <1>3 DEF PartiesRight, PartyRight
  <2>2. Finds(links[p], p, people)
    BY <1>5, <2>1 DEF LinksRight
  <2>3. OneHas(provider.keys[p]) => links[p] = q.of
    BY <2>1, <2>2, OneFound DEF Unsure
  <2>4. \E x \in people : x.n = q.of /\ Means(x, p)
    BY <2>1 DEF Finds
  <2>5. QED BY <2>1, <2>3, <2>4
<1>10. ASSUME NEW c \in cases, NEW k \in DOMAIN upload[c.by].rows, NEW p \in Clients,
              upload[c.by].rows[k].case = c.case, p \in upload[c.by].rows[k].parties,
              links[p] \notin {0, c.of}, LinkedBy(p, c.by), OneHas(provider.keys[p])
       PROVE  [case |-> c.case, of |-> links[p]] \in parties
  <2>1. c.by \in Ids
    BY <1>5 DEF CasesRight
  <2>2. PICK list : list = upload[c.by].rows
    OBVIOUS
  <2>3. list \in Seq(Row)
    BY <1>3, <2>1, <2>2 DEF UploadsRight, UploadRight, RowsRight
  <2>4. k \in 1..Len(list)
    BY <1>10, <2>2, <2>3, LenProperties
  <2>5. NamedBy(c, p)
    BY <1>10, <2>2, <2>4 DEF NamedBy
  <2>6. QED BY <1>3, <1>10, <2>5 DEF PartiesRight, Unsure
<1>11. RightPeople
  BY <1>8, <1>9, <1>10 DEF RightPeople
<1>12. QED BY <1>4, <1>7, <1>11 DEF ImportedOnce

\* What no step changes of the other system; and what stays of the CRM unless an import
\* commits.
ProviderStays ==
    /\ provider'.keys = provider.keys /\ provider'.companies = provider.companies
    /\ provider'.client = provider.client /\ provider'.parties = provider.parties
CRMStays == people' = people /\ links' = links /\ cases' = cases /\ parties' = parties
ImportedStay ==
    \A i \in Ids : \/ upload'[i] = upload[i]
                   \/ upload[i].status # "imported" /\ upload'[i].status # "imported"

LEMMA FindsSame ==
    ASSUME ProviderStays, NEW n, NEW c, NEW folk
    PROVE  /\ Finds(n, c, folk)' <=> Finds(n, c, folk)
           /\ Keyless(c)' <=> Keyless(c)
BY DEF ProviderStays, Finds, Means, Keyless

LEMMA UnsureSame ==
    ASSUME ProviderStays, people' = people, NEW c PROVE Unsure(c)' <=> Unsure(c)
<1>1. \A keys : OneHas(keys)' <=> OneHas(keys)
  BY DEF OneHas, Shares
<1>2. provider'.keys[c] = provider.keys[c]
  BY DEF ProviderStays
<1>3. QED BY <1>1, <1>2 DEF Unsure

LEMMA LinksSame ==
    ASSUME ProviderStays, NEW known, NEW folk, LinksRight(known, folk) PROVE LinksRight(known, folk)'
<1>1. \A c \in Clients : (c \notin provider.companies <=> c \notin provider'.companies)
  BY DEF ProviderStays
<1>2. QED BY <1>1, FindsSame DEF LinksRight

LEMMA CasesSame ==
    ASSUME ProviderStays, NEW files, NEW known, NEW folk, CasesRight(files, known, folk)
    PROVE  CasesRight(files, known, folk)'
<1>1. ASSUME NEW c \in files, NEW w \in Clients, c.case \in OldMatters, w = provider'.client[c.case]
      PROVE  known[w] # 0 /\ Finds(c.of, w, folk)' /\ (Keyless(w)' => known[w] = c.of)
  <2>1. w = provider.client[c.case]
    BY <1>1 DEF ProviderStays
  <2>2. known[w] # 0 /\ Finds(c.of, w, folk) /\ (Keyless(w) => known[w] = c.of)
    BY <1>1, <2>1 DEF CasesRight
  <2>3. QED BY <2>2, FindsSame
<1>2. \A c \in files : /\ c = [case |-> c.case, of |-> c.of, by |-> c.by]
                       /\ c.case \in OldMatters \cup Receipts /\ c.of \in Nat /\ c.by \in Ids
  BY DEF CasesRight
<1>3. \A c, d \in files : c.case = d.case => c = d
  BY DEF CasesRight
<1>4. QED BY <1>1, <1>2, <1>3 DEF CasesRight

LEMMA RowsSame ==
    ASSUME ProviderStays, NEW list, RowsRight(list) PROVE RowsRight(list)'
BY DEF ProviderStays, RowsRight, RowRight

LEMMA PlanSame ==
    ASSUME ProviderStays, CRMStays, NEW plan, NEW i, NEW list, NEW k, PlanRight(plan, i, list, k)
    PROVE  PlanRight(plan, i, list, k)'
<1>1. PICK folk : folk = FolkWith(plan)
  OBVIOUS
<1>2. PICK files : files = CasesWith(plan)
  OBVIOUS
<1>3. FolkWith(plan)' = folk /\ CasesWith(plan)' = files
  BY <1>1, <1>2 DEF FolkWith, CasesWith, CRMStays
<1>4. PlanShape(plan) /\ PlanFolk(plan) /\ PlanLinks(plan) /\ PlanCases(plan, i, list, k) /\ PlanCovers(plan, list, k)
  BY DEF PlanRight
<1>5. PlanShape(plan)'
  BY <1>4 DEF PlanShape
<1>6. PlanFolk(plan)'
  BY <1>1, <1>3, <1>4 DEF PlanFolk, CRMStays, FolkRight
<1>7. PlanLinks(plan)'
  <2>1. PICK known : known = plan.links
    OBVIOUS
  <2>2. LinksRight(known, folk)
    BY <1>1, <1>4, <2>1 DEF PlanLinks
  <2>3. LinksRight(known, folk)'
    BY <2>2, LinksSame
  <2>4. LinksRight(plan.links, FolkWith(plan))'
    BY <1>3, <2>1, <2>3 DEF LinksRight, Finds, Means
  <2>5. ASSUME NEW c \in Clients
        PROVE  /\ plan.byRef[c] # 0 => Finds(plan.byRef[c], c, FolkWith(plan))'
               /\ links'[c] # 0 => plan.links[c] # 0
               /\ Keyless(c)' => /\ links'[c] # 0 => plan.byRef[c] \in {0, links'[c]}
                                 /\ plan.links[c] = IF plan.byRef[c] # 0 THEN plan.byRef[c] ELSE links'[c]
    <3>1. /\ plan.byRef[c] # 0 => Finds(plan.byRef[c], c, FolkWith(plan))
          /\ links[c] # 0 => plan.links[c] # 0
          /\ Keyless(c) => /\ links[c] # 0 => plan.byRef[c] \in {0, links[c]}
                           /\ plan.links[c] = IF plan.byRef[c] # 0 THEN plan.byRef[c] ELSE links[c]
      BY <1>4 DEF PlanLinks
    <3>2. plan.byRef[c] # 0 => Finds(plan.byRef[c], c, FolkWith(plan))'
      BY <1>1, <1>3, <3>1 DEF Finds, Means, ProviderStays
    <3>3. Keyless(c)' <=> Keyless(c)
      BY FindsSame
    <3>4. links' = links
      BY DEF CRMStays
    <3>5. QED BY <3>1, <3>2, <3>3, <3>4
  <2>6. QED BY <1>4, <2>4, <2>5 DEF PlanLinks
<1>8. PlanCases(plan, i, list, k)'
  <2>1. PICK known : known = plan.links
    OBVIOUS
  <2>2. CasesRight(files, known, folk)
    BY <1>1, <1>2, <1>4, <2>1 DEF PlanCases
  <2>3. CasesRight(files, known, folk)'
    BY <2>2, CasesSame
  <2>4. CasesRight(CasesWith(plan), plan.links, FolkWith(plan))'
    BY <1>3, <2>1, <2>3 DEF CasesRight, Finds, Means, Keyless
  <2>5. QED BY <1>4, <2>4 DEF PlanCases
<1>9. PlanCovers(plan, list, k)'
  BY <1>4, UnsureSame DEF PlanCovers, CRMStays
<1>10. QED BY <1>5, <1>6, <1>7, <1>8, <1>9 DEF PlanRight

LEMMA CRMSame ==
    ASSUME ProviderStays, CRMStays, ImportedStay, CRMRight PROVE CRMRight'
<1>1. FolkRight(people)' /\ Cardinality(people') <= MaxPeople
  BY DEF CRMRight, CRMStays, FolkRight
<1>2. PICK folk, known, files : folk = people /\ known = links /\ files = cases
  OBVIOUS
<1>3. people' = folk /\ links' = known /\ cases' = files
  BY <1>2 DEF CRMStays
<1>4. LinksRight(known, folk)' /\ CasesRight(files, known, folk)'
  BY <1>2, LinksSame, CasesSame DEF CRMRight
<1>5. LinksRight(links, people)'
  BY <1>3, <1>4 DEF LinksRight, Finds, Means
<1>6. CasesRight(cases, links, people)'
  BY <1>3, <1>4 DEF CasesRight, Finds, Means, Keyless
<1>7. \A c \in cases' : upload'[c.by].status = "imported"
  <2>1. \A c \in cases : c.by \in Ids /\ upload[c.by].status = "imported"
    BY DEF CRMRight, CasesRight
  <2>2. QED BY <2>1 DEF CRMStays, ImportedStay
<1>8. QED BY <1>1, <1>5, <1>6, <1>7 DEF CRMRight

LEMMA LinkedBySame ==
    ASSUME ImportedStay, NEW c, NEW i \in Ids PROVE LinkedBy(c, i)' <=> LinkedBy(c, i)
<1>1. \A j \in 1..i : j \in Ids
  BY ImportsAssumption DEF Ids
<1>2. \A j \in 1..i : (upload'[j].status = "imported" <=> upload[j].status = "imported")
                     /\ (upload[j].status = "imported" => upload'[j] = upload[j])
  BY <1>1 DEF ImportedStay
<1>3. QED BY <1>2 DEF LinkedBy

LEMMA PartiesSame ==
    ASSUME ProviderStays, CRMStays, ImportedStay, CRMRight, PartiesRight PROVE PartiesRight'
<1>1. parties' \subseteq Parties
  BY DEF PartiesRight, CRMStays
<1>2. ASSUME NEW q \in parties' PROVE PartyRight(q)'
  <2>1. q \in parties
    BY DEF CRMStays
  <2>2. PICK c \in cases, p \in Clients :
          /\ c.case = q.case /\ q.of # c.of /\ p \in provider.parties[q.case]
          /\ Finds(q.of, p, people) /\ links[p] # 0 /\ (Keyless(p) => links[p] = q.of)
    BY <2>1 DEF PartiesRight, PartyRight
  <2>3. c \in cases' /\ p \in provider'.parties[q.case] /\ links' = links
    BY <2>2 DEF CRMStays, ProviderStays
  <2>4. Finds(q.of, p, people)' /\ (Keyless(p)' <=> Keyless(p))
    BY <2>2 DEF CRMStays, ProviderStays, Finds, Means, Keyless
  <2>5. QED BY <2>2, <2>3, <2>4 DEF PartyRight
<1>3. ASSUME NEW c \in cases', NEW p \in Clients,
             NamedBy(c, p)', links'[p] \notin {0, c.of}, LinkedBy(p, c.by)', ~Unsure(p)'
      PROVE  [case |-> c.case, of |-> links'[p]] \in parties'
  <2>1. c \in cases /\ c.by \in Ids /\ upload[c.by].status = "imported"
    BY DEF CRMStays, CRMRight, CasesRight
  <2>2. upload'[c.by] = upload[c.by]
    BY <2>1 DEF ImportedStay
  <2>3. NamedBy(c, p)
    BY <1>3, <2>2 DEF NamedBy
  <2>4. LinkedBy(p, c.by)
    <3>1. PICK i \in Ids : i = c.by
      BY <2>1
    <3>2. LinkedBy(p, i)'
      BY <1>3, <3>1 DEF LinkedBy
    <3>3. QED BY <3>1, <3>2, LinkedBySame
  <2>5. ~Unsure(p)
    BY <1>3, UnsureSame DEF CRMStays
  <2>6. links'[p] = links[p] /\ parties' = parties
    BY DEF CRMStays
  <2>7. QED BY <1>3, <2>1, <2>3, <2>4, <2>5, <2>6 DEF PartiesRight
<1>4. QED BY <1>1, <1>2, <1>3 DEF PartiesRight

LEMMA UploadSame ==
    ASSUME ProviderStays, CRMStays, NEW i \in Ids, upload'[i] = upload[i], UploadRight(i)
    PROVE  UploadRight(i)'
<1>1. RowsRight(upload[i].rows)'
  <2>1. PICK list : list = upload[i].rows
    OBVIOUS
  <2>2. RowsRight(list)'
    BY <2>1, RowsSame DEF UploadRight
  <2>3. QED BY <2>1, <2>2 DEF RowsRight, RowRight
<1>2. Covered(i) => Covered(i)'
  <2>1. \A c : Unsure(c)' <=> Unsure(c)
    BY UnsureSame DEF CRMStays
  <2>2. QED BY <2>1 DEF Covered, CRMStays
<1>3. QED BY <1>1, <1>2 DEF UploadRight

LEMMA UploadsSame ==
    ASSUME ProviderStays, CRMStays, upload' = upload, UploadsRight PROVE UploadsRight'
<1>1. \A i \in Ids : UploadRight(i)'
  BY UploadSame DEF UploadsRight
<1>2. Used' = Used
  BY DEF Used
<1>3. QED BY <1>1, <1>2 DEF UploadsRight

LEMMA FetchedSame ==
    ASSUME ProviderStays, fetched' = fetched, FetchedRight PROVE FetchedRight'
<1>1. RowsRight(fetched.rows)'
  <2>1. PICK list : list = fetched.rows
    OBVIOUS
  <2>2. RowsRight(list)'
    BY <2>1, RowsSame DEF FetchedRight
  <2>3. QED BY <2>1, <2>2 DEF RowsRight, RowRight
<1>2. \A m \in OldMatters : \A p \in Clients : <<m, p>> \in fetched.parties => p \in provider'.parties[m]
  BY DEF FetchedRight, ProviderStays
<1>3. QED BY <1>1, <1>2 DEF FetchedRight

LEMMA SavingSame ==
    ASSUME ProviderStays, CRMStays, SavingRight, saving' = saving, leaving' \subseteq leaving,
           \A i \in Ids : saving[i].on => upload'[i] = upload[i],
           \A i \in leaving : upload'[i].status \in {"preparing", "gone"}
    PROVE  SavingRight'
<1>1. ASSUME NEW i \in Ids, saving[i].on
      PROVE  /\ upload'[i].status = "preparing"
             /\ PlanRight(saving[i], i, upload[i].rows, Len(upload[i].rows))'
  <2>1. PICK plan, list : plan = saving[i] /\ list = upload[i].rows
    OBVIOUS
  <2>2. upload'[i] = upload[i] /\ upload[i].status = "preparing"
    BY <1>1 DEF SavingRight
  <2>3. PICK k : k = Len(list)
    OBVIOUS
  <2>4. PlanRight(plan, i, list, k)
    BY <1>1, <2>1, <2>3 DEF SavingRight
  <2>5. PlanRight(plan, i, list, k)'
    BY <2>4, PlanSame
  <2>6. plan = saving'[i] /\ list = upload'[i].rows /\ k = Len(upload'[i].rows)
    BY <2>1, <2>2, <2>3
  <2>7. QED BY <2>2, <2>5, <2>6 DEF PlanRight, PlanShape, PlanFolk, PlanLinks, PlanCases, PlanCovers, FolkWith, CasesWith
<1>2. /\ saving' = [i \in Ids |-> saving'[i]]
      /\ \A i \in Ids : saving'[i].on \in BOOLEAN
      /\ \A i, j \in Ids : saving'[i].on /\ saving'[j].on => i = j
      /\ leaving' \subseteq Ids
      /\ \A i \in Ids : saving'[i].on => i \notin leaving'
  BY DEF SavingRight
<1>3. QED BY <1>1, <1>2 DEF SavingRight

\* The steps.  The other system gets more contacts and matters, and changes none.
LEMMA ProviderGrows ==
    ASSUME ProviderTypes,
           \/ \E c \in Clients : NewContact(c)
           \/ \E m \in OldMatters : NewMatter(m)
    PROVE  ProviderTypes' /\ ProviderStays
<1>1. CASE \E c \in Clients : NewContact(c)
  <2>1. PICK c \in Clients : provider' = [provider EXCEPT !.contacts = @ \cup {c}]
    BY <1>1 DEF NewContact
  <2>2. QED BY <2>1 DEF ProviderTypes, ProviderStays
<1>2. CASE \E m \in OldMatters : NewMatter(m)
  <2>1. PICK m \in OldMatters : provider' = [provider EXCEPT !.there = @ \cup {m}]
    BY <1>2 DEF NewMatter
  <2>2. QED BY <2>1 DEF ProviderTypes, ProviderStays
<1>3. QED BY <1>1, <1>2

LEMMA AllSame ==
    ASSUME AloneRight, ProviderStays, CRMStays, upload' = upload, saving' = saving, leaving' = leaving, FetchedRight'
    PROVE  AloneRight'
<1>1. CRMRight /\ PartiesRight /\ UploadsRight /\ SavingRight
  BY DEF AloneRight
<1>2. ImportedStay
  BY DEF ImportedStay
<1>3. CRMRight' /\ PartiesRight' /\ UploadsRight'
  BY <1>1, <1>2, CRMSame, PartiesSame, UploadsSame
<1>4. SavingRight'
  <2>1. \A i \in leaving : upload'[i].status \in {"preparing", "gone"}
    BY <1>1 DEF SavingRight
  <2>2. QED BY <1>1, <2>1, SavingSame
<1>5. QED BY <1>3, <1>4 DEF AloneRight

LEMMA ProviderStep ==
    ASSUME ProviderTypes, AloneRight,
           \/ \E c \in Clients : NewContact(c)
           \/ \E m \in OldMatters : NewMatter(m)
    PROVE  AloneRight'
<1>1. ProviderStays
  BY ProviderGrows
<1>2. CRMStays /\ upload' = upload /\ saving' = saving /\ leaving' = leaving /\ fetched' = fetched
  BY DEF NewContact, NewMatter, CRMStays
<1>3. FetchedRight'
  BY <1>1, <1>2, FetchedSame DEF AloneRight
<1>4. QED BY <1>1, <1>2, <1>3, AllSame

\* A fetch is read list by list; what it has of a matter's contacts is the matter's.
LEMMA EmptyRows == RowsRight(<<>>)
<1>1. <<>> \in Seq(Row) /\ Len(<<>>) = 0
  BY EmptySeq
<1>2. 1..0 = {}
  OBVIOUS
<1>3. QED BY <1>1, <1>2 DEF RowsRight

LEMMA ListingStep ==
    ASSUME ProviderTypes, AloneRight, ListContacts \/ ListRelationships \/ ListMatters \/ FetchFails
    PROVE  AloneRight'
<1>1. /\ CRMStays /\ ProviderStays /\ upload' = upload /\ saving' = saving /\ leaving' = leaving
      /\ provider' = provider
  BY DEF ListContacts, ListRelationships, ListMatters, FetchFails, CRMStays, ProviderStays
<1>2. FetchedRight /\ fetched.rows \in Seq(Row)
  BY DEF AloneRight, FetchedRight
<1>3. /\ fetched' \in [step : {"none", "contacts", "relationships", "read", "built"}, contacts : SUBSET Clients,
                       parties : SUBSET (OldMatters \X Clients), matters : SUBSET OldMatters, rows : {<<>>, fetched.rows}]
      /\ \A m \in OldMatters : \A p \in Clients : <<m, p>> \in fetched'.parties => p \in provider.parties[m]
  <2>1. NotFetching \in [step : {"none"}, contacts : {{}}, parties : {{}}, matters : {{}}, rows : {<<>>}]
    BY DEF NotFetching
  <2>2. CASE ListContacts
    <3>1. fetched' = [NotFetching EXCEPT !.step = "contacts", !.contacts = provider.contacts]
      BY <2>2 DEF ListContacts
    <3>2. provider.contacts \in SUBSET Clients
      BY DEF ProviderTypes
    <3>3. fetched' \in [step : {"contacts"}, contacts : SUBSET Clients, parties : {{}}, matters : {{}}, rows : {<<>>}]
      BY <2>1, <3>1, <3>2
    <3>4. QED BY <3>3
  <2>3. CASE ListRelationships
    <3>1. PICK pairs : pairs = {mc \in provider.there \X provider.contacts : mc[2] \in provider.parties[mc[1]]}
      OBVIOUS
    <3>2. fetched' = [fetched EXCEPT !.step = "relationships", !.parties = pairs]
      BY <2>3, <3>1 DEF ListRelationships
    <3>3. provider.there \subseteq OldMatters /\ provider.contacts \subseteq Clients
      BY DEF ProviderTypes
    <3>4. pairs \in SUBSET (OldMatters \X Clients)
      BY <3>1, <3>3
    <3>5. \A m \in OldMatters : \A p \in Clients : <<m, p>> \in pairs => p \in provider.parties[m]
      BY <3>1
    <3>6. fetched' \in [step : {"relationships"}, contacts : SUBSET Clients, parties : {pairs}, matters : SUBSET OldMatters, rows : {fetched.rows}]
      BY <1>2, <3>2 DEF FetchedRight
    <3>7. QED BY <3>4, <3>5, <3>6
  <2>4. CASE ListMatters
    <3>1. fetched' = [fetched EXCEPT !.step = "read", !.matters = provider.there]
      BY <2>4 DEF ListMatters
    <3>2. provider.there \in SUBSET OldMatters
      BY DEF ProviderTypes
    <3>3. fetched' \in [step : {"read"}, contacts : SUBSET Clients, parties : {fetched.parties}, matters : SUBSET OldMatters, rows : {fetched.rows}]
      BY <1>2, <3>1, <3>2 DEF FetchedRight
    <3>4. fetched.parties \in SUBSET (OldMatters \X Clients)
      BY <1>2 DEF FetchedRight
    <3>5. QED BY <1>2, <3>3, <3>4 DEF FetchedRight
  <2>5. CASE FetchFails
    <3>1. fetched' = NotFetching
      BY <2>5 DEF FetchFails
    <3>2. QED BY <2>1, <3>1
  <2>6. QED BY <2>2, <2>3, <2>4, <2>5
<1>4. <<>> \in Seq(Row)
  BY EmptySeq
<1>5. RowsRight(<<>>) /\ RowsRight(fetched.rows)
  BY <1>2, EmptyRows DEF FetchedRight
<1>6. RowsRight(fetched.rows)'
  <2>1. PICK list : list = fetched'.rows
    OBVIOUS
  <2>2. RowsRight(list)
    BY <1>3, <1>5, <2>1
  <2>3. RowsRight(list)'
    BY <1>1, <2>2, RowsSame
  <2>4. QED BY <2>1, <2>3 DEF RowsRight, RowRight
<1>7. FetchedRight'
  BY <1>1, <1>2, <1>3, <1>4, <1>6 DEF FetchedRight
<1>8. QED BY <1>1, <1>7, AllSame

\* A finite set as a sequence has each element once.
LEMMA SeqOfSet ==
    ASSUME NEW S, IsFiniteSet(S)
    PROVE  /\ SetToSeq(S) \in Seq(S)
           /\ \A a, b \in 1..Len(SetToSeq(S)) : SetToSeq(S)[a] = SetToSeq(S)[b] => a = b
<1> DEFINE n == Cardinality(S)
<1>1. n \in Nat /\ ExistsBijection(1..n, S)
  BY FS_CardinalityType
<1>2. PICK f \in [1..n -> S] : IsInjective(f)
  BY <1>1 DEF ExistsBijection, Bijection, Injection
<1>3. PICK g : g = SetToSeq(S)
  OBVIOUS
<1>4. g \in [1..n -> S] /\ IsInjective(g)
  BY <1>2, <1>3 DEF SetToSeq
<1>5. g \in Seq(S)
  BY <1>1, <1>4, SeqDef
<1>6. DOMAIN g = 1..Len(g)
  BY <1>5, LenProperties
<1>7. QED BY <1>3, <1>4, <1>5, <1>6 DEF IsInjective

LEMMA ImageFinite ==
    ASSUME NEW S, IsFiniteSet(S), NEW f, DOMAIN f = S, NEW T, T = {f[x] : x \in S}
    PROVE  IsFiniteSet(T)
<1>1. PICK g : g = [x \in S |-> f[x]]
  OBVIOUS
<1>2. g \in Surjection(S, T)
  BY <1>1 DEF Surjection
<1>3. QED BY <1>2, FS_Surjection

LEMMA FetchRowRight ==
    ASSUME ProviderTypes, FetchedRight
    PROVE  /\ \A m \in OldMatters : RowRight(MatterRow(m)) /\ MatterRow(m).case = m
           /\ \A c \in fetched.contacts : RowRight(ContactRow(c)) /\ ContactRow(c).case = "none"
<1>1. /\ fetched.contacts \subseteq Clients /\ provider.companies \subseteq Clients
      /\ \A c \in Clients : provider.keys[c] \in SUBSET Keys
      /\ \A m \in OldMatters : provider.client[m] \in Clients
  BY DEF ProviderTypes, FetchedRight
<1>2. "none" \notin Clients /\ "none" \notin OldMatters /\ "none" \notin Receipts /\ OldMatters \cap Receipts = {}
  BY ImportsAssumption
<1>3. \A c \in Clients : CellsOf(c) \in SUBSET Keys
  BY <1>1 DEF CellsOf
<1>4. ASSUME NEW m \in OldMatters PROVE RowRight(MatterRow(m)) /\ MatterRow(m).case = m
  <2>1. PICK c \in Clients : c = provider.client[m]
    BY <1>1
  <2>2. PICK ps : ps = {p \in Clients : <<m, p>> \in fetched.parties}
    OBVIOUS
  <2>3. PICK skips \in BOOLEAN : skips = (c \notin fetched.contacts \/ IsCompany(c))
    OBVIOUS
  <2>4. PICK r : r = [keys |-> CellsOf(c), client |-> c, case |-> m, parties |-> ps, skip |-> skips]
    OBVIOUS
  <2>5. MatterRow(m) = r
    BY <2>1, <2>2, <2>3, <2>4 DEF MatterRow, MatterRecord
  <2>6. ps \subseteq Clients /\ ps \subseteq provider.parties[m]
    BY <2>2 DEF FetchedRight
  <2>7. r \in Row
    BY <1>3, <2>4, <2>6 DEF Row
  <2>8. ~skips => c \notin provider.companies /\ CellsOf(c) = provider.keys[c]
    BY <2>3 DEF IsCompany, CellsOf
  <2>9. /\ r.keys = CellsOf(c) /\ r.client = c /\ r.case = m /\ r.parties = ps /\ r.skip = skips
    BY <2>4
  <2>10. m \notin Receipts
    BY <1>2
  <2>11. RowRight(r)
    BY <2>1, <2>6, <2>7, <2>8, <2>9, <2>10 DEF RowRight
  <2>12. QED BY <2>5, <2>9, <2>11
<1>5. ASSUME NEW c \in fetched.contacts PROVE RowRight(ContactRow(c)) /\ ContactRow(c).case = "none"
  <2>1. c \in Clients
    BY <1>1
  <2>2. PICK skips : skips = IsCompany(c)
    OBVIOUS
  <2>12. skips \in BOOLEAN
    BY <2>2 DEF IsCompany
  <2>3. PICK nothing : nothing = "none"
    OBVIOUS
  <2>4. PICK r : r = [keys |-> CellsOf(c), client |-> c, case |-> nothing, parties |-> {}, skip |-> skips]
    OBVIOUS
  <2>5. ContactRow(c) = r
    BY <2>2, <2>3, <2>4 DEF ContactRow
  <2>6. r \in Row
    BY <1>3, <2>1, <2>3, <2>4, <2>12 DEF Row
  <2>7. ~skips => c \notin provider.companies /\ CellsOf(c) = provider.keys[c]
    BY <2>2, <2>12 DEF IsCompany, CellsOf
  <2>8. r.keys = CellsOf(c) /\ r.client = c /\ r.case = nothing /\ r.parties = {} /\ r.skip = skips
    BY <2>4
  <2>9. nothing \notin OldMatters /\ nothing \notin Receipts
    BY <1>2, <2>3
  <2>10. RowRight(r)
    BY <2>6, <2>7, <2>8, <2>9 DEF RowRight
  <2>11. QED BY <2>3, <2>5, <2>8, <2>10
<1>6. QED BY <1>4, <1>5

\* Two sequences of right rows, the first of one matter each and the second of none.
LEMMA RowsJoin ==
    ASSUME NEW s, NEW t, s \in Seq(Row), t \in Seq(Row),
           \A k \in 1..Len(s) : RowRight(s[k]), \A k \in 1..Len(t) : RowRight(t[k]) /\ t[k].case \notin OldMatters,
           \A a, b \in 1..Len(s) : s[a].case = s[b].case => a = b
    PROVE  RowsRight(s \o t)
<1>1. PICK u : u = s \o t
  OBVIOUS
<1>2. /\ u \in Seq(Row) /\ Len(u) = Len(s) + Len(t) /\ Len(s) \in Nat /\ Len(t) \in Nat
      /\ \A k \in 1..Len(u) : u[k] = IF k <= Len(s) THEN s[k] ELSE t[k - Len(s)]
  BY <1>1, ConcatProperties, LenProperties
<1>3. \A k \in 1..Len(u) : \/ k \in 1..Len(s) /\ u[k] = s[k]
                           \/ k - Len(s) \in 1..Len(t) /\ u[k] = t[k - Len(s)]
  BY <1>2
<1>4. \A k \in 1..Len(u) : RowRight(u[k])
  BY <1>3
<1>5. \A j, k \in 1..Len(u) : u[j].case = u[k].case /\ u[j].case \in OldMatters => j = k
  BY <1>3
<1>6. QED BY <1>1, <1>2, <1>4, <1>5 DEF RowsRight

LEMMA RowsForRight ==
    ASSUME ProviderTypes, FetchedRight PROVE RowsRight(RowsFor)
<1> DEFINE new == fetched.matters \ ImportedBefore
           clients == {MatterRecord(m).client : m \in new}
           others == {c \in fetched.contacts : links[c] = 0} \ clients
           S == {MatterRow(m) : m \in new}
           T == {ContactRow(c) : c \in others}
<1>1. RowsFor = SetToSeq(S) \o SetToSeq(T)
  BY DEF RowsFor
<1>2. new \subseteq OldMatters /\ others \subseteq fetched.contacts /\ fetched.contacts \subseteq Clients
  BY DEF FetchedRight
<1>3. IsFiniteSet(new) /\ IsFiniteSet(others)
  <2>1. others \subseteq Clients
    BY <1>2
  <2> HIDE DEF new, others
  <2>2. QED BY <1>2, <2>1, FS_Subset, ImportsAssumption
<1> HIDE DEF new, clients, others
<1>4. IsFiniteSet(S)
  <2>1. PICK f : f = [m \in new |-> MatterRow(m)]
    OBVIOUS
  <2>2. DOMAIN f = new /\ S = {f[m] : m \in new}
    BY <2>1
  <2> HIDE DEF S
  <2>3. QED BY <1>3, <2>2, ImageFinite
<1>5. IsFiniteSet(T)
  <2>1. PICK f : f = [c \in others |-> ContactRow(c)]
    OBVIOUS
  <2>2. DOMAIN f = others /\ T = {f[c] : c \in others}
    BY <2>1
  <2> HIDE DEF T
  <2>3. QED BY <1>3, <2>2, ImageFinite
<1>6. \A r \in S : \E m \in new : r = MatterRow(m) /\ r.case = m /\ RowRight(r)
  BY <1>2, FetchRowRight
<1>7. \A r \in T : RowRight(r) /\ r.case \notin OldMatters
  <2>1. \A c \in others : RowRight(ContactRow(c)) /\ ContactRow(c).case = "none"
    BY <1>2, FetchRowRight
  <2>2. "none" \notin OldMatters
    BY ImportsAssumption
  <2>3. QED BY <2>1, <2>2
<1> HIDE DEF S, T
<1>8. PICK s, t : s = SetToSeq(S) /\ t = SetToSeq(T)
  OBVIOUS
<1>9. /\ s \in Seq(S) /\ t \in Seq(T)
      /\ \A a, b \in 1..Len(s) : s[a] = s[b] => a = b
  BY <1>4, <1>5, <1>8, SeqOfSet
<1>10. (\A k \in 1..Len(s) : s[k] \in S) /\ (\A k \in 1..Len(t) : t[k] \in T)
  BY <1>9, ElementOfSeq
<1>11. S \subseteq Row /\ T \subseteq Row
  BY <1>6, <1>7 DEF RowRight
<1>12. s \in Seq(Row) /\ t \in Seq(Row)
  BY <1>9, <1>11, SeqMonotonic
<1>13. \A a, b \in 1..Len(s) : s[a].case = s[b].case => a = b
  <2>1. \A q, r \in S : q.case = r.case => q = r
    BY <1>6
  <2>2. QED BY <1>9, <1>10, <2>1
<1>14. RowsRight(s \o t)
  BY <1>6, <1>7, <1>10, <1>12, <1>13, RowsJoin
<1>15. QED BY <1>1, <1>8, <1>14

LEMMA FetchStep ==
    ASSUME ProviderTypes, AloneRight, Fetch PROVE AloneRight'
<1>1. /\ CRMStays /\ ProviderStays /\ upload' = upload /\ saving' = saving /\ leaving' = leaving
      /\ provider' = provider
  BY DEF Fetch, CRMStays, ProviderStays
<1>2. PICK list : list = RowsFor
  OBVIOUS
<1>3. RowsRight(list)
  BY <1>2, RowsForRight DEF AloneRight
<1>4. fetched' = [NotFetching EXCEPT !.step = "built", !.rows = list] \/ fetched' = NotFetching
  BY <1>2 DEF Fetch
<1>5. NotFetching \in [step : {"none"}, contacts : {{}}, parties : {{}}, matters : {{}}, rows : {<<>>}]
  BY DEF NotFetching
<1>6. fetched' \in [step : {"none", "built"}, contacts : {{}}, parties : {{}}, matters : {{}}, rows : {<<>>, list}]
  BY <1>4, <1>5
<1>7. RowsRight(fetched.rows)'
  <2>1. PICK more : more = fetched'.rows
    OBVIOUS
  <2>2. RowsRight(more)
    BY <1>3, <1>6, <2>1, EmptyRows
  <2>3. RowsRight(more)'
    BY <1>1, <2>2, RowsSame
  <2>4. QED BY <2>1, <2>3 DEF RowsRight, RowRight
<1>8. <<>> \in Seq(Row) /\ list \in Seq(Row)
  BY <1>3, EmptySeq DEF RowsRight
<1>9. FetchedRight'
  BY <1>6, <1>7, <1>8 DEF FetchedRight
<1>10. QED BY <1>1, <1>9, AllSame

\* The imports.  The next is free, and what is not being saved may be replaced, discarded or
\* purged.
UploadRecords ==
    [status : {"none", "preparing", "imported", "gone"}, sheet : BOOLEAN, rows : Seq(Row)]

LEMMA UsedNumber == UploadsRight => Cardinality(Used) \in Nat
<1>1. IsFiniteSet(Ids)
  BY FS_Interval, ImportsAssumption DEF Ids
<1>2. Used \in SUBSET Ids
  BY DEF Used
<1>3. QED BY <1>1, <1>2, FS_Subset, FS_CardinalityType

LEMMA NextIsFree ==
    ASSUME UploadsRight, MoreIds
    PROVE  /\ NextId \in Ids /\ upload[NextId].status = "none"
           /\ \A i \in Ids : upload[i].status # "none" <=> i < NextId
<1>1. PICK n \in Nat : n = Cardinality(Used)
  BY UsedNumber
<1>2. NextId = n + 1 /\ NextId \in Ids
  BY <1>1 DEF NextId, MoreIds
<1>3. \A i \in Ids : i \in Used <=> i \in 1..n
  BY <1>1 DEF UploadsRight
<1>4. \A i \in Ids : i \in Used <=> upload[i].status # "none"
  BY DEF Used
<1>5. \A i \in Ids : i \in 1..n <=> i < n + 1
  BY ImportsAssumption DEF Ids
<1>6. ~(n + 1 < n + 1)
  OBVIOUS
<1>7. QED BY <1>2, <1>3, <1>4, <1>5, <1>6

LEMMA UsedNext ==
    ASSUME UploadsRight, MoreIds,
           \A i \in Ids : upload'[i].status # "none" <=> upload[i].status # "none" \/ i = NextId
    PROVE  Used' = 1..Cardinality(Used')
<1>1. PICK n \in Nat : n = NextId
  BY UsedNumber DEF NextId
<1>2. n \in Ids /\ \A i \in Ids : upload[i].status # "none" <=> i < n
  BY <1>1, NextIsFree
<1>3. \A i \in Ids : upload'[i].status # "none" <=> i \in 1..n
  BY <1>1, <1>2, ImportsAssumption DEF Ids
<1>4. 1..n \subseteq Ids
  BY <1>2, ImportsAssumption DEF Ids
<1>5. Used' = 1..n
  BY <1>3, <1>4 DEF Used
<1>6. Cardinality(1..n) = n
  BY <1>1, FS_Interval, <1>2, ImportsAssumption DEF Ids
<1>7. QED BY <1>5, <1>6

LEMMA UsedSame ==
    ASSUME UploadsRight, \A i \in Ids : upload'[i].status # "none" <=> upload[i].status # "none"
    PROVE  Used' = 1..Cardinality(Used')
<1>1. Used' = Used
  BY DEF Used
<1>2. QED BY <1>1 DEF UploadsRight

LEMMA UploadsMove ==
    ASSUME AloneRight, ProviderStays, CRMStays, saving' = saving, leaving' \subseteq leaving, FetchedRight',
           upload' \in [Ids -> UploadRecords], Used' = 1..Cardinality(Used'),
           \A i \in Ids : upload'[i] # upload[i] =>
              /\ ~saving[i].on /\ upload[i].status # "imported"
              /\ upload'[i].status \in {"preparing", "gone"} /\ UploadRight(i)',
           \A i, j \in Ids : i < j /\ ~upload'[i].sheet /\ ~upload'[j].sheet => upload'[i].status # "preparing"
    PROVE  AloneRight'
<1>1. CRMRight /\ PartiesRight /\ UploadsRight /\ SavingRight
  BY DEF AloneRight
<1>2. ImportedStay
  BY DEF ImportedStay
<1>3. CRMRight' /\ PartiesRight'
  BY <1>1, <1>2, CRMSame, PartiesSame
<1>4. UploadsRight'
  <2>1. \A i \in Ids : UploadRight(i)'
    BY <1>1, UploadSame DEF UploadsRight
  <2>2. \A i \in Ids : upload'[i].status = "none" => upload'[i].sheet
    BY <1>1 DEF UploadsRight
  <2>3. QED BY <2>1, <2>2 DEF UploadsRight, UploadRecords
<1>5. SavingRight'
  <2>1. \A i \in leaving : upload'[i].status \in {"preparing", "gone"}
    BY <1>1 DEF SavingRight
  <2>2. QED BY <1>1, <2>1, SavingSame
<1>6. QED BY <1>3, <1>4, <1>5 DEF AloneRight

LEMMA SheetRowsRight ==
    ASSUME NEW a \in SheetRows, NEW b \in SheetRows
    PROVE  RowsRight(<<a, b>>) /\ a.client = "none" /\ b.client = "none"
<1>1. \A r \in SheetRows : /\ r.client = "none" /\ r.case \notin OldMatters /\ r.parties = {}
                           /\ r.client \notin Clients
  BY ImportsAssumption DEF SheetRows
<1>2. \A r \in SheetRows : r \in Row
  BY DEF SheetRows, Row
<1>3. \A r \in SheetRows : RowRight(r)
  BY <1>1, <1>2 DEF RowRight
<1>4. PICK list : list = <<a, b>>
  OBVIOUS
<1>5. list \in Seq(Row) /\ Len(list) = 2 /\ list[1] = a /\ list[2] = b
  BY <1>2, <1>4
<1>6. \A k \in 1..Len(list) : list[k] = a \/ list[k] = b
  BY <1>5
<1>7. RowsRight(list)
  BY <1>1, <1>3, <1>5, <1>6 DEF RowsRight
<1>8. QED BY <1>1, <1>4, <1>7

LEMMA UploadStep ==
    ASSUME AloneRight, \E a, b \in SheetRows : Upload(<<a, b>>) PROVE AloneRight'
<1>1. PICK a \in SheetRows, b \in SheetRows : Upload(<<a, b>>)
  OBVIOUS
<1>2. PICK list : list = <<a, b>>
  OBVIOUS
<1>3. /\ MoreIds /\ upload' = [upload EXCEPT ![NextId] = [status |-> "preparing", sheet |-> TRUE, rows |-> list]]
      /\ CRMStays /\ ProviderStays /\ fetched' = fetched /\ saving' = saving /\ leaving' = leaving
  BY <1>1, <1>2 DEF Upload, CRMStays, ProviderStays
<1>4. RowsRight(list) /\ \A k \in 1..Len(list) : list[k].client = "none"
  <2>1. Len(list) = 2 /\ list[1] = a /\ list[2] = b
    BY <1>2
  <2>2. \A k \in 1..Len(list) : list[k] = a \/ list[k] = b
    BY <2>1
  <2>3. QED BY <1>2, <2>2, SheetRowsRight
<1>5. UploadsRight /\ SavingRight /\ upload \in [Ids -> UploadRecords]
  BY DEF AloneRight, UploadsRight, UploadRecords
<1>6. PICK n \in Ids : n = NextId /\ upload[n].status = "none"
  BY <1>3, <1>5, NextIsFree
<1>7. PICK r : r = [status |-> "preparing", sheet |-> TRUE, rows |-> list]
  OBVIOUS
<1>8. r \in UploadRecords /\ r.status = "preparing" /\ r.sheet = TRUE /\ r.rows = list
  <2>1. PICK yes \in BOOLEAN : yes = TRUE
    OBVIOUS
  <2>2. r = [status |-> "preparing", sheet |-> yes, rows |-> list]
    BY <1>7, <2>1
  <2>3. list \in Seq(Row)
    BY <1>4 DEF RowsRight
  <2>4. QED BY <2>1, <2>2, <2>3 DEF UploadRecords
<1>9. \A i \in Ids : upload'[i] = IF i = n THEN r ELSE upload[i]
  BY <1>3, <1>5, <1>6, <1>7
<1>10. upload' \in [Ids -> UploadRecords]
  BY <1>3, <1>5, <1>6, <1>7, <1>8
<1>11. Used' = 1..Cardinality(Used')
  <2>1. \A i \in Ids : upload'[i].status # "none" <=> upload[i].status # "none" \/ i = NextId
    BY <1>6, <1>8, <1>9
  <2>2. QED BY <1>3, <1>5, <2>1, UsedNext
<1>12. UploadRight(n)'
  <2>1. upload'[n].rows = list /\ upload'[n].status = "preparing"
    BY <1>8, <1>9
  <2>2. RowsRight(list)'
    BY <1>3, <1>4, RowsSame
  <2>3. RowsRight(upload[n].rows)'
    BY <2>1, <2>2 DEF RowsRight, RowRight
  <2>4. QED BY <1>4, <2>1, <2>3 DEF UploadRight
<1>13. ~saving[n].on
  BY <1>5, <1>6 DEF SavingRight
<1>14. FetchedRight'
  BY <1>3, FetchedSame DEF AloneRight
<1>15. \A i, j \in Ids : i < j /\ ~upload'[i].sheet /\ ~upload'[j].sheet => upload'[i].status # "preparing"
  BY <1>5, <1>8, <1>9 DEF UploadsRight
<1>16. \A i \in Ids : upload'[i] # upload[i] =>
          /\ ~saving[i].on /\ upload[i].status # "imported"
          /\ upload'[i].status \in {"preparing", "gone"} /\ UploadRight(i)'
  BY <1>6, <1>8, <1>9, <1>12, <1>13
<1>17. QED BY <1>3, <1>10, <1>11, <1>14, <1>15, <1>16, UploadsMove

LEMMA GoneRight ==
    ASSUME NEW i \in Ids, upload'[i].status = "gone", upload'[i].rows = <<>>, provider' = provider PROVE UploadRight(i)'
<1>1. ProviderStays
  BY DEF ProviderStays
<1>2. PICK list : list = <<>>
  OBVIOUS
<1>3. RowsRight(list)'
  BY <1>1, <1>2, EmptyRows, RowsSame
<1>4. RowsRight(upload[i].rows)'
  BY <1>2, <1>3 DEF RowsRight, RowRight
<1>5. Len(upload'[i].rows) = 0
  BY EmptySeq
<1>6. 1..0 = {}
  OBVIOUS
<1>7. QED BY <1>4, <1>5, <1>6 DEF UploadRight

LEMMA StoreFetchStep ==
    ASSUME ProviderTypes, AloneRight, StoreFetch PROVE AloneRight'
<1>1. /\ MoreIds /\ \A i \in Saving : upload[i].sheet
      /\ CRMStays /\ ProviderStays /\ fetched' = NotFetching /\ saving' = saving /\ leaving' = leaving /\ provider' = provider
  <2>1. MoreIds /\ \A i \in Saving : upload[i].sheet
    BY DEF StoreFetch
  <2>2. fetched' = NotFetching
    BY DEF StoreFetch
  <2>3. UNCHANGED <<provider, people, links, cases, parties, saving, leaving>>
    BY DEF StoreFetch
  <2>4. QED BY <2>1, <2>2, <2>3 DEF CRMStays, ProviderStays
<1>2. PICK list : list = fetched.rows
  OBVIOUS
<1>3. RowsRight(list)
  BY <1>2 DEF AloneRight, FetchedRight
<1>4. UploadsRight /\ SavingRight /\ upload \in [Ids -> UploadRecords]
  BY DEF AloneRight, UploadsRight, UploadRecords
<1>5. PICK n \in Ids : n = NextId /\ upload[n].status = "none"
  BY <1>1, <1>4, NextIsFree
<1>6. PICK r : r = [status |-> "preparing", sheet |-> FALSE, rows |-> list]
  OBVIOUS
<1>7. r \in UploadRecords /\ r.status = "preparing" /\ r.sheet = FALSE /\ r.rows = list
  <2>1. PICK no \in BOOLEAN : no = FALSE
    OBVIOUS
  <2>2. r = [status |-> "preparing", sheet |-> no, rows |-> list]
    BY <1>6, <2>1
  <2>3. list \in Seq(Row)
    BY <1>3 DEF RowsRight
  <2>4. QED BY <2>1, <2>2, <2>3 DEF UploadRecords
<1> DEFINE Old(i) == upload[i].status = "preparing" /\ ~upload[i].sheet
           gone(i) == [upload[i] EXCEPT !.status = "gone", !.rows = <<>>]
<1>8. upload' = [i \in Ids |-> IF i = n THEN r ELSE IF Old(i) THEN gone(i) ELSE upload[i]]
  BY <1>2, <1>5, <1>6 DEF StoreFetch
<1>9. \A i \in Ids : gone(i) \in UploadRecords /\ gone(i).status = "gone" /\ gone(i).rows = <<>> /\ gone(i).sheet = upload[i].sheet
  <2>1. <<>> \in Seq(Row)
    BY EmptySeq
  <2>2. QED BY <1>4, <2>1 DEF UploadRecords
<1> HIDE DEF gone
<1>10. upload' \in [Ids -> UploadRecords]
  BY <1>4, <1>7, <1>8, <1>9
<1>11. /\ upload'[n] = r
       /\ \A i \in Ids : i # n => upload'[i] = IF Old(i) THEN gone(i) ELSE upload[i]
  BY <1>8
<1>12. Used' = 1..Cardinality(Used')
  <2>1. \A i \in Ids : upload'[i].status # "none" <=> upload[i].status # "none" \/ i = NextId
    BY <1>5, <1>7, <1>9, <1>11
  <2>2. QED BY <1>1, <1>4, <2>1, UsedNext
<1>13. FetchedRight'
  <2>1. NotFetching \in [step : {"none"}, contacts : {{}}, parties : {{}}, matters : {{}}, rows : {<<>>}]
    BY DEF NotFetching
  <2>2. fetched' \in [step : {"none"}, contacts : {{}}, parties : {{}}, matters : {{}}, rows : {<<>>}]
    BY <1>1, <2>1
  <2>3. RowsRight(fetched.rows)'
    <3>1. PICK more : more = <<>>
      OBVIOUS
    <3>2. RowsRight(more)'
      BY <1>1, <3>1, EmptyRows, RowsSame
    <3>3. fetched'.rows = more
      BY <2>2, <3>1
    <3>4. QED BY <3>2, <3>3 DEF RowsRight, RowRight
  <2>4. <<>> \in Seq(Row)
    BY EmptySeq
  <2>5. QED BY <2>2, <2>3, <2>4 DEF FetchedRight
<1>14. UploadRight(n)'
  <2>1. upload'[n].rows = list /\ upload'[n].status = "preparing" /\ ~upload'[n].sheet
    BY <1>7, <1>11
  <2>2. RowsRight(list)'
    BY <1>1, <1>3, RowsSame
  <2>3. RowsRight(upload[n].rows)'
    BY <2>1, <2>2 DEF RowsRight, RowRight
  <2>4. QED BY <2>1, <2>3 DEF UploadRight
<1>15. ASSUME NEW i \in Ids, upload'[i] # upload[i]
       PROVE  /\ ~saving[i].on /\ upload[i].status # "imported"
              /\ upload'[i].status \in {"preparing", "gone"} /\ UploadRight(i)'
  <2>1. CASE i = n
    <3>1. ~saving[i].on
      BY <1>4, <1>5, <2>1 DEF SavingRight
    <3>2. QED BY <1>5, <1>7, <1>11, <1>14, <2>1, <3>1
  <2>2. CASE i # n
    <3>1. Old(i) /\ upload'[i] = gone(i)
      BY <1>11, <1>15, <2>2
    <3>2. ~saving[i].on
      BY <1>1, <3>1 DEF Saving
    <3>3. upload'[i].status = "gone" /\ upload'[i].rows = <<>>
      BY <1>9, <3>1
    <3>4. UploadRight(i)'
      BY <1>1, <3>3, GoneRight
    <3>5. QED BY <3>1, <3>2, <3>3, <3>4
  <2>3. QED BY <2>1, <2>2
<1>16. ASSUME NEW i \in Ids, NEW j \in Ids, i < j, ~upload'[i].sheet, ~upload'[j].sheet
       PROVE  upload'[i].status # "preparing"
  <2>1. CASE i = n
    <3>1. upload[j].status = "none"
      <4>1. \A k \in Ids : upload[k].status # "none" <=> k < n
        BY <1>1, <1>4, <1>5, NextIsFree
      <4>2. ~(j < n)
        BY <1>16, <2>1, ImportsAssumption DEF Ids
      <4>3. QED BY <4>1, <4>2
    <3>2. upload[j].sheet /\ j # n
      BY <1>4, <1>16, <2>1, <3>1, ImportsAssumption DEF UploadsRight, Ids
    <3>3. upload'[j] = upload[j]
      BY <1>11, <3>2
    <3>4. QED BY <1>16, <3>2, <3>3
  <2>2. CASE i # n /\ Old(i)
    BY <1>9, <1>11, <2>2
  <2>3. CASE i # n /\ ~Old(i)
    <3>1. upload'[i] = upload[i]
      BY <1>11, <2>3
    <3>2. QED BY <1>16, <2>3, <3>1
  <2>4. QED BY <2>1, <2>2, <2>3
<1>17. \A i \in Ids : upload'[i] # upload[i] =>
          /\ ~saving[i].on /\ upload[i].status # "imported"
          /\ upload'[i].status \in {"preparing", "gone"} /\ UploadRight(i)'
  BY <1>15
<1>18. QED BY <1>1, <1>10, <1>12, <1>13, <1>16, <1>17, UploadsMove

\* One that is not being saved, or saved, goes.
LEMMA GoesStep ==
    ASSUME AloneRight, NEW i \in Ids, ~saving[i].on, upload[i].status \in {"preparing", "gone"},
           upload' = [upload EXCEPT ![i].status = "gone", ![i].rows = <<>>],
           leaving' \subseteq leaving, provider' = provider, CRMStays, fetched' = fetched, saving' = saving
    PROVE  AloneRight'
<1>1. ProviderStays
  BY DEF ProviderStays
<1>2. UploadsRight /\ SavingRight /\ upload \in [Ids -> UploadRecords]
  BY DEF AloneRight, UploadsRight, UploadRecords
<1>3. <<>> \in Seq(Row)
  BY EmptySeq
<1>4. /\ upload' \in [Ids -> UploadRecords]
      /\ \A j \in Ids : j # i => upload'[j] = upload[j]
      /\ upload'[i].status = "gone" /\ upload'[i].rows = <<>> /\ upload'[i].sheet = upload[i].sheet
  BY <1>2, <1>3 DEF UploadRecords
<1>5. Used' = 1..Cardinality(Used')
  <2>1. \A j \in Ids : upload'[j].status # "none" <=> upload[j].status # "none"
    BY <1>4
  <2>2. QED BY <1>2, <2>1, UsedSame
<1>6. UploadRight(i)'
  BY <1>4, GoneRight
<1>7. \A j, k \in Ids : j < k /\ ~upload'[j].sheet /\ ~upload'[k].sheet => upload'[j].status # "preparing"
  <2>1. \A j \in Ids : upload'[j].sheet = upload[j].sheet /\ (upload'[j].status = upload[j].status \/ upload'[j].status = "gone")
    BY <1>4
  <2>2. QED BY <1>2, <2>1 DEF UploadsRight
<1>8. FetchedRight'
  BY <1>1, FetchedSame DEF AloneRight
<1>9. \A j \in Ids : upload'[j] # upload[j] =>
          /\ ~saving[j].on /\ upload[j].status # "imported"
          /\ upload'[j].status \in {"preparing", "gone"} /\ UploadRight(j)'
  BY <1>4, <1>6
<1>10. QED BY <1>1, <1>4, <1>5, <1>7, <1>8, <1>9, UploadsMove

LEMMA DiscardStep ==
    ASSUME AloneRight, NEW i \in Ids, Discard(i) \/ Purge(i) PROVE AloneRight'
<1>1. CASE Discard(i)
  <2>1. /\ i \in leaving /\ ~saving[i].on /\ leaving' = leaving \ {i}
        /\ upload' = [upload EXCEPT ![i].status = "gone", ![i].rows = <<>>]
        /\ provider' = provider /\ CRMStays /\ fetched' = fetched /\ saving' = saving
    BY <1>1 DEF Discard, CRMStays
  <2>2. upload[i].status \in {"preparing", "gone"}
    BY <2>1 DEF AloneRight, SavingRight
  <2>3. leaving' \subseteq leaving
    BY <2>1
  <2>4. QED BY <2>1, <2>2, <2>3, GoesStep
<1>2. CASE Purge(i)
  <2>1. /\ upload[i].status = "preparing" /\ ~saving[i].on /\ leaving' = leaving
        /\ upload' = [upload EXCEPT ![i].status = "gone", ![i].rows = <<>>]
        /\ provider' = provider /\ CRMStays /\ fetched' = fetched /\ saving' = saving
    BY <1>2 DEF Purge, CRMStays
  <2>2. leaving' \subseteq leaving
    BY <2>1
  <2>3. QED BY <2>1, <2>2, GoesStep
<1>3. QED BY <1>1, <1>2

\* An import is saved, by itself, or is not; and a plan is right when it is made.
LEMMA SavingMoves ==
    ASSUME AloneRight, provider' = provider, CRMStays, upload' = upload, fetched' = fetched, SavingRight'
    PROVE  AloneRight'
<1>1. ProviderStays /\ ImportedStay
  BY DEF ProviderStays, ImportedStay
<1>2. QED BY <1>1, CRMSame, PartiesSame, UploadsSame, FetchedSame DEF AloneRight

LEMMA ConfirmStep ==
    ASSUME ProviderTypes, AloneRight, NEW i \in Ids, Confirm(i), ~beside' PROVE AloneRight'
<1>1. /\ upload[i].status = "preparing" /\ saving' = [saving EXCEPT ![i] = PlanOf(i)]
      /\ Saving = {} /\ i \notin leaving
      /\ provider' = provider /\ CRMStays /\ upload' = upload /\ fetched' = fetched /\ leaving' = leaving
  BY DEF Confirm, CRMStays
<1>2. CRMKeeps /\ UploadsRight /\ SavingRight
  BY DEF AloneRight, CRMRight, CRMKeeps
<1>3. PICK list, k : list = upload[i].rows /\ k = Len(list)
  OBVIOUS
<1>4. RowsRight(list)
  BY <1>2, <1>3 DEF UploadsRight, UploadRight
<1>5. PICK plan : plan = PlanOf(i)
  OBVIOUS
<1>6. PlanRight(plan, i, list, k)
  BY <1>2, <1>3, <1>4, <1>5, PlanOfRight
<1>7. ProviderStays
  BY <1>1 DEF ProviderStays
<1>8. PlanRight(plan, i, list, k)'
  BY <1>1, <1>6, <1>7, PlanSame
<1>9. plan.on = TRUE
  BY <1>6 DEF PlanRight, PlanShape
<1>10. /\ saving' = [saving EXCEPT ![i] = plan] /\ saving = [j \in Ids |-> saving[j]]
       /\ \A j \in Ids : ~saving[j].on
  BY <1>1, <1>2, <1>5 DEF SavingRight, Saving
<1>11. /\ saving' = [j \in Ids |-> saving'[j]] /\ saving'[i] = plan
       /\ \A j \in Ids : j # i => saving'[j] = saving[j]
  BY <1>10
<1>12. \A j \in Ids : saving'[j].on => j = i
  BY <1>10, <1>11
<1>13. PlanRight(saving[i], i, upload[i].rows, Len(upload[i].rows))'
  <2>1. saving'[i] = plan /\ upload'[i].rows = list /\ Len(upload'[i].rows) = k
    BY <1>1, <1>3, <1>11
  <2>2. QED BY <1>8, <2>1 DEF PlanRight, PlanShape, PlanFolk, PlanLinks, PlanCases, PlanCovers, FolkWith, CasesWith
<1>14. \A j \in Ids : saving'[j].on \in BOOLEAN
  BY <1>2, <1>9, <1>11 DEF SavingRight
<1>15. ASSUME NEW j \in Ids, saving'[j].on
       PROVE  /\ upload'[j].status = "preparing" /\ j \notin leaving'
              /\ PlanRight(saving[j], j, upload[j].rows, Len(upload[j].rows))'
  <2>1. j = i
    BY <1>12, <1>15
  <2>2. QED BY <1>1, <1>13, <2>1
<1>16. leaving' \subseteq Ids /\ \A j \in leaving' : upload'[j].status \in {"preparing", "gone"}
  BY <1>1, <1>2 DEF SavingRight
<1>17. SavingRight'
  BY <1>11, <1>12, <1>14, <1>15, <1>16 DEF SavingRight
<1>18. QED BY <1>1, <1>17, SavingMoves

LEMMA RollBackStep ==
    ASSUME AloneRight, NEW i \in Ids, RollBack(i) PROVE AloneRight'
<1>1. /\ saving[i].on /\ saving' = [saving EXCEPT ![i] = NoPlan]
      /\ provider' = provider /\ CRMStays /\ upload' = upload /\ fetched' = fetched /\ leaving' = leaving
  BY DEF RollBack, CRMStays
<1>2. SavingRight /\ saving = [j \in Ids |-> saving[j]]
  BY DEF AloneRight, SavingRight
<1>3. PICK off : off = NoPlan
  OBVIOUS
<1>4. off.on = FALSE
  BY <1>3 DEF NoPlan
<1>5. /\ saving' = [j \in Ids |-> saving'[j]] /\ saving'[i] = off
      /\ \A j \in Ids : j # i => saving'[j] = saving[j]
  BY <1>1, <1>2, <1>3
<1>6. \A j \in Ids : ~saving'[j].on /\ saving'[j].on \in BOOLEAN
  BY <1>1, <1>2, <1>4, <1>5 DEF SavingRight
<1>7. leaving' \subseteq Ids /\ \A j \in leaving' : upload'[j].status \in {"preparing", "gone"}
  BY <1>1, <1>2 DEF SavingRight
<1>8. SavingRight'
  BY <1>5, <1>6, <1>7 DEF SavingRight
<1>9. QED BY <1>1, <1>8, SavingMoves

LEMMA LookToDiscardStep ==
    ASSUME AloneRight, NEW i \in Ids, LookToDiscard(i), ~beside' PROVE AloneRight'
<1>1. /\ upload[i].status = "preparing" /\ leaving' = leaving \cup {i} /\ ~saving[i].on
      /\ provider' = provider /\ CRMStays /\ upload' = upload /\ fetched' = fetched /\ saving' = saving
  BY DEF LookToDiscard, CRMStays
<1>2. SavingRight /\ ProviderStays
  BY <1>1 DEF AloneRight, ProviderStays
<1>3. ASSUME NEW j \in Ids, saving'[j].on
      PROVE  /\ upload'[j].status = "preparing" /\ j \notin leaving'
             /\ PlanRight(saving[j], j, upload[j].rows, Len(upload[j].rows))'
  <2>1. saving[j].on
    BY <1>1, <1>3
  <2>2. PICK plan, list : plan = saving[j] /\ list = upload[j].rows
    OBVIOUS
  <2>3. PICK k : k = Len(list)
    OBVIOUS
  <2>4. PlanRight(plan, j, list, k) /\ upload[j].status = "preparing" /\ j \notin leaving
    BY <1>2, <2>1, <2>2, <2>3 DEF SavingRight
  <2>5. PlanRight(plan, j, list, k)'
    BY <1>1, <1>2, <2>4, PlanSame
  <2>6. plan = saving'[j] /\ list = upload'[j].rows /\ k = Len(upload'[j].rows)
    BY <1>1, <2>2, <2>3
  <2>7. PlanRight(saving[j], j, upload[j].rows, Len(upload[j].rows))'
    BY <2>5, <2>6 DEF PlanRight, PlanShape, PlanFolk, PlanLinks, PlanCases, PlanCovers, FolkWith, CasesWith
  <2>8. j # i
    BY <1>1, <2>1
  <2>9. QED BY <1>1, <2>4, <2>7, <2>8
<1>4. leaving' \subseteq Ids /\ \A j \in leaving' : upload'[j].status \in {"preparing", "gone"}
  BY <1>1, <1>2 DEF SavingRight
<1>5. SavingRight'
  BY <1>1, <1>2, <1>3, <1>4 DEF SavingRight
<1>6. QED BY <1>1, <1>5, SavingMoves

\* An import commits: the CRM has then what it and the plan hold together.
LEMMA NumberKept ==
    ASSUME NEW plan, PlanFolk(plan), NEW n PROVE Renumbered(plan, n) = n
<1>1. CASE \E p \in plan.people : p.n = n
  <2>1. PICK p \in plan.people : p.n = n
    BY <1>1
  <2>2. p.n = Cardinality(people) + Cardinality({q \in plan.people : q.n <= p.n})
    BY DEF PlanFolk
  <2>3. QED BY <1>1, <2>1, <2>2 DEF Renumbered
<1>2. CASE ~ \E p \in plan.people : p.n = n
  BY <1>2 DEF Renumbered
<1>3. QED BY <1>1, <1>2

PlanSaved(plan, i) ==
    /\ people' = FolkWith(plan) /\ cases' = CasesWith(plan) /\ links' = plan.links
    /\ parties' = parties \cup AddedParties(upload[i].rows, cases' \ cases, links')
    /\ upload' = [upload EXCEPT ![i].status = "imported"]
    /\ saving' = [saving EXCEPT ![i] = NoPlan]
    /\ provider' = provider /\ fetched' = fetched /\ leaving' = leaving

LEMMA CommitFacts ==
    ASSUME AloneRight, NEW i \in Ids, CommitImport(i), NEW plan, plan = saving[i]
    PROVE  /\ saving[i].on /\ PlanRight(plan, i, upload[i].rows, Len(upload[i].rows)) /\ upload[i].status = "preparing"
           /\ Cardinality(FolkWith(plan)) <= MaxPeople /\ PlanSaved(plan, i)
<1>1. /\ saving[i].on /\ Cardinality(people) + Cardinality(plan.people) <= MaxPeople
      /\ people' = people \cup {[p EXCEPT !.n = Renumbered(plan, p.n)] : p \in plan.people}
      /\ cases' = cases \cup {[c EXCEPT !.of = Renumbered(plan, c.of)] : c \in plan.cases}
      /\ links' = [c \in Clients |-> IF plan.links[c] = NoPlan.links[c] THEN links[c] ELSE Renumbered(plan, plan.links[c])]
      /\ parties' = parties \cup AddedParties(upload[i].rows, cases' \ cases, links')
      /\ upload' = [upload EXCEPT ![i].status = "imported"]
      /\ saving' = [saving EXCEPT ![i] = NoPlan]
      /\ provider' = provider /\ fetched' = fetched /\ leaving' = leaving
  BY DEF CommitImport
<1>2. PlanRight(plan, i, upload[i].rows, Len(upload[i].rows)) /\ upload[i].status = "preparing"
  BY <1>1 DEF AloneRight, SavingRight
<1>3. PlanFolk(plan) /\ PlanLinks(plan) /\ PlanCases(plan, i, upload[i].rows, Len(upload[i].rows))
  BY <1>2 DEF PlanRight
<1>4. \A n : Renumbered(plan, n) = n
  BY <1>3, NumberKept
<1>5. people' = FolkWith(plan)
  <2>1. \A p \in plan.people : p = [n |-> p.n, keys |-> p.keys]
    BY <1>3 DEF PlanFolk, FolkRight, FolkWith
  <2>2. \A p \in plan.people : [p EXCEPT !.n = p.n] = p
    BY <2>1
  <2>3. \A p \in plan.people : [p EXCEPT !.n = Renumbered(plan, p.n)] = p
    BY <1>4, <2>2
  <2>4. {[p EXCEPT !.n = Renumbered(plan, p.n)] : p \in plan.people} = plan.people
    BY <2>3
  <2>5. QED BY <1>1, <2>4 DEF FolkWith
<1>6. cases' = CasesWith(plan)
  <2>1. \A c \in plan.cases : c = [case |-> c.case, of |-> c.of, by |-> c.by]
    BY <1>3 DEF PlanCases, CasesRight, CasesWith
  <2>2. \A c \in plan.cases : [c EXCEPT !.of = c.of] = c
    BY <2>1
  <2>3. \A c \in plan.cases : [c EXCEPT !.of = Renumbered(plan, c.of)] = c
    BY <1>4, <2>2
  <2>4. {[c EXCEPT !.of = Renumbered(plan, c.of)] : c \in plan.cases} = plan.cases
    BY <2>3
  <2>5. QED BY <1>1, <2>4 DEF CasesWith
<1>7. links' = plan.links
  <2>1. \A c \in Clients : NoPlan.links[c] = 0
    BY DEF NoPlan
  <2>2. plan.links \in [Clients -> Nat] /\ \A c \in Clients : links[c] # 0 => plan.links[c] # 0
    BY <1>3 DEF PlanLinks, LinksRight
  <2>3. \A c \in Clients : links'[c] = plan.links[c]
    BY <1>1, <1>4, <2>1, <2>2
  <2>4. links' = [c \in Clients |-> links'[c]]
    BY <1>1
  <2>5. QED BY <2>2, <2>3, <2>4
<1>8. Cardinality(FolkWith(plan)) <= MaxPeople
  BY <1>1, <1>3 DEF PlanFolk
<1>9. QED BY <1>1, <1>2, <1>5, <1>6, <1>7, <1>8 DEF PlanSaved

LEMMA CommittedCRM ==
    ASSUME AloneRight, NEW i \in Ids, NEW plan, NEW list, NEW k, PlanRight(plan, i, list, k), upload[i].status = "preparing",
           Cardinality(FolkWith(plan)) <= MaxPeople, PlanSaved(plan, i)
    PROVE  CRMRight'
<1>1. PICK folk, files, known : folk = FolkWith(plan) /\ files = CasesWith(plan) /\ known = plan.links
  OBVIOUS
<1>2. people' = folk /\ cases' = files /\ links' = known /\ ProviderStays
  BY <1>1 DEF PlanSaved, ProviderStays
<1>3. FolkRight(folk) /\ LinksRight(known, folk) /\ CasesRight(files, known, folk) /\ Cardinality(folk) <= MaxPeople
  BY <1>1 DEF PlanRight, PlanFolk, PlanLinks, PlanCases
<1>4. FolkRight(folk)' /\ LinksRight(known, folk)' /\ CasesRight(files, known, folk)'
  BY <1>2, <1>3, LinksSame, CasesSame DEF FolkRight
<1>5. FolkRight(people)'
  BY <1>2, <1>4 DEF FolkRight
<1>6. LinksRight(links, people)'
  BY <1>2, <1>4 DEF LinksRight, Finds, Means
<1>7. CasesRight(cases, links, people)'
  BY <1>2, <1>4 DEF CasesRight, Finds, Means, Keyless
<1>8. ASSUME NEW c \in cases' PROVE upload'[c.by].status = "imported"
  <2>1. upload' = [upload EXCEPT ![i].status = "imported"] /\ upload \in [Ids -> UploadRecords]
    BY DEF PlanSaved, AloneRight, UploadsRight, UploadRecords
  <2>2. upload'[i].status = "imported" /\ \A j \in Ids : j # i => upload'[j] = upload[j]
    BY <2>1 DEF UploadRecords
  <2>3. CASE c \in cases
    <3>1. c.by \in Ids /\ upload[c.by].status = "imported"
      BY <2>3 DEF AloneRight, CRMRight, CasesRight
    <3>2. QED BY <2>2, <3>1
  <2>4. CASE c \in plan.cases
    BY <2>2, <2>4 DEF PlanRight, PlanCases
  <2>5. QED BY <1>1, <1>2, <2>3, <2>4 DEF CasesWith
<1>9. QED BY <1>2, <1>3, <1>5, <1>6, <1>7, <1>8 DEF CRMRight

\* What a commit leaves as it was: who is linked, who is unsure, and the other imports.
LEMMA CommitKeeps ==
    ASSUME AloneRight, NEW i \in Ids, NEW plan, NEW list, NEW k, PlanRight(plan, i, list, k), upload[i].status = "preparing",
           PlanSaved(plan, i)
    PROVE  /\ ProviderStays /\ people \subseteq people' /\ cases \subseteq cases' /\ parties \subseteq parties'
           /\ \A c \in Clients : /\ links[c] # 0 => links'[c] # 0
                                 /\ links[c] # 0 /\ Keyless(c) => links'[c] = links[c]
                                 /\ links'[c] # 0 => Finds(links[c], c, people)'
                                 /\ Unsure(c) => Unsure(c)'
           /\ \A j \in Ids : j # i => upload'[j] = upload[j]
           /\ upload'[i].status = "imported" /\ upload'[i].rows = upload[i].rows /\ upload'[i].sheet = upload[i].sheet
           /\ upload' \in [Ids -> UploadRecords]
<1>1. ProviderStays /\ people' = FolkWith(plan) /\ cases' = CasesWith(plan) /\ links' = plan.links
  BY DEF PlanSaved, ProviderStays
<1>2. people \subseteq people' /\ cases \subseteq cases' /\ parties \subseteq parties'
  BY <1>1 DEF FolkWith, CasesWith, PlanSaved
<1>3. ASSUME NEW c \in Clients
      PROVE  /\ links[c] # 0 => links'[c] # 0
             /\ links[c] # 0 /\ Keyless(c) => links'[c] = links[c]
             /\ links'[c] # 0 => Finds(links[c], c, people)'
             /\ Unsure(c) => Unsure(c)'
  <2>1. PlanLinks(plan)
    BY DEF PlanRight
  <2>2. links[c] # 0 => links'[c] # 0
    BY <1>1, <2>1 DEF PlanLinks
  <2>3. links[c] # 0 /\ Keyless(c) => links'[c] = links[c]
    BY <1>1, <2>1 DEF PlanLinks
  <2>4. links'[c] # 0 => Finds(links[c], c, people)'
    BY <1>1, <2>1 DEF PlanLinks, LinksRight, Finds, Means, ProviderStays
  <2>5. Unsure(c) => Unsure(c)'
    BY <1>1, <1>2 DEF Unsure, OneHas, Shares, ProviderStays
  <2>6. QED BY <2>2, <2>3, <2>4, <2>5
<1>4. upload' = [upload EXCEPT ![i].status = "imported"] /\ upload \in [Ids -> UploadRecords]
  BY DEF PlanSaved, AloneRight, UploadsRight, UploadRecords
<1>5. /\ \A j \in Ids : j # i => upload'[j] = upload[j]
      /\ upload'[i].status = "imported" /\ upload'[i].rows = upload[i].rows /\ upload'[i].sheet = upload[i].sheet
      /\ upload' \in [Ids -> UploadRecords]
  BY <1>4 DEF UploadRecords
<1>6. QED BY <1>1, <1>2, <1>3, <1>5

LEMMA CommittedParty ==
    ASSUME AloneRight, NEW i \in Ids, NEW plan, NEW list, NEW k, PlanRight(plan, i, list, k), upload[i].status = "preparing",
           PlanSaved(plan, i), NEW q \in parties'
    PROVE  PartyRight(q)' /\ q \in Parties
<1>1. /\ ProviderStays /\ people \subseteq people' /\ cases \subseteq cases'
      /\ \A c \in Clients : /\ links[c] # 0 => links'[c] # 0
                            /\ links[c] # 0 /\ Keyless(c) => links'[c] = links[c]
                            /\ links'[c] # 0 => Finds(links[c], c, people)'
  BY CommitKeeps
<1>2. CASE q \in parties
  <2>1. q \in Parties /\ PartyRight(q)
    BY <1>2 DEF AloneRight, PartiesRight
  <2>2. PICK c \in cases, p \in Clients :
          /\ c.case = q.case /\ q.of # c.of /\ p \in provider.parties[q.case]
          /\ Finds(q.of, p, people) /\ links[p] # 0 /\ (Keyless(p) => links[p] = q.of)
    BY <2>1 DEF PartyRight
  <2>3. c \in cases' /\ p \in provider'.parties[q.case] /\ links'[p] # 0
    BY <1>1, <2>2 DEF ProviderStays
  <2>4. Keyless(p)' => links'[p] = q.of
    BY <1>1, <2>2 DEF Keyless, ProviderStays
  <2>5. Finds(q.of, p, people)'
    BY <1>1, <2>2 DEF Finds, Means, ProviderStays
  <2>6. QED BY <2>1, <2>2, <2>3, <2>4, <2>5 DEF PartyRight
<1>3. CASE q \notin parties
  <2>1. PICK those : those = upload[i].rows
    OBVIOUS
  <2>2. RowsRight(those)
    BY <2>1 DEF AloneRight, UploadsRight, UploadRight
  <2>3. q \in AddedParties(those, cases' \ cases, links')
    BY <1>3, <2>1 DEF PlanSaved
  <2>4. q \in Parties
    BY <2>3 DEF AddedParties
  <2>5. PICK c \in cases' \ cases, j \in DOMAIN those, p \in Clients :
          /\ those[j].case = c.case /\ p \in those[j].parties /\ links'[p] \notin {0, c.of}
          /\ q = [case |-> c.case, of |-> links'[p]]
    BY <2>3 DEF AddedParties
  <2>6. RowRight(those[j])
    BY <2>2, LenProperties DEF RowsRight
  <2>7. p \in provider.parties[c.case]
    BY <2>5, <2>6 DEF RowRight
  <2>8. q.case = c.case /\ q.of = links'[p] /\ p \in provider'.parties[q.case]
    BY <1>1, <2>5, <2>7 DEF ProviderStays
  <2>9. Finds(q.of, p, people)'
    <3>1. Finds(links[p], p, people)'
      BY <1>1, <2>5
    <3>2. QED BY <2>8, <3>1 DEF Finds, Means
  <2>10. QED BY <2>4, <2>5, <2>8, <2>9 DEF PartyRight
<1>4. QED BY <1>2, <1>3

\* A contact of an earlier import's matter, whom it or one before had linked.
LEMMA NotThisOne ==
    ASSUME ProviderTypes, AloneRight, NEW i \in Ids, upload[i].status = "preparing",
           NEW c \in cases, NEW p \in Clients, NamedBy(c, p), NEW r \in 1..Len(upload[i].rows), upload[i].rows[r].client = p
    PROVE  ~(i < c.by)
<1>1. UploadsRight /\ c.by \in Ids
  BY DEF AloneRight, CRMRight, CasesRight
<1>2. UploadRight(i) /\ UploadRight(c.by)
  BY <1>1 DEF UploadsRight
<1>3. ~upload[i].sheet
  BY <1>2, ImportsAssumption DEF UploadRight
<1>4. ~upload[c.by].sheet
  <2>1. PICK those : those = upload[c.by].rows
    OBVIOUS
  <2>2. PICK k \in 1..Len(those) : those[k].case = c.case /\ p \in those[k].parties
    BY <2>1 DEF NamedBy
  <2>3. RowRight(those[k])
    BY <1>2, <2>1, <2>2 DEF UploadRight, RowsRight
  <2>4. those[k].client \in Clients
    BY <2>2, <2>3 DEF RowRight, ProviderTypes
  <2>5. QED BY <1>2, <2>1, <2>4, ImportsAssumption DEF UploadRight
<1>5. QED BY <1>1, <1>3, <1>4 DEF UploadsRight

LEMMA CommittedParties ==
    ASSUME ProviderTypes, AloneRight, NEW i \in Ids, NEW plan, NEW list, NEW k, PlanRight(plan, i, list, k),
           upload[i].status = "preparing", Cardinality(FolkWith(plan)) <= MaxPeople, PlanSaved(plan, i)
    PROVE  PartiesRight'
<1>1. /\ ProviderStays /\ people \subseteq people' /\ cases \subseteq cases' /\ parties \subseteq parties'
      /\ \A c \in Clients : /\ links[c] # 0 /\ Keyless(c) => links'[c] = links[c]
                            /\ links'[c] # 0 => Finds(links[c], c, people)'
                            /\ Unsure(c) => Unsure(c)'
      /\ \A j \in Ids : j # i => upload'[j] = upload[j]
      /\ upload'[i].rows = upload[i].rows
  BY CommitKeeps
<1>2. /\ people' = FolkWith(plan) /\ cases' = CasesWith(plan) /\ links' = plan.links
      /\ parties' = parties \cup AddedParties(upload[i].rows, cases' \ cases, links')
  BY DEF PlanSaved
<1>3. CRMRight /\ UploadsRight /\ PartiesRight
  BY DEF AloneRight
<1>4. \A q \in parties' : q \in Parties /\ PartyRight(q)'
  BY CommittedParty
<1>5. ASSUME NEW c \in cases', NEW p \in Clients,
             NamedBy(c, p)', links'[p] \notin {0, c.of}, LinkedBy(p, c.by)', ~Unsure(p)'
      PROVE  [case |-> c.case, of |-> links'[p]] \in parties'
  <2>1. CASE c \notin cases
    <3>1. c.by = i
      BY <1>2, <2>1 DEF CasesWith, PlanRight, PlanCases
    <3>2. PICK those : those = upload[i].rows
      OBVIOUS
    <3>3. PICK j \in 1..Len(those) : those[j].case = c.case /\ p \in those[j].parties
      BY <1>1, <1>5, <3>1, <3>2 DEF NamedBy
    <3>4. RowsRight(those)
      BY <1>3, <3>2 DEF UploadsRight, UploadRight
    <3>5. RowRight(those[j]) /\ j \in DOMAIN those
      BY <3>3, <3>4, LenProperties DEF RowsRight
    <3>6. c.case \in OldMatters
      BY <3>3, <3>5 DEF RowRight
    <3>7. links'[p] \in 1..MaxPeople
      <4>1. PICK folk : folk = FolkWith(plan)
        OBVIOUS
      <4>2. FolkRight(folk) /\ people' = folk
        BY <1>2, <4>1 DEF PlanRight, PlanFolk
      <4>3. PICK x \in folk : x.n = links'[p]
        BY <1>1, <1>5, <4>2 DEF Finds
      <4>4. x.n \in 1..Cardinality(folk) /\ Cardinality(folk) \in Nat
        BY <4>2, FS_CardinalityType DEF FolkRight
      <4>5. QED BY <4>1, <4>3, <4>4, ImportsAssumption
    <3>8. PICK q : q = [case |-> c.case, of |-> links'[p]]
      OBVIOUS
    <3>9. q \in Parties
      BY <3>6, <3>7, <3>8 DEF Parties
    <3>10. c \in cases' \ cases
      BY <2>1
    <3>11. q \in AddedParties(those, cases' \ cases, links')
      BY <1>5, <3>3, <3>5, <3>8, <3>9, <3>10 DEF AddedParties
    <3>12. QED BY <1>2, <3>2, <3>8, <3>11
  <2>2. CASE c \in cases
    <3>1. c.by \in Ids /\ upload[c.by].status = "imported" /\ c.by # i
      BY <1>3, <2>2 DEF CRMRight, CasesRight
    <3>2. upload'[c.by] = upload[c.by]
      BY <1>1, <3>1
    <3>3. NamedBy(c, p)
      BY <1>5, <3>2 DEF NamedBy
    <3>4. PICK j \in 1..c.by : /\ upload'[j].status = "imported"
                               /\ \E r \in DOMAIN upload'[j].rows :
                                     upload'[j].rows[r].client = p /\ ~upload'[j].rows[r].skip
      BY <1>5 DEF LinkedBy
    <3>5. j \in Ids /\ j <= c.by
      BY <3>1, ImportsAssumption DEF Ids
    <3>6. PICK r \in DOMAIN upload'[j].rows : upload'[j].rows[r].client = p /\ ~upload'[j].rows[r].skip
      BY <3>4
    <3>7. PICK those : those = upload[j].rows
      OBVIOUS
    <3>8. upload'[j].rows = those
      BY <1>1, <3>5, <3>7
    <3>9. RowsRight(those)
      BY <1>3, <3>5, <3>7 DEF UploadsRight, UploadRight
    <3>10. r \in 1..Len(those) /\ those[r].client = p /\ ~those[r].skip
      BY <3>6, <3>8, <3>9, LenProperties DEF RowsRight
    <3>11. j # i
      <4>1. SUFFICES ASSUME j = i PROVE FALSE
        OBVIOUS
      <4>2. i < c.by
        BY <3>1, <3>5, <4>1, ImportsAssumption DEF Ids
      <4>3. QED BY <2>2, <3>3, <3>7, <3>10, <4>1, <4>2, NotThisOne
    <3>12. upload[j].status = "imported"
      BY <1>1, <3>4, <3>5, <3>11
    <3>13. Covered(j)
      BY <1>3, <3>5, <3>12 DEF UploadsRight, UploadRight
    <3>14. ~Unsure(p)
      BY <1>1, <1>5
    <3>15. links[p] # 0
      BY <3>7, <3>10, <3>13, <3>14 DEF Covered
    <3>16. links'[p] = links[p]
      <4>1. CASE Keyless(p)
        BY <1>1, <3>15, <4>1
      <4>2. CASE ~Keyless(p)
        <5>1. PICK n, m : n = links'[p] /\ m = links[p]
          OBVIOUS
        <5>2. Finds(n, p, people)'
          <6>1. Finds(links[p], p, people)'
            BY <1>1, <1>5
          <6>2. QED BY <5>1, <6>1 DEF Finds, Means
        <5>3. Finds(m, p, people)
          BY <1>3, <3>15, <5>1 DEF CRMRight, LinksRight
        <5>4. Finds(m, p, people)'
          BY <1>1, <5>3 DEF Finds, Means, ProviderStays
        <5>5. ~Unsure(p)' /\ ~Keyless(p)'
          BY <1>1, <1>5, <4>2 DEF Keyless, ProviderStays
        <5>6. n = m
          BY <5>2, <5>4, <5>5 DEF Unsure, OneHas, Keyless, Finds, Means, Shares
        <5>7. QED BY <5>1, <5>6
      <4>3. QED BY <4>1, <4>2
    <3>17. LinkedBy(p, c.by)
      BY <3>4, <3>6, <3>7, <3>8, <3>12 DEF LinkedBy
    <3>18. [case |-> c.case, of |-> links[p]] \in parties
      BY <1>3, <1>5, <2>2, <3>3, <3>14, <3>16, <3>17 DEF PartiesRight
    <3>19. QED BY <1>1, <3>16, <3>18
  <2>3. QED BY <2>1, <2>2
<1>6. QED BY <1>4, <1>5 DEF PartiesRight, Parties

LEMMA CommittedUploads ==
    ASSUME AloneRight, NEW i \in Ids, NEW plan, NEW list, NEW k, PlanRight(plan, i, list, k), upload[i].status = "preparing",
           list = upload[i].rows, k = Len(list), PlanSaved(plan, i)
    PROVE  UploadsRight'
<1>1. /\ ProviderStays
      /\ \A c \in Clients : (links[c] # 0 => links'[c] # 0) /\ (Unsure(c) => Unsure(c)')
      /\ \A j \in Ids : j # i => upload'[j] = upload[j]
      /\ upload'[i].status = "imported" /\ upload'[i].rows = upload[i].rows /\ upload'[i].sheet = upload[i].sheet
      /\ upload' \in [Ids -> UploadRecords]
  BY CommitKeeps
<1>2. UploadsRight
  BY DEF AloneRight
<1>3. ASSUME NEW j \in Ids PROVE UploadRight(j)'
  <2>1. UploadRight(j) /\ upload'[j].rows = upload[j].rows /\ upload'[j].sheet = upload[j].sheet
    BY <1>1, <1>2 DEF UploadsRight
  <2>2. PICK those : those = upload[j].rows
    OBVIOUS
  <2>3. RowsRight(those)'
    BY <1>1, <2>1, <2>2, RowsSame DEF UploadRight
  <2>4. RowsRight(upload[j].rows)'
    BY <2>1, <2>2, <2>3 DEF RowsRight, RowRight
  <2>5. ASSUME upload'[j].status = "imported" PROVE Covered(j)'
    <3>1. \A r \in 1..Len(those) : ~those[r].skip /\ those[r].client \in Clients =>
              links'[those[r].client] # 0 \/ Unsure(those[r].client)
      <4>1. CASE j = i
        <5>1. PlanCovers(plan, list, k) /\ links' = plan.links
          BY DEF PlanSaved, PlanRight
        <5>2. QED BY <2>2, <4>1, <5>1 DEF PlanCovers
      <4>2. CASE j # i
        <5>1. Covered(j)
          BY <1>1, <2>1, <2>5, <4>2 DEF UploadRight
        <5>2. QED BY <1>1, <2>2, <5>1 DEF Covered
      <4>3. QED BY <4>1, <4>2
    <3>2. QED BY <1>1, <2>1, <2>2, <3>1 DEF Covered
  <2>6. QED BY <2>1, <2>4, <2>5 DEF UploadRight
<1>4. Used' = 1..Cardinality(Used')
  <2>1. \A j \in Ids : upload'[j].status # "none" <=> upload[j].status # "none"
    BY <1>1
  <2>2. QED BY <1>2, <2>1, UsedSame
<1>5. \A j \in Ids : upload'[j].status = "none" => upload'[j].sheet
  BY <1>1, <1>2 DEF UploadsRight
<1>6. \A j, m \in Ids : j < m /\ ~upload'[j].sheet /\ ~upload'[m].sheet => upload'[j].status # "preparing"
  BY <1>1, <1>2 DEF UploadsRight
<1>7. QED BY <1>1, <1>3, <1>4, <1>5, <1>6 DEF UploadsRight, UploadRecords

LEMMA CommittedSaving ==
    ASSUME AloneRight, NEW i \in Ids, saving[i].on, NEW plan, PlanSaved(plan, i)
    PROVE  SavingRight'
<1>1. SavingRight
  BY DEF AloneRight
<1>2. saving' = [saving EXCEPT ![i] = NoPlan] /\ leaving' = leaving /\ upload' = [upload EXCEPT ![i].status = "imported"]
  BY DEF PlanSaved
<1>3. PICK off : off = NoPlan
  OBVIOUS
<1>4. off.on = FALSE
  BY <1>3 DEF NoPlan
<1>5. /\ saving' = [j \in Ids |-> saving'[j]] /\ saving'[i] = off
      /\ \A j \in Ids : j # i => saving'[j] = saving[j]
  BY <1>1, <1>2, <1>3 DEF SavingRight
<1>6. \A j \in Ids : ~saving'[j].on /\ saving'[j].on \in BOOLEAN
  BY <1>1, <1>4, <1>5 DEF SavingRight
<1>7. i \notin leaving
  BY <1>1 DEF SavingRight
<1>8. upload \in [Ids -> UploadRecords]
  BY DEF AloneRight, UploadsRight, UploadRecords
<1>9. leaving' \subseteq Ids /\ \A j \in leaving' : upload'[j].status \in {"preparing", "gone"}
  BY <1>1, <1>2, <1>7, <1>8 DEF SavingRight
<1>10. QED BY <1>5, <1>6, <1>9 DEF SavingRight

LEMMA ImportCommitStep ==
    ASSUME ProviderTypes, AloneRight, NEW i \in Ids, CommitImport(i) PROVE AloneRight'
<1>1. PICK plan, list : plan = saving[i] /\ list = upload[i].rows
  OBVIOUS
<1>2. PICK k : k = Len(list)
  OBVIOUS
<1>3. /\ saving[i].on /\ PlanRight(plan, i, list, k) /\ upload[i].status = "preparing"
      /\ Cardinality(FolkWith(plan)) <= MaxPeople /\ PlanSaved(plan, i)
  BY <1>1, <1>2, CommitFacts
<1>4. CRMRight'
  BY <1>3, CommittedCRM
<1>5. PartiesRight'
  BY <1>3, CommittedParties
<1>6. UploadsRight'
  BY <1>1, <1>2, <1>3, CommittedUploads
<1>7. SavingRight'
  BY <1>3, CommittedSaving
<1>8. ProviderStays /\ fetched' = fetched
  BY <1>3 DEF PlanSaved, ProviderStays
<1>9. FetchedRight'
  BY <1>8, FetchedSame DEF AloneRight
<1>10. QED BY <1>4, <1>5, <1>6, <1>7, <1>9 DEF AloneRight

\* The start, and every step; an import beside another is not reasoned about.
LEMMA ImportInvInit == ImportsInit => ImportInv
<1>1. SUFFICES ASSUME ImportsInit PROVE ImportInv
  OBVIOUS
<1>2. beside \in BOOLEAN
  BY <1>1 DEF ImportsInit
<1>3. ProviderTypes
  BY <1>1 DEF ImportsInit, ProviderTypes
<1>4. /\ people \in {{}} \cup {{[n |-> 1, keys |-> keys]} : keys \in (SUBSET Keys) \ {{}}}
      /\ links = [c \in Clients |-> 0] /\ cases = {} /\ parties = {} /\ leaving = {}
      /\ fetched = NotFetching /\ upload = [i \in Ids |-> NoImport] /\ saving = [i \in Ids |-> NoPlan]
  BY <1>1 DEF ImportsInit
<1>5. FolkRight(people) /\ Cardinality(people) <= MaxPeople
  <2>1. CASE people = {}
    <3>1. IsFiniteSet(people) /\ Cardinality(people) = 0
      BY <2>1, FS_EmptySet
    <3>2. QED BY <2>1, <3>1, ImportsAssumption DEF FolkRight
  <2>2. CASE people # {}
    <3>1. PICK keys \in SUBSET Keys : people = {[n |-> 1, keys |-> keys]}
      BY <1>4, <2>2
    <3>2. PICK x : x = [n |-> 1, keys |-> keys]
      OBVIOUS
    <3>3. people = {x} /\ x.n = 1 /\ x.keys = keys
      BY <3>1, <3>2
    <3>4. IsFiniteSet(people) /\ Cardinality(people) = 1
      BY <3>3, FS_Singleton
    <3>5. 1 \in 1..Cardinality(people)
      BY <3>4
    <3>6. QED BY <3>2, <3>3, <3>4, <3>5, ImportsAssumption DEF FolkRight
  <2>3. QED BY <2>1, <2>2
<1>6. CRMRight
  BY <1>4, <1>5 DEF CRMRight, LinksRight, CasesRight
<1>7. PartiesRight
  BY <1>4 DEF PartiesRight
<1>8. UploadsRight
  <2>1. PICK none : none = NoImport
    OBVIOUS
  <2>2. none.status = "none" /\ none.sheet = TRUE /\ none.rows = <<>> /\ none \in UploadRecords
    BY <2>1, EmptySeq DEF NoImport, UploadRecords
  <2>3. upload = [i \in Ids |-> none]
    BY <1>4, <2>1
  <2>4. upload \in [Ids -> UploadRecords]
    BY <2>2, <2>3
  <2>5. \A i \in Ids : UploadRight(i) /\ (upload[i].status = "none" => upload[i].sheet) /\ upload[i].sheet
    <3>1. SUFFICES ASSUME NEW i \in Ids PROVE UploadRight(i) /\ upload[i].sheet
      OBVIOUS
    <3>2. upload[i].status = "none" /\ upload[i].sheet /\ upload[i].rows = <<>>
      BY <2>2, <2>3
    <3>3. RowsRight(upload[i].rows)
      BY <3>2, EmptyRows
    <3>4. Len(upload[i].rows) = 0
      BY <3>2
    <3>5. \A r \in 1..Len(upload[i].rows) : upload[i].rows[r].client = "none"
      BY <3>4
    <3>6. QED BY <3>2, <3>3, <3>5 DEF UploadRight
  <2>6. Used = 1..Cardinality(Used)
    <3>1. Used = {}
      BY <2>2, <2>3 DEF Used
    <3>2. Cardinality(Used) = 0
      BY <3>1, FS_EmptySet
    <3>3. QED BY <3>1, <3>2
  <2>7. QED BY <2>4, <2>5, <2>6 DEF UploadsRight, UploadRecords
<1>9. FetchedRight
  <2>1. /\ fetched = [step |-> fetched.step, contacts |-> {}, parties |-> {}, matters |-> {}, rows |-> <<>>]
        /\ fetched.step = "none"
    BY <1>4 DEF NotFetching
  <2>2. RowsRight(fetched.rows) /\ fetched.rows \in Seq(Row)
    <3>1. fetched.rows = <<>>
      BY <2>1
    <3>2. RowsRight(fetched.rows)
      BY <3>1, EmptyRows
    <3>3. QED BY <3>2 DEF RowsRight
  <2>3. fetched \in [step : {"none", "contacts", "relationships", "read", "built"}, contacts : SUBSET Clients,
                    parties : SUBSET (OldMatters \X Clients), matters : SUBSET OldMatters, rows : Seq(Row)]
    BY <2>1, <2>2
  <2>4. \A m \in OldMatters : \A p \in Clients : <<m, p>> \notin fetched.parties
    BY <2>1
  <2>5. QED BY <2>2, <2>3, <2>4 DEF FetchedRight
<1>10. SavingRight
  <2>1. PICK off : off = NoPlan
    OBVIOUS
  <2>2. off.on = FALSE /\ saving = [i \in Ids |-> off]
    BY <1>4, <2>1 DEF NoPlan
  <2>3. QED BY <1>4, <2>2 DEF SavingRight
<1>11. QED BY <1>2, <1>3, <1>6, <1>7, <1>8, <1>9, <1>10 DEF ImportInv, AloneRight

LEMMA ImportReviewStep ==
    ASSUME ProviderTypes, AloneRight, NEW i \in Ids, ~beside',
           \/ Confirm(i) \/ CommitImport(i) \/ RollBack(i)
           \/ LookToDiscard(i) \/ Discard(i) \/ Purge(i)
    PROVE  AloneRight'
<1>1. CASE Confirm(i)
  BY <1>1, ConfirmStep
<1>2. CASE CommitImport(i)
  BY <1>2, ImportCommitStep
<1>3. CASE RollBack(i)
  BY <1>3, RollBackStep
<1>4. CASE LookToDiscard(i)
  BY <1>4, LookToDiscardStep
<1>5. CASE Discard(i) \/ Purge(i)
  BY <1>5, DiscardStep
<1>6. QED BY <1>1, <1>2, <1>3, <1>4, <1>5

LEMMA BesideGrows ==
    ASSUME beside \in BOOLEAN, [ImportsNext \/ MigrationNext]_importVars
    PROVE  beside' \in BOOLEAN /\ (beside => beside')
<1>1. CASE \/ \E c \in Clients : NewContact(c)
           \/ \E m \in OldMatters : NewMatter(m)
           \/ \E a, b \in SheetRows : Upload(<<a, b>>)
           \/ UNCHANGED importVars
  BY <1>1 DEF NewContact, NewMatter, Upload, importVars
<1>2. CASE FetchNext
  BY <1>2 DEF FetchNext, ListContacts, ListRelationships, ListMatters, FetchFails, Fetch, StoreFetch
<1>3. CASE ReviewNext
  <2>1. PICK i \in Ids : \/ Confirm(i) \/ CommitImport(i) \/ RollBack(i)
                         \/ LookToDiscard(i) \/ Discard(i) \/ Purge(i)
    BY <1>3 DEF ReviewNext
  <2>2. CASE Confirm(i) \/ LookToDiscard(i)
    <3>1. PICK b : b = (Saving # {} \/ i \in leaving)
      OBVIOUS
    <3>2. beside' = (beside \/ b) \/ beside' = (beside \/ saving[i].on)
      BY <2>2, <3>1 DEF Confirm, LookToDiscard
    <3>3. QED BY <3>2
  <2>3. CASE CommitImport(i) \/ RollBack(i) \/ Discard(i) \/ Purge(i)
    BY <2>3 DEF CommitImport, RollBack, Discard, Purge
  <2>4. QED BY <2>1, <2>2, <2>3
<1>4. QED BY <1>1, <1>2, <1>3 DEF ImportsNext, MigrationNext

LEMMA ProviderTyped ==
    ASSUME ProviderTypes, [ImportsNext \/ MigrationNext]_importVars
    PROVE  ProviderTypes'
<1>1. CASE \/ \E c \in Clients : NewContact(c)
           \/ \E m \in OldMatters : NewMatter(m)
  BY <1>1, ProviderGrows
<1>2. CASE \/ \E a, b \in SheetRows : Upload(<<a, b>>)
           \/ FetchNext \/ ReviewNext \/ UNCHANGED importVars
  <2>1. provider' = provider
    <3>1. CASE (\E a, b \in SheetRows : Upload(<<a, b>>)) \/ UNCHANGED importVars
      BY <3>1 DEF Upload, importVars
    <3>2. CASE FetchNext
      BY <3>2 DEF FetchNext, ListContacts, ListRelationships, ListMatters, FetchFails, Fetch, StoreFetch
    <3>3. CASE ReviewNext
      BY <3>3 DEF ReviewNext, Confirm, CommitImport, RollBack, LookToDiscard, Discard, Purge
    <3>4. QED BY <1>2, <3>1, <3>2, <3>3
  <2>2. QED BY <2>1 DEF ProviderTypes
<1>3. QED BY <1>1, <1>2 DEF ImportsNext, MigrationNext

LEMMA ImportInvStep ==
    ASSUME ImportInv, [ImportsNext \/ MigrationNext]_importVars PROVE ImportInv'
<1>1. beside \in BOOLEAN /\ ProviderTypes /\ (~beside => AloneRight)
  BY DEF ImportInv
<1>2. beside' \in BOOLEAN /\ (beside => beside')
  BY <1>1, BesideGrows
<1>3. ProviderTypes'
  BY <1>1, ProviderTyped
<1>4. ASSUME ~beside' PROVE AloneRight'
  <2>1. AloneRight
    BY <1>1, <1>2, <1>4
  <2>2. CASE \/ \E c \in Clients : NewContact(c)
             \/ \E m \in OldMatters : NewMatter(m)
    BY <1>1, <2>1, <2>2, ProviderStep
  <2>3. CASE \E a, b \in SheetRows : Upload(<<a, b>>)
    BY <2>1, <2>3, UploadStep
  <2>4. CASE FetchNext
    <3>1. CASE ListContacts \/ ListRelationships \/ ListMatters \/ FetchFails
      BY <1>1, <2>1, <3>1, ListingStep
    <3>2. CASE Fetch
      BY <1>1, <2>1, <3>2, FetchStep
    <3>3. CASE StoreFetch
      BY <1>1, <2>1, <3>3, StoreFetchStep
    <3>4. QED BY <2>4, <3>1, <3>2, <3>3 DEF FetchNext
  <2>5. CASE ReviewNext
    <3>1. PICK i \in Ids : \/ Confirm(i) \/ CommitImport(i) \/ RollBack(i)
                           \/ LookToDiscard(i) \/ Discard(i) \/ Purge(i)
      BY <2>5 DEF ReviewNext
    <3>2. QED BY <1>1, <1>4, <2>1, <3>1, ImportReviewStep
  <2>6. CASE UNCHANGED importVars
    <3>1. /\ provider' = provider /\ ProviderStays /\ CRMStays
          /\ upload' = upload /\ saving' = saving /\ leaving' = leaving /\ fetched' = fetched
      BY <2>6 DEF importVars, ProviderStays, CRMStays
    <3>2. FetchedRight'
      BY <2>1, <3>1, FetchedSame DEF AloneRight
    <3>3. QED BY <2>1, <3>1, <3>2, AllSame
  <2>7. QED BY <2>2, <2>3, <2>4, <2>5, <2>6 DEF ImportsNext, MigrationNext
<1>5. QED BY <1>2, <1>3, <1>4 DEF ImportInv

\* Unless two imports were saved at once, or one saved and discarded, an import brings every
\* person and matter once, and links and names the right contacts, however many files and
\* fetches there are and in whatever order they are read, planned, saved and discarded
\* (Planner.plan_row, run_import, build_import, add_parties).
THEOREM ImportsKept == ImportsSpec => []ImportedOnce
<1>1. ImportsInit => ImportInv
  BY ImportInvInit
<1>2. ImportInv /\ [ImportsNext \/ MigrationNext]_importVars => ImportInv'
  BY ImportInvStep
<1>3. ImportInv => ImportedOnce
  BY ImportInvSays
<1>4. QED BY <1>1, <1>2, <1>3, PTL DEF ImportsSpec
=============================================================================
