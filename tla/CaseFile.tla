------------------------------ MODULE CaseFile -------------------------------
(***************************************************************************)
(* One record that staff work on (a matter, or an item in Work) as the web *)
(* pages (crm/views.py), the REST API (api/views.py, api/http.py) and the  *)
(* MCP tools (mcp/tools.py) change it.  A form and a PATCH read the record *)
(* and save all its columns; ticking an item off saves two.  None locks.   *)
(*                                                                         *)
(* And the numbers that new matters get: the firm's profile keeps the year *)
(* and the last number given in it, under a row lock, and a matter's       *)
(* number is unique.                                                       *)
(***************************************************************************)
EXTENDS Naturals

CONSTANTS
    Writers,  \* requests: of pages, of API clients, of assistants
    Texts    \* values of the fields no other column depends on

ASSUME CaseFileAssumption == Writers # {} /\ Texts # {}

VARIABLES
    file,     \* the record's columns
    noted,    \* the status the matter's activities name last
    writer,   \* each request: how it writes, what it read, what it will save
    retaken   \* a request has saved over what changed since it read it

fileVars == <<file, noted, writer, retaken>>

Statuses == {"open", "closed"}
Records == [status : Statuses, closed : BOOLEAN, title : Texts, completed : BOOLEAN]
Fields == {"status", "title", "completed"}
Blank == CHOOSE r \in Records : r.status = "open" /\ ~r.closed /\ ~r.completed
Nothing == [via |-> "idle", page |-> Blank, row |-> Blank, values |-> Blank, names |-> {}]

CaseFileTypeOK ==
    /\ file \in Records
    /\ noted \in Statuses
    /\ writer \in [Writers -> [via : {"idle", "form", "post", "api", "tick"},
                               page : Records, row : Records, values : Records,
                               names : SUBSET Fields]]
    /\ retaken \in BOOLEAN

----------------------------------------------------------------------------
Idle(w) == writer[w].via = "idle"
Leave(w) == writer' = [writer EXCEPT ![w] = Nothing]

\* Matter.save
Stamped(r) == [r EXCEPT !.closed = (r.status = "closed")]

\* What a form or a body may ask for.
Change(r, field, v) ==
    CASE field = "status" -> [r EXCEPT !.status = v]
      [] field = "title" -> [r EXCEPT !.title = v]
      [] field = "completed" -> [r EXCEPT !.completed = v]
Values(field) ==
    CASE field = "status" -> Statuses [] field = "title" -> Texts
      [] field = "completed" -> BOOLEAN

\* GET: the page shows the record's fields.
OpenForm(w) ==
    /\ Idle(w)
    /\ writer' = [writer EXCEPT ![w] = [Nothing EXCEPT !.via = "form", !.page = file]]
    /\ UNCHANGED <<file, noted, retaken>>

\* POST: matter_update and work_update read the record again; all the form's fields come
\* from the page, the columns it does not show from the record.
PostForm(w, field, v) ==
    LET shown == Change(writer[w].page, field, v) IN
    /\ writer[w].via = "form"
    /\ field # "completed"
    /\ writer' = [writer EXCEPT ![w].via = "post", ![w].row = file, ![w].names = {field},
                      ![w].values = [file EXCEPT !.status = shown.status,
                                                 !.title = shown.title]]
    /\ UNCHANGED <<file, noted, retaken>>

\* Slip: a PATCH of an item takes a missing is_completed as false.
ReadPatchAll(w, field, v) ==
    /\ Idle(w)
    /\ writer' = [writer EXCEPT ![w].via = "api", ![w].row = file, ![w].names = {field},
                      ![w].values = Change([file EXCEPT !.completed = FALSE], field, v)]
    /\ UNCHANGED <<file, noted, retaken>>

\* matter_detail and work_item_detail: check_form fills what the PATCH does not name from
\* the record as read.
ReadPatch(w, field, v) ==
    /\ Idle(w)
    /\ writer' = [writer EXCEPT ![w].via = "api", ![w].row = file, ![w].names = {field},
                      ![w].values = Change(file, field, v)]
    /\ UNCHANGED <<file, noted, retaken>>

\* Slip: the status is compared with the instance the form has already changed.
StatusBeforeForm(w) == writer[w].values.status

\* before_status
StatusBefore(w) == writer[w].row.status

\* The whole row is saved, and a change of status noted on the matter.
SaveFile(w) ==
    LET saved == writer[w].values IN
    /\ writer[w].via \in {"post", "api"}
    /\ file' = Stamped(saved)
    /\ noted' = IF saved.status # StatusBefore(w) THEN saved.status ELSE noted
    /\ retaken' = (retaken \/ writer[w].row # file)
    /\ Leave(w)

\* work_toggle turns over what it read; complete_work_item only ticks items off.
ReadTick(w, on) ==
    /\ Idle(w)
    /\ on \/ file.completed
    /\ on => ~file.completed
    /\ writer' = [writer EXCEPT ![w].via = "tick", ![w].row = file, ![w].names = {"completed"},
                                ![w].values = [file EXCEPT !.completed = on]]
    /\ UNCHANGED <<file, noted, retaken>>

SaveTick(w) ==
    /\ writer[w].via = "tick"
    /\ file' = [file EXCEPT !.completed = writer[w].values.completed]
    /\ Leave(w)
    /\ UNCHANGED <<noted, retaken>>

\* The page is left, or the form or body refused.
LeavePage(w) ==
    /\ ~Idle(w)
    /\ Leave(w)
    /\ UNCHANGED <<file, noted, retaken>>

----------------------------------------------------------------------------
CaseFileInit ==
    /\ file = Blank
    /\ noted = "open"
    /\ writer = [w \in Writers |-> Nothing]
    /\ retaken = FALSE

CaseFileNext ==
    \E w \in Writers :
        \/ OpenForm(w) \/ SaveFile(w) \/ SaveTick(w) \/ LeavePage(w)
        \/ \E on \in BOOLEAN : ReadTick(w, on)
        \/ \E field \in Fields : \E v \in Values(field) :
              PostForm(w, field, v) \/ ReadPatch(w, field, v)

CaseFileSpec == CaseFileInit /\ [][CaseFileNext]_fileVars

----------------------------------------------------------------------------
\* The matter's activities name its status, whichever way it was changed, as long as no
\* request saves over a change it did not see (matter_update, matter_detail).
StatusNoted == ~retaken => noted = file.status

\* An item that was ticked off is open again only by a request that asks for that, or that
\* read it while it was open (work_toggle, complete_work_item, work_item_detail).
TickedOffStays ==
    [][file.completed /\ ~file'.completed =>
          \E w \in Writers :
             /\ ~Idle(w)
             /\ writer'[w].via = "idle"
             /\ "completed" \in writer[w].names \/ ~writer[w].row.completed]_fileVars


----------------------------------------------------------------------------
\* The numbers of new matters

CONSTANTS
    Openers,    \* requests that open a matter, or save the firm's settings
    MaxMatters, \* bound on the numbers of a year
    LastYear    \* bound on the years

ASSUME NumbersAssumption ==
    /\ Openers # {} /\ "nobody" \notin Openers
    /\ MaxMatters \in Nat /\ LastYear \in Nat \ {0}

VARIABLES
    year,       \* the year it is
    profile,    \* FirmProfile: stored, the sequence, and who holds its row
    opener,     \* each request: in a transaction or not, the year and the profile it read
    numbered,   \* the matters that were stored, by their numbers
    upset,      \* a number was taken for a year gone by, or a sequence saved over
    turnedAway  \* a matter was not stored: its number was taken

numberVars == <<year, profile, opener, numbered, upset, turnedAway>>

Years == 1..LastYear
MatterNumbers == [year : Years, value : 1..MaxMatters]
NoProfile == [there |-> FALSE, year |-> 0, value |-> 0]
Profiles == [there : BOOLEAN, year : 0..LastYear, value : 0..MaxMatters]
NotOpening == [step |-> "idle", atomic |-> FALSE, year |-> 0, seen |-> NoProfile]

MatterNumbersTypeOK ==
    /\ year \in Years
    /\ profile \in [row : Profiles, by : Openers \cup {"nobody"}]
    /\ opener \in [Openers -> [step : {"idle", "asking", "absent", "locked", "numbered",
                                       "settings"},
                               atomic : BOOLEAN, year : 0..LastYear, seen : Profiles]]
    /\ numbered \subseteq MatterNumbers
    /\ upset \in BOOLEAN /\ turnedAway \in BOOLEAN

\* The row as a request that does not hold it sees it.
Committed == IF profile.by = "nobody" THEN profile.row ELSE opener[profile.by].seen
Unlocked == profile.by = "nobody"
Holds(o) == profile.by = o
Rest(o) == opener' = [opener EXCEPT ![o] = NotOpening]
Proceeds(o, step, seen) == opener' = [opener EXCEPT ![o].step = step, ![o].seen = seen]

\* A page saves the matter by itself; the API, an import and an intake form in their
\* transaction.  Either way the year is read first.
OpenMatter(o, atomic) ==
    /\ opener[o] = NotOpening
    /\ opener' = [opener EXCEPT ![o] = [NotOpening EXCEPT !.step = "asking", !.year = year,
                                                          !.atomic = atomic]]
    /\ UNCHANGED <<year, profile, numbered, upset, turnedAway>>

\* Slip: the profile is read without its lock.
PeekProfile(o) ==
    /\ opener[o].step = "asking" /\ Committed.there
    /\ Proceeds(o, "locked", Committed)
    /\ UNCHANGED <<year, profile, numbered, upset, turnedAway>>

LockProfile(o) ==
    /\ opener[o].step = "asking" /\ Committed.there /\ Unlocked
    /\ profile' = [profile EXCEPT !.by = o]
    /\ Proceeds(o, "locked", profile.row)
    /\ UNCHANGED <<year, numbered, upset, turnedAway>>

\* A new installation has no profile yet; of two requests that store it, the second waits
\* for the first and fails if that one is committed.
FindNoProfile(o) ==
    /\ opener[o].step = "asking" /\ ~Committed.there
    /\ Proceeds(o, "absent", NoProfile)
    /\ UNCHANGED <<year, profile, numbered, upset, turnedAway>>

CreateProfile(o) ==
    /\ opener[o].step = "absent" /\ Unlocked
    /\ IF profile.row.there
       THEN Rest(o) /\ UNCHANGED profile
       ELSE /\ profile' = [row |-> [NoProfile EXCEPT !.there = TRUE], by |-> o]
            /\ Proceeds(o, "locked", NoProfile)
    /\ UNCHANGED <<year, numbered, upset, turnedAway>>

SequenceAfter(o) ==
    LET seen == opener[o].seen IN
    [there |-> TRUE, year |-> opener[o].year,
     value |-> IF seen.year = opener[o].year THEN seen.value + 1 ELSE 1]

\* next_matter_number: committed by itself, or with the request's transaction.
TakeNumber(o) ==
    LET seen == opener[o].seen IN
    /\ opener[o].step = "locked"
    /\ SequenceAfter(o).value <= MaxMatters
    /\ profile' = [row |-> SequenceAfter(o), by |-> IF opener[o].atomic THEN o ELSE "nobody"]
    /\ upset' = (upset \/ seen.year > opener[o].year)
    /\ opener' = [opener EXCEPT ![o].step = "numbered",
                                ![o].seen = IF opener[o].atomic THEN seen ELSE SequenceAfter(o)]
    /\ UNCHANGED <<year, numbered, turnedAway>>

NumberOf(o) ==
    LET row == IF opener[o].atomic THEN SequenceAfter(o) ELSE opener[o].seen IN
    [year |-> row.year, value |-> row.value]

\* What a rollback takes back: the number with the lock, if the transaction held it.
GiveBack(o) == profile' = IF Holds(o) THEN [row |-> opener[o].seen, by |-> "nobody"] ELSE profile

\* Matter.save: the number is unique.
StoreMatter(o) ==
    LET taken == NumberOf(o) \in numbered IN
    /\ opener[o].step = "numbered"
    /\ turnedAway' = (turnedAway \/ taken)
    /\ IF taken THEN GiveBack(o) ELSE profile' = IF Holds(o) THEN [profile EXCEPT !.by = "nobody"]
                                                 ELSE profile
    /\ numbered' = numbered \cup {NumberOf(o)}
    /\ Rest(o)
    /\ UNCHANGED <<year, upset>>

\* Something fails, or the process goes away: a number taken outside a transaction is lost.
DropMatter(o) ==
    /\ opener[o].step \in {"locked", "numbered", "settings"}
    /\ GiveBack(o)
    /\ Rest(o)
    /\ UNCHANGED <<year, numbered, upset, turnedAway>>

\* firm_settings: the form does not show the sequence, but its row is saved whole.
OpenFirmSettings(o) ==
    /\ opener[o] = NotOpening /\ Committed.there
    /\ Proceeds(o, "settings", Committed)
    /\ UNCHANGED <<year, profile, numbered, upset, turnedAway>>

SaveFirmSettings(o) ==
    /\ opener[o].step = "settings" /\ Unlocked
    /\ profile' = [profile EXCEPT !.row = opener[o].seen]
    /\ upset' = (upset \/ opener[o].seen # profile.row)
    /\ Rest(o)
    /\ UNCHANGED <<year, numbered, turnedAway>>

NewYear ==
    /\ year < LastYear
    /\ year' = year + 1
    /\ UNCHANGED <<profile, opener, numbered, upset, turnedAway>>

MatterNumbersInit ==
    /\ year = 1
    /\ profile = [row |-> NoProfile, by |-> "nobody"]
    /\ opener = [o \in Openers |-> NotOpening]
    /\ numbered = {}
    /\ upset = FALSE /\ turnedAway = FALSE

MatterNumbersNext ==
    \/ \E o \in Openers :
          \/ \E atomic \in BOOLEAN : OpenMatter(o, atomic)
          \/ LockProfile(o) \/ FindNoProfile(o) \/ CreateProfile(o) \/ TakeNumber(o)
          \/ StoreMatter(o) \/ DropMatter(o) \/ OpenFirmSettings(o) \/ SaveFirmSettings(o)
    \/ NewYear

MatterNumbersSpec == MatterNumbersInit /\ [][MatterNumbersNext]_numberVars

----------------------------------------------------------------------------
\* No matter is turned away for a number that is taken, and the sequence is never behind
\* the year's matters, however requests cross each other, fail or are rolled back, unless
\* one crossed the turn of the year or settings were saved over a number given meanwhile
\* (next_matter_number, Matter.matter_number).
NumbersFit ==
    upset \/ /\ ~turnedAway
             /\ \A m \in numbered : m.year = Committed.year => m.value <= Committed.value

\* What one writer left, no other undoes unseen, and every matter gets its number.
FileAsLeft == []StatusNoted /\ TickedOffStays /\ []NumbersFit
=============================================================================
