--------------------------- MODULE DocumentStorage ---------------------------
(***************************************************************************)
(* One matter's documents copied to the firm's drive                       *)
(* (crm/document_storage.py, connectors/google_drive,                      *)
(* connectors/onedrive_sharepoint): the tasks that copy, rename and trash, *)
(* the run that copies what is missing, and the refs that tell what is     *)
(* where.  Between reading the refs, the call to the drive, and the ref    *)
(* that is saved after it, other tasks and staff do what they do.          *)
(***************************************************************************)
EXTENDS Naturals, Sequences, FiniteSets

CONSTANTS
    MaxPapers,  \* bound on the documents, numbered as they are added
    BatchSize,  \* BATCH
    Copiers,    \* tasks at work
    MaxTitles,  \* bound on the matter's titles
    MaxItems    \* bound on what the drive holds

ASSUME DocumentStorageAssumption ==
    /\ MaxPapers \in Nat
    /\ BatchSize \in Nat \ {0} /\ MaxTitles \in Nat \ {0} /\ MaxItems \in Nat

VARIABLES
    matter,     \* whether it is there, and the number of its title
    document,   \* each Document: not yet there, there, or deleted with its file
    drive,      \* what the drive holds: whose copy, its name, and whether in the trash
    copyRefs,   \* ExternalRef rows of the matter (0) and its documents
    copyTasks,  \* tasks queued
    copier,     \* what each task is doing, and what it has read
    outran      \* a ref was saved for what had changed since, or a call or task was lost

driveVars == <<matter, document, drive, copyRefs, copyTasks, copier, outran>>

Papers == 1..MaxPapers
Copied == {0} \cup Papers
RefRows == [of : Copied, item : 1..MaxItems, name : 0..MaxTitles]
Tasks == [do : {"copy"}, on : Papers] \cup [do : {"rename"}, on : {0}]
             \cup [do : {"trash"}, on : 1..MaxItems]
NoCopying == [step |-> "none", list |-> <<>>, title |-> 0, had |-> {}, item |-> 0]

DriveTypeOK ==
    /\ matter \in [there : BOOLEAN, title : 1..MaxTitles]
    /\ document \in [Papers -> {"new", "there", "gone"}]
    /\ Len(drive) <= MaxItems
    /\ \A i \in DOMAIN drive :
          drive[i] \in [of : Copied, name : 0..MaxTitles, trashed : BOOLEAN]
    /\ copyRefs \subseteq RefRows /\ copyTasks \subseteq Tasks
    /\ copier \in [Copiers -> [step : {"none", "look", "folder", "keep_folder",
                                       "file", "keep"},
                               list : UNION {[1..n -> Papers] : n \in 0..BatchSize},
                               title : 0..MaxTitles, had : SUBSET RefRows,
                               item : 0..MaxItems]]
    /\ outran \in BOOLEAN

RefFor(record) == {r \in copyRefs : r.of = record}

----------------------------------------------------------------------------
\* Staff.  document_saved, matter_saved and record_deleted queue the tasks; what is
\* deleted takes its refs with it at once.
AddPaper(p) ==
    /\ matter.there /\ document[p] = "new"
    /\ \A q \in Papers : q < p => document[q] # "new"
    /\ document' = [document EXCEPT ![p] = "there"]
    /\ copyTasks' = copyTasks \cup {[do |-> "copy", on |-> p]}
    /\ UNCHANGED <<matter, drive, copyRefs, copier, outran>>

Retitle ==
    /\ matter.there /\ matter.title < MaxTitles
    /\ matter' = [matter EXCEPT !.title = @ + 1]
    /\ copyTasks' = copyTasks \cup {[do |-> "rename", on |-> 0] : r \in RefFor(0)}
    /\ UNCHANGED <<document, drive, copyRefs, copier, outran>>

\* Slip: a deleted record's refs are forgotten without its copies going to the trash.
ForgetCopies(records) ==
    /\ copyRefs' = {r \in copyRefs : r.of \notin records}
    /\ UNCHANGED copyTasks

\* record_deleted
TrashCopies(records) ==
    /\ copyRefs' = {r \in copyRefs : r.of \notin records}
    /\ copyTasks' = copyTasks \cup
                      {[do |-> "trash", on |-> r.item] : r \in copyRefs \ copyRefs'}

DeletePaper(p) ==
    /\ document[p] = "there"
    /\ document' = [document EXCEPT ![p] = "gone"]
    /\ TrashCopies({p})
    /\ UNCHANGED <<matter, drive, copier, outran>>

DeleteMatter ==
    /\ matter.there
    /\ matter' = [matter EXCEPT !.there = FALSE]
    /\ document' = [p \in Papers |-> IF document[p] = "there" THEN "gone" ELSE document[p]]
    /\ TrashCopies(Copied)
    /\ UNCHANGED <<drive, copier, outran>>

----------------------------------------------------------------------------
Acts(c, now) == copier' = [copier EXCEPT ![c] = now]
Free(c) == copier[c].step = "none"
Begun(list) == [NoCopying EXCEPT !.step = "look", !.list = list, !.title = matter.title]
Takes(c, task) == Free(c) /\ task \in copyTasks /\ copyTasks' = copyTasks \ {task}

\* copy_document reads the document with its matter.
TakeCopy(c, p) ==
    /\ Takes(c, [do |-> "copy", on |-> p])
    /\ IF document[p] = "there" THEN Acts(c, Begun(<<p>>)) ELSE UNCHANGED copier
    /\ UNCHANGED <<matter, document, drive, copyRefs, outran>>

\* copy_pending reads a batch of them with their matter, once.
Missing == {p \in Papers : document[p] = "there" /\ RefFor(p) = {}}

CopyPending(c) ==
    /\ Free(c)
    /\ \E n \in 1..BatchSize : \E list \in [1..n -> Missing] :
          LET left == Missing \ {list[i] : i \in 1..n} IN
          /\ \A i, j \in 1..n : i < j => list[i] < list[j]
          /\ \A p \in left : list[n] < p
          /\ n = BatchSize \/ left = {}
          /\ Acts(c, Begun(list))
    /\ UNCHANGED <<matter, document, drive, copyRefs, copyTasks, outran>>

RenameFolder(c) ==
    /\ Takes(c, [do |-> "rename", on |-> 0])
    /\ IF matter.there /\ RefFor(0) # {} THEN Acts(c, Begun(<<>>)) ELSE UNCHANGED copier
    /\ UNCHANGED <<matter, document, drive, copyRefs, outran>>

\* trash_copy does not look what came of it.
TrashCopy(c, item, ok) ==
    /\ Takes(c, [do |-> "trash", on |-> item])
    /\ drive' = IF ok THEN [drive EXCEPT ![item].trashed = TRUE] ELSE drive
    /\ outran' = (outran \/ ~ok)
    /\ UNCHANGED <<matter, document, copyRefs, copier>>

----------------------------------------------------------------------------
\* copy looks whether the document has a copy, and matter_folder whether the folder
\* there is has the name the matter had when it was read.
Then(c, step, had, item) ==
    Acts(c, [copier[c] EXCEPT !.step = step, !.had = had, !.item = item])
NextPaper(c) ==
    IF Len(copier[c].list) < 2 THEN NoCopying
    ELSE [copier[c] EXCEPT !.step = "look", !.list = Tail(@), !.had = {}, !.item = 0]

Look(c) ==
    /\ copier[c].step = "look"
    /\ IF copier[c].list # <<>> /\ RefFor(copier[c].list[1]) # {}
       THEN Acts(c, NextPaper(c))
       ELSE \/ RefFor(0) = {} /\ Then(c, "folder", {}, 0)
            \/ \E r \in RefFor(0) :
                  IF r.name # copier[c].title THEN Then(c, "folder", {r}, r.item)
                  ELSE IF copier[c].list = <<>> THEN Acts(c, NoCopying)
                  ELSE Then(c, "file", {r}, r.item)
    /\ UNCHANGED <<matter, document, drive, copyRefs, copyTasks, outran>>

\* save_folder renames the folder that is there, and makes one otherwise; for Drive one in
\* the trash is there.
Made(record, name) == Append(drive, [of |-> record, name |-> name, trashed |-> FALSE])
DriveRenames(item) == item # 0
OneDriveRenames(item) == item # 0 /\ ~drive[item].trashed

RenameIt(c) ==
    /\ DriveRenames(copier[c].item) \/ OneDriveRenames(copier[c].item)
    /\ drive' = [drive EXCEPT ![copier[c].item].name = copier[c].title]
    /\ Then(c, "keep_folder", copier[c].had, copier[c].item)

MakeIt(c) ==
    /\ ~DriveRenames(copier[c].item) \/ ~OneDriveRenames(copier[c].item)
    /\ Len(drive) < MaxItems
    /\ drive' = Made(0, copier[c].title)
    /\ Then(c, "keep_folder", copier[c].had, Len(drive'))

SaveFolder(c) ==
    /\ copier[c].step = "folder"
    /\ RenameIt(c) \/ MakeIt(c)
    /\ UNCHANGED <<matter, document, copyRefs, copyTasks, outran>>

\* refs.link, after the ref of another folder is deleted.
Linked(S, record, item, name) ==
    {r \in S : r.item # item} \cup {[of |-> record, item |-> item, name |-> name]}

KeepFolder(c) ==
    /\ copier[c].step = "keep_folder"
    /\ copyRefs' = Linked(copyRefs \ copier[c].had, 0, copier[c].item, copier[c].title)
    /\ outran' = (outran \/ RefFor(0) # copier[c].had
                           \/ matter # [there |-> TRUE, title |-> copier[c].title])
    /\ IF copier[c].list = <<>> THEN Acts(c, NoCopying)
       ELSE Then(c, "file", {}, copier[c].item)
    /\ UNCHANGED <<matter, document, drive, copyTasks>>

\* save_file: the copy is there when the drive has all its bytes.
SaveFile(c) ==
    /\ copier[c].step = "file"
    /\ document[copier[c].list[1]] = "there" /\ Len(drive) < MaxItems
    /\ drive' = Made(copier[c].list[1], 0)
    /\ Then(c, "keep", {}, Len(drive'))
    /\ UNCHANGED <<matter, document, copyRefs, copyTasks, outran>>

KeepFile(c) ==
    /\ copier[c].step = "keep"
    /\ LET p == copier[c].list[1] IN
       /\ copyRefs' = Linked(copyRefs, p, copier[c].item, 0)
       /\ outran' = (outran \/ document[p] # "there" \/ RefFor(p) # {})
    /\ Acts(c, NextPaper(c))
    /\ UNCHANGED <<matter, document, drive, copyTasks>>

\* NotCopied, for a drive that refuses, the policy, the preview mode, or a file that
\* cannot be read: the task or the whole run ends, and a later run begins again.
NotCopied(c) ==
    /\ copier[c].step \in {"folder", "file"}
    /\ outran' = (outran \/ copier[c].list = <<>>)
    /\ Acts(c, NoCopying)
    /\ UNCHANGED <<matter, document, drive, copyRefs, copyTasks>>

CopierDies(c) ==
    /\ ~Free(c)
    /\ outran' = (outran \/ copier[c].step \in {"keep_folder", "keep"}
                           \/ copier[c].list = <<>>)
    /\ Acts(c, NoCopying)
    /\ UNCHANGED <<matter, document, drive, copyRefs, copyTasks>>

DriveInit ==
    /\ matter = [there |-> TRUE, title |-> 1]
    /\ document = [p \in Papers |-> "new"]
    /\ drive = <<>> /\ copyRefs = {} /\ copyTasks = {}
    /\ copier = [c \in Copiers |-> NoCopying]
    /\ outran = FALSE

DriveNext ==
    \/ \E p \in Papers : AddPaper(p) \/ DeletePaper(p)
    \/ Retitle \/ DeleteMatter
    \/ \E c \in Copiers :
          \/ \E p \in Papers : TakeCopy(c, p)
          \/ CopyPending(c) \/ RenameFolder(c)
          \/ \E item \in 1..MaxItems, ok \in BOOLEAN : TrashCopy(c, item, ok)
          \/ Look(c) \/ SaveFolder(c) \/ KeepFolder(c) \/ SaveFile(c) \/ KeepFile(c)
          \/ NotCopied(c) \/ CopierDies(c)

DriveSpec == DriveInit /\ [][DriveNext]_driveVars

----------------------------------------------------------------------------
\* Once all tasks are done, the drive holds what is in the CRM and the refs name it: one
\* folder by the matter's title, at most one copy of each document, and none of what was
\* deleted.  Tasks that copy the same document side by side, a record that is deleted or
\* renamed between the call and the saved ref, and a crash there, may break it
\* (document_storage.py).
Kept(record) == {i \in DOMAIN drive : drive[i].of = record /\ ~drive[i].trashed}

CopiesMatch ==
    copyTasks = {} /\ (\A c \in Copiers : Free(c)) /\ ~outran =>
        /\ \A record \in Copied :
              /\ Cardinality(Kept(record)) <= 1
              /\ Kept(record) = {r.item : r \in RefFor(record)}
        /\ \A i \in Kept(0) : matter.there /\ drive[i].name = matter.title
        /\ \A p \in Papers : Kept(p) # {} => document[p] = "there"
=============================================================================
