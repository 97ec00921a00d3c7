--------------------------- MODULE AnagraficaImport ---------------------------
(***************************************************************************)
(* The import of the NAS archive into the register: import_service.py.     *)
(* A job has one item per subject folder; a thread works its items off one *)
(* by one, each in a transaction of its own with a savepoint around the    *)
(* writes to the register, so that one folder that fails does not undo the *)
(* others.  Several threads may run the same job, or jobs over the same    *)
(* folders; operators edit the register meanwhile; the process may die.    *)
(*                                                                         *)
(* run_import and process_import_job are complete in the code and driven   *)
(* by its tests; POST /import/run only records a snapshot of the preview,  *)
(* and the resume endpoint answers 409 before it starts a job.             *)
(***************************************************************************)
EXTENDS AnagraficaRegister

CONSTANTS
  Scopes,       \* a user together with the letter asked for, or "ALL"
  FoldersIn,    \* Scopes -> SUBSET Folders, where discovery looks
  Rank,         \* Folders -> Nat, the order by letter and folder name
  MaxJobs,      \* bound: ana_import_jobs rows
  MaxCrashes    \* bound: deaths of the process

ASSUME ImportAssumption ==
  /\ FoldersIn \in [Scopes -> SUBSET Folders]
  /\ Rank \in [Folders -> Nat]
  /\ \A f, g \in Folders : Rank[f] = Rank[g] => f = g
  /\ IsFiniteSet(Folders)
  /\ MaxJobs \in Nat /\ MaxCrashes \in Nat
  /\ None \notin Scopes \cup Nat

VARIABLES
  job,          \* the ana_import_jobs table, ids in the order of creation
  item,         \* the ana_import_job_items table
  thread,       \* per import thread: its control state and locals
  shared,       \* jobs that two threads have worked on at the same time
  crashes       \* deaths of the process so far

imports == <<job, item, thread, shared, crashes>>
vars == <<register, open, call, calls, stale, imports>>

Jobs == 1 .. MaxJobs

JobStatus == {"absent", "pending", "running", "completed", "failed"}
ItemStatus == {"absent", "pending", "processing", "completed", "failed"}

JobRow == [status : JobStatus,
           scope : Scopes \cup {None},
           preview : BOOLEAN,         \* log_json sums up a preview
           ok : Nat, errors : Nat]
AbsentJob == [status |-> "absent", scope |-> None, preview |-> FALSE,
              ok |-> 0, errors |-> 0]

ItemRow == [status : ItemStatus, sid : SubjectIds \cup {None}]
AbsentItem == [status |-> "absent", sid |-> None]

FlushJob(current, seen, new) ==
  [status |-> Column(current.status, seen.status, new.status),
   scope  |-> current.scope,
   preview |-> current.preview,
   ok     |-> Column(current.ok, seen.ok, new.ok),
   errors |-> Column(current.errors, seen.errors, new.errors)]

ItemsOf(j) == {f \in Folders : item[j][f].status # "absent"}
ItemsIn(j, S) == {f \in Folders : item[j][f].status \in S}

Pcs == {"idle",      \* not importing
        "discover",  \* enqueue_import: no job to resume, asking the NAS
        "resume",    \* enqueue_import: a job to resume has been read
        "start",     \* process_import_job entered
        "select",    \* the job is RUNNING, its items not yet read
        "head",      \* head of the loop over the items read
        "list",      \* the item is PROCESSING, its files asked of the NAS
        "write",     \* _upsert_subject has read the subject
        "details",   \* the subject is flushed: its row is locked; its
                     \* details are read
        "written",   \* the details are flushed
        "commit",    \* _upsert_documents has read the documents
        "fail",      \* an exception reached the handler of the item
        "finish"}    \* _refresh_import_job_status has counted the items

ThreadRecord == [pc : Pcs,
                 scope : Scopes \cup {None},
                 job : Jobs \cup {None},
                 todo : SUBSET Folders,
                 folder : Folders \cup {None},
                 files : SUBSET Files,
                 sid : SubjectIds \cup {None},
                 row : SubjectRow,
                 details : DetailsRows,
                 docs : [DocIds -> DocRow],
                 seen : JobRow,             \* the job as last read
                 tally : JobRow]            \* the job as it will be written
NoDocs == [d \in DocIds |-> AbsentDoc]
Idle == [pc |-> "idle", scope |-> None, job |-> None, todo |-> {},
         folder |-> None, files |-> {}, sid |-> None, row |-> AbsentSubject,
         details |-> NoDetails, docs |-> NoDocs, seen |-> AbsentJob, tally |-> AbsentJob]

Goes(t, new) == thread' = [thread EXCEPT ![t] = new]
Moves(t, pc) == Goes(t, [thread[t] EXCEPT !.pc = pc])
WorksOn(t, j) == thread[t].job = j /\ thread[t].pc \notin {"idle", "resume"}

RegisterUntouched == UNCHANGED <<register, open, call, calls, stale>>

-----------------------------------------------------------------------------
(* enqueue_import                                                          *)

Resumable(j, scope) ==
  job[j].scope = scope /\ job[j].status \in {"running", "failed"}

Request(t, scope) ==
  LET found == {j \in Jobs : Resumable(j, scope)}
  IN /\ thread[t].pc = "idle"
     /\ \/ /\ found = {}
           /\ Goes(t, [Idle EXCEPT !.pc = "discover", !.scope = scope])
        \/ \E newest \in found :
             /\ \A j \in found : j <= newest
             /\ Goes(t, [Idle EXCEPT !.pc = "resume", !.scope = scope, !.job = newest])
     /\ RegisterUntouched /\ UNCHANGED <<job, item, shared, crashes>>

(* find's errors are thrown away, so that what cannot be read is not there:*)
(* a command returns some of the folders, or of the files, that exist.     *)
Discoverable(scope) == SUBSET FoldersIn[scope]
Listable(f) == SUBSET {x \in Files : FolderOf[x] = f}

Discover(t) ==
  /\ thread[t].pc = "discover"
  /\ \E found \in Discoverable(thread[t].scope), j \in Jobs :
       /\ job[j].status = "absent"
       /\ \A k \in Jobs : job[k].status = "absent" => j <= k
       /\ job' = [job EXCEPT ![j] = [AbsentJob EXCEPT !.status = "running",
                                                      !.scope = thread[t].scope]]
       /\ item' = [item EXCEPT ![j] =
                     [f \in Folders |->
                        IF f \in found THEN [AbsentItem EXCEPT !.status = "pending"]
                                       ELSE AbsentItem]]
       /\ Goes(t, [thread[t] EXCEPT !.pc = "start", !.job = j,
                                    !.seen = job'[j]])
  /\ RegisterUntouched /\ UNCHANGED <<shared, crashes>>

DiscoveryFails(t) ==
  /\ thread[t].pc = "discover"
  /\ Goes(t, Idle)
  /\ RegisterUntouched /\ UNCHANGED <<job, item, shared, crashes>>

Resume(t) ==
  LET j == thread[t].job
  IN /\ thread[t].pc = "resume"
     /\ job' = [job EXCEPT ![j].status = "pending"]
     /\ shared' = IF \E o \in Importers \ {t} : WorksOn(o, j)
                  THEN shared \cup {j} ELSE shared
     /\ Goes(t, [thread[t] EXCEPT !.pc = "start", !.seen = job'[j]])
     /\ RegisterUntouched /\ UNCHANGED <<item, crashes>>

(* create_import_snapshot: a preview that never fails on a folder, and one *)
(* transaction that records it.  `failed' are the folders it could not list.*)
Snapshot(scope) ==
  \E found \in Discoverable(scope), j \in Jobs :
    \E failed \in SUBSET found :
      /\ job[j].status = "absent"
      /\ \A k \in Jobs : job[k].status = "absent" => j <= k
      /\ job' = [job EXCEPT ![j] = [status |-> "completed", scope |-> scope,
                                    preview |-> TRUE,
                                    ok |-> Cardinality(found),
                                    errors |-> Cardinality(failed)]]
      /\ item' = [item EXCEPT ![j] =
                    [f \in Folders |->
                       IF f \in found THEN [AbsentItem EXCEPT !.status = "completed"]
                                      ELSE AbsentItem]]
      /\ RegisterUntouched /\ UNCHANGED <<thread, shared, crashes>>

-----------------------------------------------------------------------------
(* process_import_job                                                      *)

StartJob(t) ==
  /\ thread[t].pc = "start"
  /\ job' = [job EXCEPT ![thread[t].job].status =
               Column(@, thread[t].seen.status, "running")]
  /\ Goes(t, [Idle EXCEPT !.pc = "select", !.job = thread[t].job])
  /\ RegisterUntouched /\ UNCHANGED <<item, shared, crashes>>

ToImport == {"pending", "failed"}

SelectItems(t) ==
  /\ thread[t].pc = "select"
  /\ Goes(t, [thread[t] EXCEPT !.pc = "head",
                               !.todo = ItemsIn(thread[t].job, ToImport)])
  /\ RegisterUntouched /\ UNCHANGED <<job, item, shared, crashes>>

TakeItem(t, f) ==
  /\ thread[t].pc = "head"
  /\ f \in thread[t].todo
  /\ \A g \in thread[t].todo : Rank[f] <= Rank[g]
  /\ item' = [item EXCEPT ![thread[t].job][f].status = "processing"]
  /\ Goes(t, [thread[t] EXCEPT !.pc = "list", !.folder = f, !.todo = @ \ {f}])
  /\ RegisterUntouched /\ UNCHANGED <<job, shared, crashes>>

(* preview_subject_folder, strict: an unanswered command raises; what find *)
(* cannot read is silently missing from the list.  Then the SELECT of the  *)
(* subject: nothing the thread does between the two is seen by others.     *)
ListFilesAndLookUp(t) ==
  LET f == thread[t].folder
  IN /\ thread[t].pc = "list"
     /\ \E found \in Listable(f) :
          LET listed == [thread[t] EXCEPT !.pc = "write", !.files = found]
          IN \/ \E s \in SubjectIds :
                  /\ Exists(s) /\ subject[s].path = f
                  /\ Goes(t, [listed EXCEPT !.sid = s, !.row = subject[s]])
             \/ ~PathTaken(None, f) /\ Goes(t, listed)
     /\ RegisterUntouched /\ UNCHANGED <<job, item, shared, crashes>>

ImportedType(t) == ParsedType(NameOf[thread[t].folder])
ImportedKey(t) == NameOf[thread[t].folder].key

(* The flush of _upsert_subject: an INSERT of the subject, or an UPDATE    *)
(* that always writes imported_at and so always locks the row.  Whoever    *)
(* holds the row or the path is waited for.  Then the details are read,    *)
(* which the lock on the subject does not keep from changing.              *)
WaitsForSubject_UnchangedRow(t, s) == FALSE

WaitsForSubject(t, s) == \E o \in Importers \ {t} : open[o].sid = s

WriteSubject(t) ==
  LET s == thread[t].sid
      f == thread[t].folder
  IN /\ thread[t].pc = "write"
     /\ \E target \in IF s # None THEN {s}
                      ELSE {x \in SubjectIds : ~Exists(x) /\ ~Writing(x)} :
          /\ ~WaitsForSubject(t, target)
          /\ s = None => ~PathContended(target, f)
          /\ IF s = None /\ PathTaken(target, f)
             THEN Moves(t, "fail") /\ UNCHANGED open
             ELSE /\ open' = [open EXCEPT ![t] =
                                [sid |-> target, fresh |-> s = None, path |-> f,
                                 type |-> ImportedType(t), key |-> ImportedKey(t),
                                 holds |-> {}]]
                  /\ Goes(t, [thread[t] EXCEPT !.pc = "details",
                                               !.details = DetailsOf(target)])
     /\ UNCHANGED <<register, call, calls, stale, job, item, shared, crashes>>

ImportedDetails(t) == DetailsFor(ImportedType(t), ImportedKey(t))

(* The flush of _sync_subject_details: a row is written, and locked, only  *)
(* if the import changes it.                                               *)
WriteDetails(t) ==
  LET s == open[t].sid
      seen == thread[t].details
  IN /\ thread[t].pc = "details"
     /\ ~DetailsWait(s, seen, ImportedDetails(t))
     /\ ~DetailsRefused(s, seen, ImportedDetails(t))
     /\ open' = [open EXCEPT ![t].holds = Sent(seen, ImportedDetails(t))]
     /\ Moves(t, "written")
     /\ UNCHANGED <<register, call, calls, stale, job, item, shared, crashes>>

(* An UPDATE of a details row that is gone: of its key, or of a name alone.*)
DetailsGone(t) ==
  \E k \in Details : /\ thread[t].details[k] # None /\ ImportedDetails(t)[k] # None
                     /\ DetailsOf(open[t].sid)[k] = None

(* The savepoint is rolled back, and with it the write of the subject.     *)
DetailsConflict(t) ==
  /\ thread[t].pc = "details"
  /\ ~DetailsWait(open[t].sid, thread[t].details, ImportedDetails(t))
  /\ \/ DetailsRefused(open[t].sid, thread[t].details, ImportedDetails(t))
     \/ DetailsGone(t)
  /\ open' = [open EXCEPT ![t] = NoWrite]
  /\ Moves(t, "fail")
  /\ UNCHANGED <<register, call, calls, stale, job, item, shared, crashes>>

ReadDocuments(t) ==
  /\ thread[t].pc = "written"
  /\ Goes(t, [thread[t] EXCEPT !.pc = "commit", !.docs = documents])
  /\ RegisterUntouched /\ UNCHANGED <<job, item, shared, crashes>>

ImportedSubject_KeepsType(t) ==
  [type |-> IF thread[t].sid = None THEN ImportedType(t) ELSE thread[t].row.type,
   status |-> "active", path |-> thread[t].folder]

ImportedSubject(t) ==
  [type |-> ImportedType(t), status |-> "active", path |-> thread[t].folder]

ImportedDoc(t, file) ==
  [owner |-> open[t].sid, type |-> Classified(file), source |-> "auto",
   used |-> TRUE]

(* The SELECT by nas_path takes one of the rows it finds.                  *)
Found(t, file) == DocsOf(file, thread[t].docs)
SeenAgain(t, file) == CHOOSE d \in Found(t, file) : TRUE
FreeCopy(file) == CHOOSE d \in {file} \X Copies : ~documents[d].used

Unchanged(t, file) == documents[SeenAgain(t, file)] = thread[t].docs[SeenAgain(t, file)]

(* Rows found, those deleted since they were read, and those that the      *)
(* import would change: a column that keeps its value is not written.      *)
Filed(t) == {x \in thread[t].files : Found(t, x) # {}}
Gone(t) == {x \in Filed(t) : documents[SeenAgain(t, x)].owner = None}
Rewritten(t, file) == thread[t].docs[SeenAgain(t, file)] # ImportedDoc(t, file)

CommittedSubject(t) ==
  IF open[t].fresh THEN ImportedSubject(t)
  ELSE FlushSubject(subject[open[t].sid], thread[t].row,
                    [ImportedSubject(t) EXCEPT !.path = thread[t].row.path])

CommittedDoc_DropsUnlisted(t, d) ==
  IF d[1] \in Filed(t) \ Gone(t) /\ d = SeenAgain(t, d[1])
  THEN FlushDoc(documents[d], thread[t].docs[d], ImportedDoc(t, d[1]))
  ELSE IF d[1] \in thread[t].files \ Filed(t) /\ d = FreeCopy(d[1])
  THEN ImportedDoc(t, d[1])
  ELSE IF documents[d].owner = open[t].sid /\ d[1] \notin thread[t].files
  THEN DeletedDoc
  ELSE documents[d]

CommittedDoc(t, d) ==
  IF d[1] \in Filed(t) \ Gone(t) /\ d = SeenAgain(t, d[1])
  THEN FlushDoc(documents[d], thread[t].docs[d], ImportedDoc(t, d[1]))
  ELSE IF d[1] \in thread[t].files \ Filed(t) /\ d = FreeCopy(d[1])
  THEN ImportedDoc(t, d[1])
  ELSE documents[d]

OverChangedRows(t) ==
  \/ ~open[t].fresh /\ subject[open[t].sid] # thread[t].row
  \/ DetailsOf(open[t].sid) # thread[t].details
  \/ \E x \in Filed(t) : ~Unchanged(t, x)

(* A details row that was not written stays as it is by now.               *)
CommittedKey(t, kind, key, current) == IF kind \in open[t].holds THEN key ELSE current

(* The documents, the audit row and the item; then the commit.             *)
CommitItem(t) ==
  LET th == thread[t]
      w == open[t]
  IN /\ th.pc = "commit"
     /\ \A x \in Gone(t) : ~Rewritten(t, x)
     /\ \A x \in th.files \ Filed(t) : \E c \in Copies : ~documents[<<x, c>>].used
     /\ subject' = [subject EXCEPT ![w.sid] = CommittedSubject(t)]
     /\ person' = [person EXCEPT ![w.sid] =
                     CommittedKey(t, "person", PersonKey(w.type, w.key), @)]
     /\ company' = [company EXCEPT ![w.sid] =
                      CommittedKey(t, "company", CompanyKey(w.type, w.key), @)]
     /\ documents' = [d \in DocIds |-> CommittedDoc(t, d)]
     /\ item' = [item EXCEPT ![th.job][th.folder] =
                   [status |-> "completed", sid |-> w.sid]]
     /\ stale' = (stale \/ OverChangedRows(t))
     /\ open' = [open EXCEPT ![t] = NoWrite]
     /\ Goes(t, [Idle EXCEPT !.pc = "head", !.job = th.job, !.todo = th.todo])
     /\ UNCHANGED <<call, calls, job, shared, crashes>>

(* An UPDATE of a deleted document matches no row: of its type, or of the  *)
(* columns left out.                                                       *)
DocumentsConflict(t) ==
  /\ thread[t].pc = "commit"
  /\ Gone(t) # {}
  /\ open' = [open EXCEPT ![t] = NoWrite]
  /\ Moves(t, "fail")
  /\ UNCHANGED <<register, call, calls, stale, job, item, shared, crashes>>

FailedItem(row) == [row EXCEPT !.status = "failed"]

(* The NAS did not answer, or a write was refused.                         *)
FailItem(t) ==
  LET th == thread[t]
  IN /\ th.pc \in {"list", "fail"}
     /\ item' = [item EXCEPT ![th.job][th.folder] = FailedItem(@)]
     /\ Goes(t, [Idle EXCEPT !.pc = "head", !.job = th.job, !.todo = th.todo])
     /\ RegisterUntouched /\ UNCHANGED <<job, shared, crashes>>

(* _refresh_import_job_status reads the items, then writes the job.        *)
Tallied_IgnoresProcessing(j) ==
  [job[j] EXCEPT !.ok = Cardinality(ItemsIn(j, {"completed"})),
                 !.errors = Cardinality(ItemsIn(j, {"failed"})),
                 !.status = IF ItemsIn(j, {"pending"}) # {} THEN "running"
                            ELSE IF ItemsIn(j, {"failed"}) # {} THEN "failed"
                            ELSE "completed"]

Tallied_FailedGoesOn(j) ==
  [job[j] EXCEPT !.ok = Cardinality(ItemsIn(j, {"completed"})),
                 !.errors = Cardinality(ItemsIn(j, {"failed"})),
                 !.status = IF ItemsIn(j, {"pending", "processing", "failed"}) # {}
                            THEN "running" ELSE "completed"]

Tallied(j) ==
  [job[j] EXCEPT !.ok = Cardinality(ItemsIn(j, {"completed"})),
                 !.errors = Cardinality(ItemsIn(j, {"failed"})),
                 !.status = IF ItemsIn(j, {"pending", "processing"}) # {} THEN "running"
                            ELSE IF ItemsIn(j, {"failed"}) # {} THEN "failed"
                            ELSE "completed"]

TallyItems(t) ==
  /\ thread[t].pc = "head"
  /\ thread[t].todo = {}
  /\ Goes(t, [thread[t] EXCEPT !.pc = "finish", !.seen = job[thread[t].job],
                               !.tally = Tallied(thread[t].job)])
  /\ RegisterUntouched /\ UNCHANGED <<job, item, shared, crashes>>

FinishJob(t) ==
  /\ thread[t].pc = "finish"
  /\ job' = [job EXCEPT ![thread[t].job] =
               FlushJob(@, thread[t].seen, thread[t].tally)]
  /\ Goes(t, Idle)
  /\ RegisterUntouched /\ UNCHANGED <<item, shared, crashes>>

(* The process dies: open transactions are rolled back by the database.    *)
Crash ==
  /\ crashes < MaxCrashes
  /\ crashes' = crashes + 1
  /\ thread' = [t \in Importers |-> Idle]
  /\ open' = [t \in Importers |-> NoWrite]
  /\ call' = [h \in Handlers |-> NoCall]
  /\ UNCHANGED <<register, calls, stale, job, item, shared>>

-----------------------------------------------------------------------------
(* What imports that are over may have left in the register: subjects at   *)
(* their places, and one document for each of the files filed.             *)
LeftBehind(places, filed) ==
  LET Imported(s) == places[s] # None
      type == [s \in SubjectIds |->
                 IF Imported(s) THEN ParsedType(NameOf[places[s]]) ELSE "unknown"]
      key == [s \in SubjectIds |->
                IF Imported(s) THEN NameOf[places[s]].key ELSE None]
      Owners(x) == {s \in SubjectIds : places[s] = FolderOf[x]}
      First(d) == \A c \in Copies : d[2] <= c
  IN /\ \A s, o \in SubjectIds :
          Imported(s) /\ s # o
            => /\ places[s] # places[o]
               /\ PersonKey(type[s], key[s]) # None
                    => PersonKey(type[s], key[s]) # PersonKey(type[o], key[o])
               /\ CompanyKey(type[s], key[s]) # None
                    => CompanyKey(type[s], key[s]) # CompanyKey(type[o], key[o])
     /\ \A x \in filed : Owners(x) # {}
     /\ subject = [s \in SubjectIds |->
                     IF Imported(s)
                     THEN [type |-> type[s], status |-> "active", path |-> places[s]]
                     ELSE AbsentSubject]
     /\ person = [s \in SubjectIds |-> PersonKey(type[s], key[s])]
     /\ company = [s \in SubjectIds |-> CompanyKey(type[s], key[s])]
     /\ documents = [d \in DocIds |->
                       IF d[1] \in filed /\ First(d)
                       THEN [owner |-> CHOOSE s \in Owners(d[1]) : TRUE,
                             type |-> Classified(d[1]), source |-> "auto",
                             used |-> TRUE]
                       ELSE AbsentDoc]

EarlierImports ==
  \E places \in [SubjectIds -> Folders \cup {None}], filed \in SUBSET Files :
    LeftBehind(places, filed)

Init ==
  /\ EarlierImports
  /\ NobodyAtWork
  /\ job = [j \in Jobs |-> AbsentJob]
  /\ item = [j \in Jobs |-> [f \in Folders |-> AbsentItem]]
  /\ thread = [t \in Importers |-> Idle]
  /\ shared = {}
  /\ crashes = 0

(* What a thread does once it has been asked to import.                    *)
ThreadStep(t) ==
  \/ Discover(t)
  \/ DiscoveryFails(t)
  \/ Resume(t)
  \/ StartJob(t)
  \/ SelectItems(t)
  \/ \E f \in Folders : TakeItem(t, f)
  \/ ListFilesAndLookUp(t)
  \/ WriteSubject(t)
  \/ WriteDetails(t)
  \/ DetailsConflict(t)
  \/ ReadDocuments(t)
  \/ CommitItem(t)
  \/ DocumentsConflict(t)
  \/ FailItem(t)
  \/ TallyItems(t)
  \/ FinishJob(t)

Next ==
  \/ \E t \in Importers : (\E scope \in Scopes : Request(t, scope)) \/ ThreadStep(t)
  \/ \E scope \in Scopes : Snapshot(scope)
  \/ OperatorStep /\ UNCHANGED imports
  \/ Crash

Spec == Init /\ [][Next]_vars

-----------------------------------------------------------------------------
(* The tables, the operators' calls and the locals of the import threads   *)
(* are of the types the code gives them.                                   *)
TypeOK ==
  /\ RegisterTypeOK
  /\ job \in [Jobs -> JobRow]
  /\ item \in [Jobs -> [Folders -> ItemRow]]
  /\ thread \in [Importers -> ThreadRecord]
  /\ shared \subseteq Jobs
  /\ crashes \in Nat

FiledUnlessStale ==
  stale \/ \A x \in Files : \A d, e \in DocsOf(x, documents) : d = e

(* RF-IMP-06: whatever imports overlap, fail or die, a file of the archive *)
(* is in the register once, because the UPDATE or the INSERT of the        *)
(* subject makes imports of one folder wait for each other before they     *)
(* look for its documents.  Only a commit over a subject or a document     *)
(* changed since it was read can break it; and it takes an operator for    *)
(* that, since imports alone find every row as they would write it.        *)
DocumentsFiledOnce == FiledUnlessStale /\ (stale => calls > 0)

(* RF-IMP-06 again: until an operator's call, an import changes no subject *)
(* and no document that is there, however often and however many at once   *)
(* import a folder; it only adds what it finds for the first time.         *)
ImportsOnlyAdd ==
  [][calls' = 0 =>
       /\ \A s \in SubjectIds : Exists(s) =>
            <<subject'[s], person'[s], company'[s]>> = <<subject[s], person[s], company[s]>>
       /\ \A d \in DocIds : documents[d].owner # None => documents'[d] = documents[d]]_vars

(* A person has a fiscal code and no VAT number, a company the reverse, a  *)
(* subject not understood neither, whatever the folder's name and the      *)
(* operators make of its type in turn, unless a commit was stale.          *)
DetailsMatchType ==
  stale \/ \A s \in SubjectIds :
    /\ (person[s] # None) <=> (subject[s].type = "person")
    /\ (company[s] # None) <=> (subject[s].type = "company")

(* A document marked as classified automatically has the type its name     *)
(* gives, unless a commit was stale: an operator's type is never left      *)
(* under the mark of the classifier.                                       *)
AutoMeansClassified ==
  stale \/ \A d \in DocIds :
    documents[d].owner # None /\ documents[d].source = "auto"
      => documents[d].type = Classified(d[1])

(* The folder has been imported into a subject of the register, which is   *)
(* still at the folder unless an operator may have moved it.               *)
Imported(j, f) ==
  LET s == item[j][f].sid
  IN /\ s # None
     /\ Exists(s)
     /\ calls = 0 => subject[s].path = f

AllDone(j) ==
  /\ \A f \in ItemsOf(j) : item[j][f].status = "completed"
  /\ job[j].ok = Cardinality(ItemsOf(j))

(* A COMPLETED job has imported every folder it discovered into a subject, *)
(* and counts them all, whatever failed, died and was resumed before:      *)
(* unless two threads worked on it at once, or it is the snapshot of a     *)
(* preview that POST /import/run records, COMPLETED with nothing imported. *)
CompletedJobsAreSettled ==
  \A j \in Jobs : job[j].status = "completed" /\ ~job[j].preview /\ j \notin shared =>
    AllDone(j) /\ \A f \in ItemsOf(j) : Imported(j, f)

Attended(j) ==
  /\ job[j].status \in {"pending", "running"} => \E t \in Importers : WorksOn(t, j)
  /\ \A f \in Folders : item[j][f].status = "processing" =>
       \E t \in Importers : WorksOn(t, j) /\ thread[t].folder = f

(* A job shown as going on is worked on by a thread, and so is an item     *)
(* shown as PROCESSING, unless the process died or two threads shared the  *)
(* job: nothing but a crash strands a job.                                 *)
GoingOnIsAttended ==
  \A j \in Jobs \ shared : crashes > 0 \/ Attended(j)

Register == INSTANCE SubjectRegister WITH
              TypeOf <- [f \in Folders |-> ParsedType(NameOf[f])],
              PersonOf <- [f \in Folders |->
                             PersonKey(ParsedType(NameOf[f]), NameOf[f].key)],
              CompanyOf <- [f \in Folders |->
                              CompanyKey(ParsedType(NameOf[f]), NameOf[f].key)],
              ClassOf <- [x \in Files |-> Classified(x)]

(* Every item imported and every operator's call acts on the register as   *)
(* one transaction that reads and writes at one instant, although it reads *)
(* at one moment, waits, and commits at another, until one commits over a  *)
(* row changed since it was read.                                          *)
CommitsAreSerial == Register!Spec

-----------------------------------------------------------------------------
(* The inductive invariant behind the properties above.                    *)

(* A call holds the id of a row that existed when it was read.             *)
CallIsBound(h) ==
  LET c == call[h]
  IN /\ c.op \in {"update", "details", "deactivate"} =>
          c.sid \in SubjectIds /\ Exists(c.sid) /\ c.row.type # "absent"
     /\ c.op \in {"patch", "delete"} => c.doc \in DocIds /\ c.docRow.owner # None

CallsAreBound == \A h \in Handlers : CallIsBound(h)

OnItem == {"list", "write", "details", "written", "commit", "fail"}
HasWritten == {"details", "written", "commit"}

(* What a thread holds exists, and is what its control state says.         *)
ThreadIsBound(t) ==
  LET th == thread[t]
  IN /\ th.pc = "discover" => th.scope \in Scopes /\ th.job = None
     /\ th.pc \in {"select", "head", "list"} => th.sid = None
     /\ th.pc \notin {"idle", "discover"} =>
          th.job \in Jobs /\ job[th.job].status # "absent"
     /\ th.pc \in OnItem \cup {"head"} => th.todo \subseteq ItemsOf(th.job)
     /\ th.pc \in OnItem => th.folder \in ItemsOf(th.job) \ th.todo
     /\ th.pc \in HasWritten \cup {"write"} =>
          /\ \A x \in th.files : FolderOf[x] = th.folder
          /\ th.sid # None => /\ Exists(th.sid)
                              /\ th.row.type # "absent"
                              /\ th.row.path = th.folder
     /\ th.pc \in {"start", "finish"} => th.seen.status # "absent"
     /\ th.pc = "finish" => th.tally.status # "absent"

ThreadsAreBound == \A t \in Importers : ThreadIsBound(t)

(* An open write is of a thread between the two flushes, and is what the   *)
(* thread has parsed; an INSERT is of a path nobody has.                   *)
WriteIsBound(t) ==
  LET th == thread[t]
      w == open[t]
  IN /\ (w.sid # None) <=> (th.pc \in HasWritten)
     /\ w.sid # None =>
          /\ w.holds = IF th.pc = "details" THEN {}
                       ELSE Sent(th.details, DetailsFor(w.type, w.key))
          /\ w.path = th.folder
          /\ w.type = ImportedType(t) /\ w.key = ImportedKey(t)
          /\ w.fresh <=> (th.sid = None)
          /\ w.fresh => ~Exists(w.sid) /\ ~PathTaken(w.sid, w.path)
          /\ ~w.fresh => w.sid = th.sid

(* A subject is written by one open transaction at a time, and a path      *)
(* inserted by one.                                                        *)
WritesExclude(t, o) ==
  open[t].sid # None =>
    /\ open[t].sid # open[o].sid
    /\ open[t].fresh /\ open[o].sid # None /\ open[o].fresh
         => open[t].path # open[o].path

OpenWritesExclude ==
  /\ \A t \in Importers : WriteIsBound(t)
  /\ \A t, o \in Importers : t # o => WritesExclude(t, o)

(* The unique constraint on nas_folder_path; rows that do not exist have   *)
(* no details.                                                             *)
RowsAreProper ==
  /\ \A s, o \in SubjectIds :
       /\ Exists(s) /\ Exists(o)
       /\ subject[s].path # None /\ subject[s].path = subject[o].path
       => s = o
  /\ \A s \in SubjectIds :
       ~Exists(s) => subject[s].path = None /\ person[s] = None /\ company[s] = None
  /\ \A d \in DocIds : documents[d].owner # None => documents[d].used

(* The documents a thread has read for a subject whose row it holds are    *)
(* all there are, but for deleted ones.                                    *)
SawDocuments(t) ==
  /\ thread[t].pc = "commit"
  /\ open[t].fresh \/ subject[open[t].sid].path = thread[t].folder
  => \A x \in thread[t].files : DocsOf(x, documents) \subseteq Found(t, x)

DocumentsWereSeen == stale \/ \A t \in Importers : SawDocuments(t)

(* A thread that has a job for itself knows the job's row.                 *)
KnowsJob(t, j) ==
  LET th == thread[t]
  IN /\ job[j].status = "running" \/ (th.pc = "start" /\ job[j].status = "pending")
     /\ th.pc = "start" => th.seen = job[j]
     /\ th.pc = "finish" => th.seen = job[j] /\ th.tally = Tallied(j)

(* Jobs that were not shared are worked on by one thread.                  *)
LoneThreads ==
  \A j \in Jobs \ shared :
    /\ \A t, o \in Importers : WorksOn(t, j) /\ WorksOn(o, j) => t = o
    /\ \A t \in Importers : WorksOn(t, j) => KnowsJob(t, j)

(* An item that is neither done nor failed is before the thread.           *)
Holds(t, j, f) ==
  LET th == thread[t]
  IN /\ WorksOn(t, j)
     /\ \/ th.pc \in {"start", "select"} /\ item[j][f].status = "pending"
        \/ th.pc \in OnItem \cup {"head"} /\ f \in th.todo /\ item[j][f].status = "pending"
        \/ th.pc \in OnItem /\ f = th.folder /\ item[j][f].status = "processing"

ItemsAreHeld(j) ==
  \A f \in Folders : item[j][f].status \in {"pending", "processing"} =>
    \E t \in Importers : Holds(t, j, f)

(* Until the process dies, the open items of a job that was not shared are *)
(* its thread's.                                                           *)
OpenItemsAreHeld == crashes > 0 \/ \A j \in Jobs \ shared : ItemsAreHeld(j)

(* The statuses and the count of a COMPLETED job.                          *)
CompletedMeansDone ==
  \A j \in Jobs : job[j].status = "completed" => j \in shared \/ AllDone(j)

(* What every step of an import, of an operator and of a crash keeps.      *)
IInv ==
  /\ TypeOK
  /\ CallsAreBound
  /\ ThreadsAreBound
  /\ OpenWritesExclude
  /\ RowsAreProper
  /\ DocumentsWereSeen
  /\ LoneThreads
  /\ OpenItemsAreHeld
  /\ FiledUnlessStale
  /\ DetailsMatchType
  /\ AutoMeansClassified
  /\ CompletedMeansDone
  /\ GoingOnIsAttended

-----------------------------------------------------------------------------
(* Until the first call of an operator: every row is as an import of its   *)
(* folder or its file writes it, and what a thread has read is still so.   *)

AsImported(s) ==
  LET name == NameOf[subject[s].path]
  IN /\ subject[s].path \in Folders
     /\ subject[s].type = ParsedType(name) /\ subject[s].status = "active"
     /\ person[s] = PersonKey(ParsedType(name), name.key)
     /\ company[s] = CompanyKey(ParsedType(name), name.key)

AsFiled(d) ==
  /\ documents[d].type = Classified(d[1])
  /\ documents[d].source = "auto" /\ documents[d].used
  /\ subject[documents[d].owner].path = FolderOf[d[1]]

ReadsStillTrue(t) ==
  LET th == thread[t]
  IN /\ th.pc \in HasWritten \cup {"write"} /\ th.sid # None
          => th.row = subject[th.sid]
     /\ th.pc \in HasWritten => th.details = DetailsOf(open[t].sid)
     /\ th.pc = "commit" =>
          \A d \in DocIds : th.docs[d].owner # None => th.docs[d] = documents[d]

ImportsAlone ==
  calls = 0 =>
    /\ ~stale
    /\ \A h \in Handlers : call[h].op = "none"
    /\ \A s \in SubjectIds : Exists(s) => AsImported(s)
    /\ \A d \in DocIds : documents[d].owner # None => AsFiled(d)
    /\ \A t \in Importers : ReadsStillTrue(t)

(* A COMPLETED item of a job that is no snapshot is of a folder imported.  *)
ItemsAreImported ==
  \A j \in Jobs, f \in Folders :
    ~job[j].preview /\ item[j][f].status = "completed" => Imported(j, f)
=============================================================================
