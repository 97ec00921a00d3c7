------------------------ MODULE AnagraficaImport_proofs ------------------------
(***************************************************************************)
(* Proofs about the register and its imports, for every archive, every set *)
(* of subjects, keys, threads and handlers, and every bound.  IInv splits  *)
(* in three: what is typed and bound (Bound), what the jobs say of the     *)
(* threads (JobsGood) and what the register holds (RegisterGood); every    *)
(* step keeps each of them, and most steps touch only one.                 *)
(***************************************************************************)
EXTENDS AnagraficaImport, FiniteSetTheorems, TLAPS

USE RegisterAssumption, ImportAssumption

-----------------------------------------------------------------------------
(* The operators the model is built from.                                  *)

(* Cardinalities of sets of folders are natural numbers.                   *)
LEMMA FoldersCounted ==
  ASSUME NEW S \in SUBSET Folders
  PROVE  IsFiniteSet(S) /\ Cardinality(S) \in Nat
<1>1. IsFiniteSet(S)
  BY FS_Subset
<1> QED
  BY <1>1, FS_CardinalityType

(* The parser gives a type of subject.  Only a name that ends in a key is  *)
(* of a person or of a company.                                            *)
LEMMA ParserType ==
  ASSUME NEW f \in Folders
  PROVE  /\ ParsedType(NameOf[f]) \in SubjectTypes
         /\ NameOf[f].key \in Keys \cup {None}
         /\ ParsedType(NameOf[f]) # "unknown" => NameOf[f].key \in Keys
BY DEF ParsedType, SubjectTypes, FolderName

(* The classifier gives a type of document: some pattern of those that     *)
(* match is the first.                                                     *)
LEMMA ClassifierType ==
  ASSUME NEW x \in Files
  PROVE  Classified(x) \in DocTypes
<1>1. DOMAIN Patterns = 1 .. 7
  BY DEF Patterns
<1>2. CASE \E i \in DOMAIN Patterns : Patterns[i] \in MatchesOf[x]
  <2> DEFINE First(i) == /\ Patterns[i] \in MatchesOf[x]
                         /\ \A j \in 1 .. (i - 1) : Patterns[j] \notin MatchesOf[x]
  <2>1. \E i \in DOMAIN Patterns : First(i)
    <3> DEFINE M(i) == Patterns[i] \in MatchesOf[x]
    <3>1. \E i \in 1 .. 7 : M(i)
      BY <1>1, <1>2
    <3>2. \E i \in 1 .. 7 : M(i) /\ \A j \in 1 .. (i - 1) : ~M(j)
      <4> HIDE DEF M
      <4>1. \A j \in 1 .. 7 : j = 1 \/ j = 2 \/ j = 3 \/ j = 4 \/ j = 5 \/ j = 6 \/ j = 7
        OBVIOUS
      <4>2. CASE M(1)
        BY <4>2
      <4>3. CASE ~M(1) /\ M(2)
        BY <4>3
      <4>4. CASE ~M(1) /\ ~M(2) /\ M(3)
        BY <4>4
      <4>5. CASE ~M(1) /\ ~M(2) /\ ~M(3) /\ M(4)
        BY <4>5
      <4>6. CASE ~M(1) /\ ~M(2) /\ ~M(3) /\ ~M(4) /\ M(5)
        BY <4>6
      <4>7. CASE ~M(1) /\ ~M(2) /\ ~M(3) /\ ~M(4) /\ ~M(5) /\ M(6)
        BY <4>7
      <4>8. CASE ~M(1) /\ ~M(2) /\ ~M(3) /\ ~M(4) /\ ~M(5) /\ ~M(6)
        BY <3>1, <4>1, <4>8
      <4> QED
        BY <4>2, <4>3, <4>4, <4>5, <4>6, <4>7, <4>8
    <3> QED
      BY <1>1, <3>2
  <2>2. (CHOOSE i \in DOMAIN Patterns : First(i)) \in DOMAIN Patterns
    BY <2>1
  <2> QED
    BY <1>2, <2>2 DEF Classified, DocTypes
<1>3. CASE ~\E i \in DOMAIN Patterns : Patterns[i] \in MatchesOf[x]
  BY <1>3 DEF Classified, DocTypes
<1> QED
  BY <1>2, <1>3

(* A flush of typed rows is a typed row; it never makes a subject absent.  *)
LEMMA FlushesTyped ==
  /\ \A cur, seen, new \in SubjectRow :
       /\ FlushSubject(cur, seen, new) \in SubjectRow
       /\ cur.type # "absent" /\ new.type # "absent"
            => FlushSubject(cur, seen, new).type # "absent"
  /\ \A cur, seen, new \in DocRow : FlushDoc(cur, seen, new) \in DocRow
  /\ \A cur, seen, new \in JobRow : FlushJob(cur, seen, new) \in JobRow
BY DEF FlushSubject, FlushDoc, FlushJob, Column, SubjectRow, DocRow, JobRow

(* The rows and records the steps write are typed.                         *)
LEMMA RowsTyped ==
  /\ AbsentSubject \in SubjectRow
  /\ AbsentDoc \in DocRow /\ DeletedDoc \in DocRow
  /\ AbsentJob \in JobRow /\ AbsentItem \in ItemRow
  /\ NoDocs \in [DocIds -> DocRow]
  /\ NoDetails \in DetailsRows
  /\ NoWrite \in OpenWrite /\ NoCall \in CallRecord
  /\ Idle \in ThreadRecord
<1>1. AbsentSubject \in SubjectRow
  BY DEF AbsentSubject, SubjectRow, SubjectTypes, SubjectStatus
<1>2. AbsentDoc \in DocRow /\ DeletedDoc \in DocRow
  BY DEF AbsentDoc, DeletedDoc, DocRow, DocTypes
<1>3. AbsentJob \in JobRow /\ AbsentItem \in ItemRow
  BY DEF AbsentJob, AbsentItem, JobRow, ItemRow, JobStatus, ItemStatus
<1>4. NoDocs \in [DocIds -> DocRow]
  BY <1>2 DEF NoDocs
<1>5. NoWrite \in OpenWrite
  BY DEF NoWrite, OpenWrite, SubjectTypes
<1>8. NoDetails \in DetailsRows
  BY DEF NoDetails, DetailsRows
<1>6. NoCall \in CallRecord
  BY <1>1, <1>2, <1>8 DEF NoCall, CallRecord
<1>7. Idle \in ThreadRecord
  BY <1>1, <1>3, <1>4, <1>8 DEF Idle, ThreadRecord, Pcs
<1> QED
  BY <1>1, <1>2, <1>3, <1>4, <1>5, <1>6, <1>7, <1>8

(* The details of a subject, and those a key makes.                        *)
LEMMA DetailsTyped ==
  /\ \A k : k \in Details <=> k = "person" \/ k = "company"
  /\ \A s : DetailsOf(s)["person"] = person[s] /\ DetailsOf(s)["company"] = company[s]
  /\ \A type, key : /\ DetailsFor(type, key)["person"] = PersonKey(type, key)
                    /\ DetailsFor(type, key)["company"] = CompanyKey(type, key)
  /\ NoDetails["person"] = None /\ NoDetails["company"] = None
  /\ TypeOK => \A s \in SubjectIds : DetailsOf(s) \in DetailsRows
  /\ \A type : \A key \in Keys \cup {None} : DetailsFor(type, key) \in DetailsRows
<1>1. \A k : k \in Details <=> k = "person" \/ k = "company"
  BY DEF Details
<1>2. /\ \A s : DetailsOf(s)["person"] = person[s] /\ DetailsOf(s)["company"] = company[s]
      /\ NoDetails["person"] = None /\ NoDetails["company"] = None
  BY <1>1 DEF DetailsOf, NoDetails
<1>3. \A type, key : /\ DetailsFor(type, key)["person"] = PersonKey(type, key)
                    /\ DetailsFor(type, key)["company"] = CompanyKey(type, key)
  BY <1>1 DEF DetailsFor
<1>4. TypeOK => \A s \in SubjectIds : DetailsOf(s) \in DetailsRows
  BY <1>1 DEF DetailsOf, DetailsRows, TypeOK, RegisterTypeOK
<1>5. \A type : \A key \in Keys \cup {None} : DetailsFor(type, key) \in DetailsRows
  BY <1>1 DEF DetailsFor, DetailsRows, PersonKey, CompanyKey
<1> QED
  BY <1>1, <1>2, <1>3, <1>4, <1>5

(* What a count of the items of a job makes of its row.                    *)
LEMMA TalliedTyped ==
  ASSUME TypeOK, NEW j \in Jobs
  PROVE  /\ Tallied(j) \in JobRow
         /\ Tallied(j).status \in {"running", "failed", "completed"}
<1>1. \A S : ItemsIn(j, S) \in SUBSET Folders
  BY DEF ItemsIn
<1>2. /\ Cardinality(ItemsIn(j, {"completed"})) \in Nat
      /\ Cardinality(ItemsIn(j, {"failed"})) \in Nat
  BY <1>1, FoldersCounted
<1>3. job[j] \in JobRow
  BY DEF TypeOK
<1>4. PICK ok \in Nat, errors \in Nat :
        /\ ok = Cardinality(ItemsIn(j, {"completed"}))
        /\ errors = Cardinality(ItemsIn(j, {"failed"}))
  BY <1>2
<1>5. PICK next \in {"running", "failed", "completed"} :
        Tallied(j) = [job[j] EXCEPT !.ok = ok, !.errors = errors, !.status = next]
  BY <1>4 DEF Tallied
<1> QED
  BY <1>3, <1>5 DEF JobRow, JobStatus

-----------------------------------------------------------------------------
(* What is typed and bound.                                                *)

Bound == TypeOK /\ CallsAreBound /\ ThreadsAreBound

(* A subject, a job or an item that exists goes on existing.               *)
RowsStay ==
  /\ \A s \in SubjectIds : Exists(s) => Exists(s)'
  /\ \A j \in Jobs : job[j].status # "absent" =>
       job'[j].status # "absent" /\ ItemsOf(j) \subseteq ItemsOf(j)'

(* The jobs and their items are typed in the next state.                   *)
JobsTyped ==
  /\ job' \in [Jobs -> JobRow]
  /\ item' \in [Jobs -> [Folders -> ItemRow]]
  /\ shared' \subseteq Jobs
  /\ crashes' \in Nat

(* A thread that moves has the new record, and the others have their own.  *)
LEMMA ThreadMoves ==
  ASSUME TypeOK, NEW t \in Importers, NEW new \in ThreadRecord, Goes(t, new)
  PROVE  /\ thread' \in [Importers -> ThreadRecord]
         /\ thread'[t] = new
         /\ \A o \in Importers \ {t} : thread'[o] = thread[o]
BY DEF TypeOK, Goes

(* A thread that does not move is bound as long as the rows stay.          *)
LEMMA OthersStayBound ==
  ASSUME NEW t \in Importers, ThreadIsBound(t), RowsStay, thread'[t] = thread[t],
         thread[t].sid \in SubjectIds \cup {None}
  PROVE  ThreadIsBound(t)'
<1>1. /\ thread[t].pc = "discover" => thread[t].scope \in Scopes /\ thread[t].job = None
      /\ thread[t].pc \in {"select", "head", "list"} => thread[t].sid = None
      /\ thread[t].pc \in {"start", "finish"} => thread[t].seen.status # "absent"
      /\ thread[t].pc = "finish" => thread[t].tally.status # "absent"
  BY DEF ThreadIsBound
<1>2. thread[t].pc \notin {"idle", "discover"} =>
        /\ thread[t].job \in Jobs /\ job'[thread[t].job].status # "absent"
        /\ ItemsOf(thread[t].job) \subseteq ItemsOf(thread[t].job)'
  BY DEF ThreadIsBound, RowsStay
<1>3. thread[t].pc \in OnItem \cup {"head"} =>
        /\ thread[t].todo \subseteq ItemsOf(thread[t].job)'
        /\ thread[t].pc # "head" =>
             thread[t].folder \in ItemsOf(thread[t].job)' \ thread[t].todo
  BY <1>2 DEF ThreadIsBound, OnItem
<1>4. thread[t].pc \in HasWritten \cup {"write"} =>
        /\ \A x \in thread[t].files : FolderOf[x] = thread[t].folder
        /\ thread[t].sid # None => /\ Exists(thread[t].sid)'
                                   /\ thread[t].row.type # "absent"
                                   /\ thread[t].row.path = thread[t].folder
  BY DEF ThreadIsBound, RowsStay
<1> QED
  BY <1>1, <1>2, <1>3, <1>4 DEF ThreadIsBound, OnItem, ItemsOf, Exists

(* Calls are bound as long as they and the subjects stay.                  *)
LEMMA CallsStayBound ==
  ASSUME TypeOK, CallsAreBound, RowsStay, UNCHANGED call
  PROVE  CallsAreBound'
BY DEF TypeOK, RegisterTypeOK, CallsAreBound, CallIsBound, RowsStay, Exists

(* A step of a thread keeps everything bound if the tables it writes are   *)
(* typed, the rows stay and what it holds afterwards is bound.             *)
LEMMA ThreadStepBound ==
  ASSUME Bound, NEW t \in Importers, NEW new \in ThreadRecord, Goes(t, new),
         RegisterTypeOK', JobsTyped, RowsStay, UNCHANGED call, ThreadIsBound(t)'
  PROVE  Bound'
<1>1. TypeOK'
  BY ThreadMoves DEF Bound, TypeOK, JobsTyped
<1>2. CallsAreBound'
  BY CallsStayBound DEF Bound
<1>3. ASSUME NEW o \in Importers
      PROVE  ThreadIsBound(o)'
  <2>1. CASE o = t
    BY <2>1
  <2>2. CASE o # t
    <3>1. thread'[o] = thread[o] /\ thread[o].sid \in SubjectIds \cup {None}
      <4>1. thread[o] \in ThreadRecord
        BY DEF Bound, TypeOK
      <4> QED
        BY <2>2, <4>1, ThreadMoves DEF Bound, ThreadRecord
    <3> QED
      BY <3>1, OthersStayBound DEF Bound, ThreadsAreBound
  <2> QED
    BY <2>1, <2>2
<1> QED
  BY <1>1, <1>2, <1>3 DEF Bound, ThreadsAreBound

(* The same for a step that leaves the register alone.                     *)
LEMMA QuietStepBound ==
  ASSUME Bound, NEW t \in Importers, NEW new \in ThreadRecord, Goes(t, new),
         RegisterUntouched, JobsTyped,
         \A j \in Jobs : job[j].status # "absent" =>
           job'[j].status # "absent" /\ ItemsOf(j) \subseteq ItemsOf(j)',
         ThreadIsBound(t)'
  PROVE  Bound'
<1>1. RegisterTypeOK' /\ UNCHANGED call
  BY DEF Bound, TypeOK, RegisterTypeOK, RegisterUntouched, register
<1>2. RowsStay
  BY DEF RowsStay, RegisterUntouched, register, Exists
<1> QED
  BY <1>1, <1>2, ThreadStepBound

(* A step that writes no job and no item.                                  *)
LEMMA LocalStepBound ==
  ASSUME Bound, NEW t \in Importers, NEW new \in ThreadRecord, Goes(t, new),
         RegisterUntouched, UNCHANGED <<job, item, shared, crashes>>,
         ThreadIsBound(t)'
  PROVE  Bound'
<1>1. JobsTyped
  BY DEF Bound, TypeOK, JobsTyped
<1>2. \A j \in Jobs : job[j].status # "absent" =>
        job'[j].status # "absent" /\ ItemsOf(j) \subseteq ItemsOf(j)'
  BY DEF ItemsOf
<1> QED
  BY <1>1, <1>2, QuietStepBound

(* A step that writes one job that exists, and no item.                    *)
LEMMA JobStepBound ==
  ASSUME Bound, NEW t \in Importers, NEW new \in ThreadRecord, Goes(t, new),
         RegisterUntouched, UNCHANGED <<item, crashes>>, shared' \subseteq Jobs,
         NEW j \in Jobs, NEW row \in JobRow, job' = [job EXCEPT ![j] = row],
         row.status # "absent", ThreadIsBound(t)'
  PROVE  Bound'
<1>1. JobsTyped
  BY DEF Bound, TypeOK, JobsTyped
<1>2. \A k \in Jobs : job[k].status # "absent" =>
        job'[k].status # "absent" /\ ItemsOf(k) \subseteq ItemsOf(k)'
  BY DEF ItemsOf, Bound, TypeOK
<1> QED
  BY <1>1, <1>2, QuietStepBound

(* A job enqueued takes a row of the table that nobody uses.               *)
LEMMA EnqueueBound ==
  ASSUME Bound, NEW j \in Jobs, job[j].status = "absent",
         NEW row \in JobRow, row.status # "absent",
         NEW rows \in [Folders -> ItemRow],
         job' = [job EXCEPT ![j] = row], item' = [item EXCEPT ![j] = rows],
         UNCHANGED <<shared, crashes>>
  PROVE  /\ JobsTyped
         /\ \A k \in Jobs : job[k].status # "absent" =>
              job'[k].status # "absent" /\ ItemsOf(k) \subseteq ItemsOf(k)'
<1>1. JobsTyped
  BY DEF Bound, TypeOK, JobsTyped
<1>2. \A k \in Jobs : job[k].status # "absent" =>
        job'[k].status # "absent" /\ ItemsOf(k) \subseteq ItemsOf(k)'
  BY DEF ItemsOf, Bound, TypeOK
<1> QED
  BY <1>1, <1>2

(* One item of a thread's job is written; it existed.                      *)
ItemSet(j, f, row) == item' = [item EXCEPT ![j][f] = row]

(* Such a write keeps the tables typed and every other item as it is.      *)
LEMMA ItemStepRows ==
  ASSUME Bound, NEW j \in Jobs, NEW f \in Folders, NEW row \in ItemRow,
         row.status # "absent", ItemSet(j, f, row),
         UNCHANGED <<job, shared, crashes>>
  PROVE  /\ JobsTyped
         /\ \A k \in Jobs : job[k].status # "absent" =>
              job'[k].status # "absent" /\ ItemsOf(k) \subseteq ItemsOf(k)'
         /\ item'[j][f] = row
         /\ \A k \in Jobs, g \in Folders : k # j \/ g # f => item'[k][g] = item[k][g]
<1>1. JobsTyped
  BY DEF Bound, TypeOK, JobsTyped, ItemSet
<1>2. /\ item'[j][f] = row
      /\ \A k \in Jobs, g \in Folders : k # j \/ g # f => item'[k][g] = item[k][g]
  BY DEF Bound, TypeOK, ItemSet
<1>3. \A k \in Jobs : job[k].status # "absent" =>
        job'[k].status # "absent" /\ ItemsOf(k) \subseteq ItemsOf(k)'
  BY <1>2 DEF ItemsOf
<1> QED
  BY <1>1, <1>2, <1>3

(* What is known of the record of a thread.                                *)
LEMMA ThreadTyped ==
  ASSUME Bound, NEW t \in Importers
  PROVE  thread[t] \in ThreadRecord /\ ThreadIsBound(t)
BY DEF Bound, TypeOK, ThreadsAreBound

(* A request holds a scope, and the job it has found to resume.            *)
LEMMA RequestBound ==
  ASSUME Bound, NEW t \in Importers, NEW scope \in Scopes, Request(t, scope)
  PROVE  Bound'
<1>1. CASE Goes(t, [Idle EXCEPT !.pc = "discover", !.scope = scope])
  <2> DEFINE new == [Idle EXCEPT !.pc = "discover", !.scope = scope]
  <2>1. new \in ThreadRecord
    BY RowsTyped DEF ThreadRecord, Pcs
  <2>2. new.pc = "discover" /\ new.scope = scope /\ new.job = None
    BY DEF Idle
  <2>3. ThreadIsBound(t)'
    <3>1. thread'[t] = new
      BY <1>1, <2>1, ThreadMoves DEF Bound
    <3> QED
      BY <2>2, <3>1 DEF ThreadIsBound, OnItem, HasWritten
  <2> QED
    BY <1>1, <2>1, <2>3, LocalStepBound DEF Request
<1>2. ASSUME NEW j \in Jobs, Resumable(j, scope),
             Goes(t, [Idle EXCEPT !.pc = "resume", !.scope = scope, !.job = j])
      PROVE  Bound'
  <2> DEFINE new == [Idle EXCEPT !.pc = "resume", !.scope = scope, !.job = j]
  <2>1. new \in ThreadRecord
    BY RowsTyped DEF ThreadRecord, Pcs
  <2>2. new.pc = "resume" /\ new.job = j
    BY DEF Idle
  <2>3. job'[j].status # "absent"
    BY <1>2 DEF Request, Resumable
  <2>4. ThreadIsBound(t)'
    <3>1. thread'[t] = new
      BY <1>2, <2>1, ThreadMoves DEF Bound
    <3> QED
      BY <2>2, <2>3, <3>1 DEF ThreadIsBound, OnItem, HasWritten
  <2> QED
    BY <1>2, <2>1, <2>4, LocalStepBound DEF Request
<1> QED
  BY <1>1, <1>2 DEF Request

(* The record of a thread that enters process_import_job.                  *)
Started(th, j, row) == [th EXCEPT !.pc = "start", !.job = j, !.seen = row]

(* A thread about to process a job is typed.                               *)
LEMMA StartedTyped ==
  ASSUME NEW th \in ThreadRecord, NEW j \in Jobs, NEW row \in JobRow
  PROVE  /\ Started(th, j, row) \in ThreadRecord
         /\ Started(th, j, row).pc = "start"
         /\ Started(th, j, row).job = j
         /\ Started(th, j, row).seen = row
BY DEF Started, ThreadRecord, Pcs

(* The record of a job whose status is set.                                *)
LEMMA StatusSetTyped ==
  ASSUME NEW row \in JobRow, NEW status \in JobStatus
  PROVE  /\ [row EXCEPT !.status = status] \in JobRow
         /\ [row EXCEPT !.status = status].status = status
BY DEF JobRow

(* A discovery gives its thread the row it has just inserted.              *)
LEMMA DiscoverBound ==
  ASSUME Bound, NEW t \in Importers, Discover(t)
  PROVE  Bound'
<1>1. PICK found \in Discoverable(thread[t].scope), j \in Jobs :
        /\ job[j].status = "absent"
        /\ job' = [job EXCEPT ![j] = [AbsentJob EXCEPT !.status = "running",
                                                       !.scope = thread[t].scope]]
        /\ item' = [item EXCEPT ![j] =
                      [f \in Folders |->
                         IF f \in found THEN [AbsentItem EXCEPT !.status = "pending"]
                                        ELSE AbsentItem]]
        /\ Goes(t, [thread[t] EXCEPT !.pc = "start", !.job = j, !.seen = job'[j]])
  BY DEF Discover
<1> DEFINE row == [AbsentJob EXCEPT !.status = "running", !.scope = thread[t].scope]
           rows == [f \in Folders |->
                      IF f \in found THEN [AbsentItem EXCEPT !.status = "pending"]
                                     ELSE AbsentItem]
           new == Started(thread[t], j, row)
<1>2. row \in JobRow /\ row.status = "running"
  BY ThreadTyped, RowsTyped DEF ThreadRecord, JobRow, JobStatus
<1>3. rows \in [Folders -> ItemRow]
  BY RowsTyped DEF ItemRow, ItemStatus
<1>4. job'[j] = row
  BY <1>1 DEF Bound, TypeOK
<1>5. new \in ThreadRecord /\ new.pc = "start" /\ new.job = j /\ new.seen = row
  <2>1. thread[t] \in ThreadRecord /\ row \in JobRow
    BY <1>2, ThreadTyped
  <2> HIDE DEF row
  <2> QED
    BY <2>1, StartedTyped
<1>6. Goes(t, new)
  BY <1>1, <1>4 DEF Started
<1>7. ThreadIsBound(t)'
  <2>1. thread'[t].pc = "start" /\ thread'[t].job = j /\ thread'[t].seen = row
    <3> HIDE DEF new, row
    <3> QED
      BY <1>5, <1>6, ThreadMoves DEF Bound
  <2> QED
    BY <1>2, <1>4, <2>1 DEF ThreadIsBound, OnItem, HasWritten
<1>8. /\ JobsTyped
      /\ \A k \in Jobs : job[k].status # "absent" =>
           job'[k].status # "absent" /\ ItemsOf(k) \subseteq ItemsOf(k)'
  <2> HIDE DEF row, rows
  <2>1. job' = [job EXCEPT ![j] = row] /\ item' = [item EXCEPT ![j] = rows]
    BY <1>1 DEF row, rows
  <2>2. UNCHANGED <<shared, crashes>> /\ row.status # "absent"
    BY <1>2 DEF Discover
  <2> QED
    BY <1>1, <1>2, <1>3, <2>1, <2>2, EnqueueBound
<1> QED
  BY <1>5, <1>6, <1>7, <1>8, QuietStepBound DEF Discover

(* The snapshot of a preview inserts a job and moves no thread.            *)
LEMMA SnapshotBound ==
  ASSUME Bound, NEW scope \in Scopes, Snapshot(scope)
  PROVE  Bound'
<1>1. PICK found \in Discoverable(scope), j \in Jobs : \E failed \in SUBSET found :
        /\ job[j].status = "absent"
        /\ job' = [job EXCEPT ![j] = [status |-> "completed", scope |-> scope,
                                      preview |-> TRUE,
                                      ok |-> Cardinality(found),
                                      errors |-> Cardinality(failed)]]
        /\ item' = [item EXCEPT ![j] =
                      [f \in Folders |->
                         IF f \in found THEN [AbsentItem EXCEPT !.status = "completed"]
                                        ELSE AbsentItem]]
  BY DEF Snapshot
<1>2. PICK failed \in SUBSET found :
        job' = [job EXCEPT ![j] = [status |-> "completed", scope |-> scope,
                                   preview |-> TRUE,
                                   ok |-> Cardinality(found),
                                   errors |-> Cardinality(failed)]]
  BY <1>1
<1> DEFINE row == [status |-> "completed", scope |-> scope, preview |-> TRUE,
                   ok |-> Cardinality(found), errors |-> Cardinality(failed)]
           rows == [f \in Folders |->
                      IF f \in found THEN [AbsentItem EXCEPT !.status = "completed"]
                                     ELSE AbsentItem]
<1>3. row \in JobRow /\ row.status # "absent"
  <2>1. found \in SUBSET Folders /\ failed \in SUBSET Folders
    BY DEF Discoverable
  <2> QED
    BY <2>1, FoldersCounted DEF JobRow, JobStatus
<1>4. rows \in [Folders -> ItemRow]
  BY RowsTyped DEF ItemRow, ItemStatus
<1>5. /\ JobsTyped
      /\ \A k \in Jobs : job[k].status # "absent" =>
           job'[k].status # "absent" /\ ItemsOf(k) \subseteq ItemsOf(k)'
  <2> HIDE DEF row, rows
  <2>1. job' = [job EXCEPT ![j] = row] /\ item' = [item EXCEPT ![j] = rows]
    BY <1>1, <1>2 DEF row, rows
  <2> QED
    BY <1>1, <1>3, <1>4, <2>1, EnqueueBound DEF Snapshot
<1>6. UNCHANGED thread /\ RegisterUntouched
  BY DEF Snapshot
<1>7. RowsStay
  BY <1>5, <1>6 DEF RowsStay, RegisterUntouched, register, Exists
<1>8. TypeOK'
  BY <1>5, <1>6 DEF Bound, TypeOK, JobsTyped, RegisterTypeOK, RegisterUntouched, register
<1>9. CallsAreBound'
  BY <1>6, <1>7, CallsStayBound DEF Bound, RegisterUntouched
<1>10. ASSUME NEW o \in Importers
       PROVE  ThreadIsBound(o)'
  BY <1>6, <1>7, ThreadTyped, OthersStayBound DEF ThreadRecord
<1> QED
  BY <1>8, <1>9, <1>10 DEF Bound, ThreadsAreBound

(* A discovery that fails drops what its thread held; a resumption keeps   *)
(* its job.                                                                *)
LEMMA EnqueueStepsBound ==
  ASSUME Bound, NEW t \in Importers, DiscoveryFails(t) \/ Resume(t)
  PROVE  Bound'
<1>1. CASE DiscoveryFails(t)
  <2>1. thread'[t] = Idle
    BY <1>1, RowsTyped, ThreadMoves DEF DiscoveryFails, Bound
  <2>2. ThreadIsBound(t)'
    BY <2>1 DEF ThreadIsBound, Idle, OnItem
  <2> QED
    BY <1>1, <2>2, RowsTyped, LocalStepBound DEF DiscoveryFails
<1>2. CASE Resume(t)
  <2> DEFINE j == thread[t].job
             row == [job[j] EXCEPT !.status = "pending"]
             new == Started(thread[t], j, row)
  <2>1. j \in Jobs
    BY <1>2, ThreadTyped DEF Resume, ThreadIsBound
  <2>2. row \in JobRow /\ row.status = "pending"
    <3>1. job[j] \in JobRow
      BY <2>1 DEF Bound, TypeOK
    <3> QED
      BY <3>1, StatusSetTyped DEF JobStatus
  <2>3. job' = [job EXCEPT ![j] = row] /\ job'[j] = row
    BY <1>2, <2>1 DEF Resume, Bound, TypeOK
  <2>4. Goes(t, new)
    <3>1. thread[t] \in ThreadRecord /\ row \in JobRow /\ j \in Jobs
      BY <2>1, <2>2, ThreadTyped
    <3>2. new = [thread[t] EXCEPT !.pc = "start", !.seen = row]
      <4> HIDE DEF row
      <4> QED
        BY <3>1 DEF Started, ThreadRecord
    <3>3. Goes(t, [thread[t] EXCEPT !.pc = "start", !.seen = job'[j]])
      BY <1>2 DEF Resume
    <3> HIDE DEF new, row
    <3> QED
      BY <2>3, <3>2, <3>3, Zenon
  <2>7. new \in ThreadRecord /\ new.pc = "start" /\ new.job = j /\ new.seen = row
    <3>1. thread[t] \in ThreadRecord /\ row \in JobRow /\ j \in Jobs
      BY <2>1, <2>2, ThreadTyped
    <3> HIDE DEF row
    <3> QED
      BY <3>1, StartedTyped
  <2>5. ThreadIsBound(t)'
    <3>1. thread'[t].pc = "start" /\ thread'[t].job = j /\ thread'[t].seen = row
      <4> HIDE DEF new, row
      <4> QED
        BY <2>4, <2>7, ThreadMoves DEF Bound
    <3> QED
      BY <2>1, <2>2, <2>3, <3>1 DEF ThreadIsBound, OnItem, HasWritten
  <2>6. shared' \subseteq Jobs
    BY <1>2, <2>1 DEF Resume, Bound, TypeOK
  <2> HIDE DEF row, new, j
  <2> QED
    BY <1>2, <2>1, <2>2, <2>3, <2>4, <2>5, <2>6, <2>7, JobStepBound DEF Resume
<1> QED
  BY <1>1, <1>2

(* The start of a job keeps it, and drops the rest.                        *)
LEMMA StartBound ==
  ASSUME Bound, NEW t \in Importers, StartJob(t) \/ FinishJob(t)
  PROVE  Bound'
<1> DEFINE j == thread[t].job
<1>1. j \in Jobs /\ job[j] \in JobRow
  BY ThreadTyped DEF StartJob, FinishJob, ThreadIsBound, Bound, TypeOK
<1>2. thread[t].seen \in JobRow /\ thread[t].tally \in JobRow
  BY ThreadTyped DEF ThreadRecord
<1>3. CASE StartJob(t)
  <2> DEFINE row == [job[j] EXCEPT !.status = Column(@, thread[t].seen.status, "running")]
             new == [Idle EXCEPT !.pc = "select", !.job = j]
  <2>1. row \in JobRow /\ row.status # "absent"
    <3>1. Column(job[j].status, thread[t].seen.status, "running")
            \in JobStatus \ {"absent"}
      BY <1>1, <1>3, ThreadTyped DEF StartJob, ThreadIsBound, Column, JobRow, JobStatus
    <3> QED
      BY <1>1, <3>1 DEF JobRow
  <2>2. job' = [job EXCEPT ![j] = row] /\ job'[j] = row
    BY <1>1, <1>3 DEF StartJob, Bound, TypeOK
  <2>3. new \in ThreadRecord /\ Goes(t, new)
    <3>1. Goes(t, new)
      BY <1>3 DEF StartJob
    <3> QED
      BY <1>1, <3>1, RowsTyped DEF ThreadRecord, Pcs
  <2>4. ThreadIsBound(t)'
    <3>1. thread'[t] = new
      BY <2>3, ThreadMoves DEF Bound
    <3> QED
      BY <1>1, <2>1, <2>2, <3>1 DEF ThreadIsBound, OnItem, Idle
  <2> HIDE DEF row, new, j
  <2> QED
    BY <1>1, <1>3, <2>1, <2>2, <2>3, <2>4, JobStepBound DEF StartJob, Bound, TypeOK
<1>4. CASE FinishJob(t)
  <2> DEFINE row == FlushJob(job[j], thread[t].seen, thread[t].tally)
  <2>1. row \in JobRow /\ row.status # "absent"
    <3>1. row \in JobRow
      BY <1>1, <1>2, FlushesTyped
    <3> QED
      BY <1>1, <1>4, <3>1, ThreadTyped DEF FinishJob, ThreadIsBound, FlushJob, Column
  <2>2. job' = [job EXCEPT ![j] = row]
    BY <1>1, <1>4 DEF FinishJob, Bound, TypeOK
  <2>3. ThreadIsBound(t)'
    <3>1. thread'[t] = Idle
      BY <1>4, RowsTyped, ThreadMoves DEF FinishJob, Bound
    <3> QED
      BY <3>1 DEF ThreadIsBound, Idle, OnItem
  <2> HIDE DEF row, j
  <2> QED
    BY <1>1, <1>4, <2>1, <2>2, <2>3, RowsTyped, JobStepBound DEF FinishJob, Bound, TypeOK
<1> QED
  BY <1>3, <1>4

(* What is read of items, counts and documents is of the thread's job.     *)
LEMMA LoopStepsBound ==
  ASSUME Bound, NEW t \in Importers, SelectItems(t) \/ TallyItems(t) \/ ReadDocuments(t)
  PROVE  Bound'
<1>1. thread[t] \in ThreadRecord /\ ThreadIsBound(t)
  BY ThreadTyped
<1>2. thread[t].job \in Jobs /\ job[thread[t].job] \in JobRow
  BY <1>1 DEF SelectItems, TallyItems, ReadDocuments, ThreadIsBound, Bound, TypeOK
<1>3. CASE SelectItems(t)
  <2> DEFINE items == ItemsIn(thread[t].job, ToImport)
             new == [thread[t] EXCEPT !.pc = "head", !.todo = items]
  <2>1. items \in SUBSET Folders /\ items \subseteq ItemsOf(thread[t].job)
    BY DEF ItemsIn, ItemsOf, ToImport
  <2>2. new \in ThreadRecord /\ Goes(t, new)
    <3>1. Goes(t, new)
      BY <1>3 DEF SelectItems
    <3> HIDE DEF items
    <3> QED
      BY <1>1, <2>1, <3>1 DEF ThreadRecord, Pcs
  <2>3. /\ thread'[t].pc = "head" /\ thread'[t].todo = items
        /\ thread'[t].job = thread[t].job /\ thread'[t].sid = thread[t].sid
    <3>1. thread'[t] = new
      BY <2>2, ThreadMoves DEF Bound
    <3> HIDE DEF items
    <3> QED
      BY <1>1, <3>1 DEF ThreadRecord
  <2>4. ThreadIsBound(t)'
    <3> HIDE DEF items, new
    <3>1. UNCHANGED <<job, item>> /\ thread[t].pc = "select"
      BY <1>3 DEF SelectItems
    <3> QED
      BY <1>1, <1>2, <2>1, <2>3, <3>1 DEF ThreadIsBound, OnItem, HasWritten, ItemsOf
  <2> HIDE DEF new
  <2> QED
    BY <1>3, <2>2, <2>4, LocalStepBound DEF SelectItems
<1>4. CASE TallyItems(t)
  <2> DEFINE j == thread[t].job
             new == [thread[t] EXCEPT !.pc = "finish", !.seen = job[j], !.tally = Tallied(j)]
  <2>1. Tallied(j) \in JobRow /\ Tallied(j).status # "absent"
    BY <1>2, TalliedTyped DEF Bound
  <2>2. new \in ThreadRecord /\ Goes(t, new)
    <3>1. Goes(t, new)
      BY <1>4 DEF TallyItems
    <3> QED
      BY <1>1, <1>2, <2>1, <3>1 DEF ThreadRecord, Pcs
  <2>3. /\ thread'[t].pc = "finish" /\ thread'[t].seen = job[j]
        /\ thread'[t].tally = Tallied(j) /\ thread'[t].job = j
    <3>1. thread'[t] = new
      BY <2>2, ThreadMoves DEF Bound
    <3> QED
      BY <1>1, <3>1 DEF ThreadRecord
  <2>4. ThreadIsBound(t)'
    <3>1. UNCHANGED <<job, item>> /\ thread[t].pc = "head"
      BY <1>4 DEF TallyItems
    <3>2. job[j].status # "absent"
      BY <1>1, <3>1 DEF ThreadIsBound
    <3> HIDE DEF j, new
    <3> QED
      BY <1>2, <2>1, <2>3, <3>1, <3>2 DEF ThreadIsBound, OnItem, HasWritten, ItemsOf, j
  <2> HIDE DEF new
  <2> QED
    BY <1>4, <2>2, <2>4, LocalStepBound DEF TallyItems
<1>5. CASE ReadDocuments(t)
  <2> DEFINE new == [thread[t] EXCEPT !.pc = "commit", !.docs = documents]
  <2>1. new \in ThreadRecord /\ Goes(t, new)
    <3>1. Goes(t, new)
      BY <1>5 DEF ReadDocuments
    <3>2. documents \in [DocIds -> DocRow]
      BY DEF Bound, TypeOK, RegisterTypeOK
    <3> QED
      BY <1>1, <3>1, <3>2 DEF ThreadRecord, Pcs
  <2>2. /\ thread'[t].pc = "commit" /\ thread'[t].job = thread[t].job
        /\ thread'[t].todo = thread[t].todo /\ thread'[t].folder = thread[t].folder
        /\ thread'[t].files = thread[t].files /\ thread'[t].sid = thread[t].sid
        /\ thread'[t].row = thread[t].row
    <3>1. thread'[t] = new
      BY <2>1, ThreadMoves DEF Bound
    <3> QED
      BY <1>1, <3>1 DEF ThreadRecord
  <2>3. ThreadIsBound(t)'
    <3>1. UNCHANGED <<job, item, subject>> /\ thread[t].pc = "written"
      BY <1>5 DEF ReadDocuments, RegisterUntouched, register
    <3> HIDE DEF new
    <3> QED
      BY <1>1, <1>2, <2>2, <3>1 DEF ThreadIsBound, OnItem, HasWritten, ItemsOf, Exists
  <2> HIDE DEF new
  <2> QED
    BY <1>5, <2>1, <2>3, LocalStepBound DEF ReadDocuments
<1> QED
  BY <1>3, <1>4, <1>5

(* The item taken leaves those still to do.                                *)
LEMMA TakeBound ==
  ASSUME Bound, NEW t \in Importers, NEW f \in Folders, TakeItem(t, f)
  PROVE  Bound'
<1>1. thread[t] \in ThreadRecord /\ ThreadIsBound(t) /\ thread[t].pc = "head"
  BY ThreadTyped DEF TakeItem
<1>2. PICK j \in Jobs : /\ j = thread[t].job /\ job[j].status # "absent"
                       /\ f \in thread[t].todo
  BY <1>1 DEF ThreadIsBound, TakeItem
<1> DEFINE row == [item[j][f] EXCEPT !.status = "processing"]
           new == [thread[t] EXCEPT !.pc = "list", !.folder = f, !.todo = @ \ {f}]
<1>3. row \in ItemRow /\ row.status = "processing" /\ ItemSet(j, f, row)
  <2>1. item[j][f] \in ItemRow
    BY <1>2 DEF Bound, TypeOK
  <2>2. row \in ItemRow /\ row.status = "processing"
    BY <2>1 DEF ItemRow, ItemStatus
  <2>3. ItemSet(j, f, row)
    BY <1>2 DEF TakeItem, ItemSet, Bound, TypeOK
  <2> QED
    BY <2>2, <2>3
<1>4. new \in ThreadRecord /\ Goes(t, new)
  BY <1>1 DEF ThreadRecord, Pcs, TakeItem
<1>5. /\ JobsTyped
      /\ \A k \in Jobs : job[k].status # "absent" =>
           job'[k].status # "absent" /\ ItemsOf(k) \subseteq ItemsOf(k)'
      /\ item'[j][f] = row
  <2>1. UNCHANGED <<job, shared, crashes>> /\ row.status # "absent"
    BY <1>3 DEF TakeItem
  <2> HIDE DEF row
  <2> QED
    BY <1>2, <1>3, <2>1, ItemStepRows
<1>6. /\ thread'[t].pc = "list" /\ thread'[t].folder = f
      /\ thread'[t].todo = thread[t].todo \ {f}
      /\ thread'[t].job = j /\ thread'[t].sid = thread[t].sid
  <2>1. thread'[t] = new
    BY <1>4, ThreadMoves DEF Bound
  <2> QED
    BY <1>1, <1>2, <2>1 DEF ThreadRecord
<1>7. ThreadIsBound(t)'
  <2> HIDE DEF row
  <2>1. thread[t].todo \subseteq ItemsOf(j)' /\ thread[t].sid = None
    <3>1. thread[t].todo \subseteq ItemsOf(j) /\ thread[t].sid = None
      BY <1>1, <1>2 DEF ThreadIsBound
    <3>2. ItemsOf(j) \subseteq ItemsOf(j)'
      BY <1>2, <1>5
    <3> QED
      BY <3>1, <3>2
  <2>2. job'[j].status # "absent"
    BY <1>2, <1>5
  <2> HIDE DEF new
  <2> QED
    BY <1>2, <1>6, <2>1, <2>2 DEF ThreadIsBound, OnItem, HasWritten, ItemsOf
<1> HIDE DEF new, row
<1> QED
  BY <1>4, <1>5, <1>7, QuietStepBound DEF TakeItem

(* The files listed are of the folder; the subject looked up has its path. *)
LEMMA ListBound ==
  ASSUME Bound, NEW t \in Importers, ListFilesAndLookUp(t)
  PROVE  Bound'
<1>1. thread[t] \in ThreadRecord /\ ThreadIsBound(t) /\ thread[t].pc = "list"
  BY ThreadTyped DEF ListFilesAndLookUp
<1>2. PICK j \in Jobs, f \in Folders :
        /\ j = thread[t].job /\ job[j].status # "absent" /\ f = thread[t].folder
        /\ thread[t].todo \subseteq ItemsOf(j) /\ f \in ItemsOf(j) \ thread[t].todo
  BY <1>1 DEF ThreadIsBound, OnItem, ItemsOf
<1>3. PICK found \in Listable(f) :
        LET listed == [thread[t] EXCEPT !.pc = "write", !.files = found]
        IN \/ \E s \in SubjectIds : /\ Exists(s) /\ subject[s].path = f
                                    /\ Goes(t, [listed EXCEPT !.sid = s, !.row = subject[s]])
           \/ ~PathTaken(None, f) /\ Goes(t, listed)
  BY <1>2 DEF ListFilesAndLookUp
<1>4. found \in SUBSET Files /\ \A x \in found : FolderOf[x] = f
  BY DEF Listable
<1>5. UNCHANGED <<job, item, subject>>
  BY DEF ListFilesAndLookUp, RegisterUntouched, register
<1>6. ASSUME NEW s \in SubjectIds \cup {None}, NEW row \in SubjectRow,
             NEW new, new = [thread[t] EXCEPT !.pc = "write", !.files = found,
                                              !.sid = s, !.row = row],
             Goes(t, new),
             s # None => Exists(s) /\ row.type # "absent" /\ row.path = f
      PROVE  Bound'
  <2>1. /\ new \in ThreadRecord
        /\ new.pc = "write" /\ new.job = j /\ new.todo = thread[t].todo
        /\ new.folder = f /\ new.files = found /\ new.sid = s /\ new.row = row
    BY <1>1, <1>2, <1>4, <1>6 DEF ThreadRecord, Pcs
  <2>2. thread'[t] = new
    BY <1>6, <2>1, ThreadMoves DEF Bound
  <2>3. ThreadIsBound(t)'
    <3>1. thread[t].todo \subseteq ItemsOf(j)' /\ f \in ItemsOf(j)' \ thread[t].todo
      BY <1>2, <1>5 DEF ItemsOf
    <3>2. s # None => Exists(s)'
      BY <1>5, <1>6 DEF Exists
    <3> QED
      BY <1>2, <1>4, <1>5, <1>6, <2>1, <2>2, <3>1, <3>2 DEF ThreadIsBound, OnItem
  <2> QED
    BY <1>6, <2>1, <2>3, LocalStepBound DEF ListFilesAndLookUp
<1>7. CASE \E s \in SubjectIds :
             /\ Exists(s) /\ subject[s].path = f
             /\ Goes(t, [thread[t] EXCEPT !.pc = "write", !.files = found,
                                          !.sid = s, !.row = subject[s]])
  <2>1. \A s \in SubjectIds : subject[s] \in SubjectRow
    BY DEF Bound, TypeOK, RegisterTypeOK
  <2> QED
    BY <1>6, <1>7, <2>1 DEF Exists
<1>8. CASE Goes(t, [thread[t] EXCEPT !.pc = "write", !.files = found])
  <2>1. thread[t].sid = None /\ thread[t].row \in SubjectRow
    BY <1>1 DEF ThreadIsBound, ThreadRecord
  <2>2. [thread[t] EXCEPT !.pc = "write", !.files = found]
          = [thread[t] EXCEPT !.pc = "write", !.files = found,
                              !.sid = None, !.row = thread[t].row]
    BY <1>1, <2>1 DEF ThreadRecord
  <2> QED
    BY <1>6, <1>8, <2>1, <2>2
<1> QED
  BY <1>3, <1>7, <1>8

(* A write that is opened, or an item that goes to its handler.            *)
LEMMA PcMoveBound ==
  ASSUME Bound, NEW t \in Importers, NEW pc \in {"details", "written", "fail"},
         NEW details \in DetailsRows,
         Goes(t, [thread[t] EXCEPT !.pc = pc, !.details = details]),
         thread[t].pc \in HasWritten \cup {"write"},
         UNCHANGED <<register, call, calls, stale, job, item, shared, crashes>>,
         open' \in [Importers -> OpenWrite]
  PROVE  Bound'
<1>1. thread[t] \in ThreadRecord /\ ThreadIsBound(t)
  BY ThreadTyped
<1>2. PICK j \in Jobs, f \in Folders :
        /\ j = thread[t].job /\ job[j].status # "absent" /\ f = thread[t].folder
        /\ thread[t].todo \subseteq ItemsOf(j) /\ f \in ItemsOf(j) \ thread[t].todo
  BY <1>1 DEF ThreadIsBound, OnItem, HasWritten, ItemsOf
<1> DEFINE new == [thread[t] EXCEPT !.pc = pc, !.details = details]
<1>3. new \in ThreadRecord /\ Goes(t, new)
  BY <1>1 DEF ThreadRecord, Pcs
<1>4. /\ thread'[t].pc = pc /\ thread'[t].job = j /\ thread'[t].todo = thread[t].todo
      /\ thread'[t].folder = f /\ thread'[t].files = thread[t].files
      /\ thread'[t].sid = thread[t].sid /\ thread'[t].row = thread[t].row
  <2>1. thread'[t] = new
    BY <1>3, ThreadMoves DEF Bound
  <2> QED
    BY <1>1, <1>2, <2>1 DEF ThreadRecord
<1>5. ThreadIsBound(t)'
  <2>1. /\ thread[t].todo \subseteq ItemsOf(j)' /\ f \in ItemsOf(j)' \ thread[t].todo
        /\ job'[j].status # "absent"
    BY <1>2 DEF ItemsOf
  <2>2. /\ \A x \in thread[t].files : FolderOf[x] = f
        /\ thread[t].sid # None => /\ Exists(thread[t].sid) /\ thread[t].row.type # "absent"
                                   /\ thread[t].row.path = f
    BY <1>1, <1>2 DEF ThreadIsBound
  <2>3. \A s \in SubjectIds \cup {None} : Exists(s) => Exists(s)'
    BY DEF Exists, register
  <2>4. thread[t].sid \in SubjectIds \cup {None}
    BY <1>1 DEF ThreadRecord
  <2> HIDE DEF new
  <2> QED
    BY <1>2, <1>4, <2>1, <2>2, <2>3, <2>4 DEF ThreadIsBound, OnItem
<1>6. RegisterTypeOK' /\ JobsTyped
  BY DEF Bound, TypeOK, RegisterTypeOK, JobsTyped, register
<1>7. RowsStay
  BY DEF RowsStay, Exists, ItemsOf, register
<1> HIDE DEF new
<1> QED
  BY <1>3, <1>5, <1>6, <1>7, ThreadStepBound

(* A move alone leaves the details as they were read.                      *)
LEMMA MovesKeepsDetails ==
  ASSUME Bound, NEW t \in Importers, NEW pc, Moves(t, pc)
  PROVE  /\ thread[t].details \in DetailsRows
         /\ Goes(t, [thread[t] EXCEPT !.pc = pc, !.details = thread[t].details])
<1>1. thread[t] \in ThreadRecord
  BY ThreadTyped
<1>2. [thread[t] EXCEPT !.pc = pc]
        = [thread[t] EXCEPT !.pc = pc, !.details = thread[t].details]
  BY <1>1 DEF ThreadRecord
<1> QED
  BY <1>1, <1>2 DEF ThreadRecord, Moves

(* What an import has parsed is of the types of an open write.             *)
LEMMA ImportedTyped ==
  ASSUME NEW t \in Importers, thread[t].folder \in Folders
  PROVE  /\ ImportedType(t) \in SubjectTypes /\ ImportedKey(t) \in Keys \cup {None}
         /\ ImportedDetails(t) \in DetailsRows
         /\ ImportedDetails(t) = DetailsFor(ImportedType(t), ImportedKey(t))
<1>1. ImportedType(t) \in SubjectTypes /\ ImportedKey(t) \in Keys \cup {None}
  BY ParserType DEF ImportedType, ImportedKey
<1> QED
  BY <1>1, DetailsTyped DEF ImportedDetails

(* The flushes, and the conflicts, change only where it is.                *)
LEMMA WriteStepsBound ==
  ASSUME Bound, NEW t \in Importers,
         WriteSubject(t) \/ WriteDetails(t) \/ DetailsConflict(t) \/ DocumentsConflict(t)
  PROVE  Bound'
<1>1. thread[t] \in ThreadRecord /\ ThreadIsBound(t) /\ open \in [Importers -> OpenWrite]
  BY ThreadTyped DEF Bound, TypeOK, RegisterTypeOK
<1>2. CASE WriteSubject(t)
  <2>1. thread[t].pc = "write" /\ thread[t].folder \in Folders
    BY <1>1, <1>2 DEF WriteSubject, ThreadIsBound, OnItem, ItemsOf
  <2>2. CASE Moves(t, "fail") /\ UNCHANGED open
    BY <1>1, <1>2, <2>1, <2>2, MovesKeepsDetails, PcMoveBound DEF WriteSubject
  <2>3. ASSUME NEW target \in SubjectIds,
               Goes(t, [thread[t] EXCEPT !.pc = "details", !.details = DetailsOf(target)]),
               open' = [open EXCEPT ![t] =
                          [sid |-> target, fresh |-> thread[t].sid = None,
                           path |-> thread[t].folder,
                           type |-> ImportedType(t), key |-> ImportedKey(t),
                           holds |-> {}]]
        PROVE  Bound'
    <3>1. ImportedType(t) \in SubjectTypes /\ ImportedKey(t) \in Keys \cup {None}
      BY <2>1, ImportedTyped
    <3>2. [sid |-> target, fresh |-> thread[t].sid = None, path |-> thread[t].folder,
           type |-> ImportedType(t), key |-> ImportedKey(t), holds |-> {}] \in OpenWrite
      BY <2>1, <3>1 DEF OpenWrite
    <3>3. open' \in [Importers -> OpenWrite]
      BY <1>1, <2>3, <3>2
    <3>4. DetailsOf(target) \in DetailsRows
      BY DetailsTyped DEF Bound
    <3> QED
      BY <1>2, <2>1, <2>3, <3>3, <3>4, PcMoveBound DEF WriteSubject
  <2>4. thread[t].sid \in SubjectIds \cup {None}
    BY <1>1 DEF ThreadRecord
  <2> QED
    BY <1>2, <2>2, <2>3, <2>4 DEF WriteSubject
<1>3. CASE DocumentsConflict(t)
  <2>1. open' \in [Importers -> OpenWrite]
    BY <1>1, <1>3, RowsTyped DEF DocumentsConflict
  <2>2. thread[t].pc \in HasWritten /\ Moves(t, "fail")
    BY <1>3 DEF DocumentsConflict, HasWritten
  <2> QED
    BY <1>3, <2>1, <2>2, MovesKeepsDetails, PcMoveBound DEF DocumentsConflict
<1>4. CASE WriteDetails(t)
  <2>1. open' \in [Importers -> OpenWrite]
    <3>1. Sent(thread[t].details, ImportedDetails(t)) \subseteq Details
      BY DEF Sent
    <3>2. open' = [open EXCEPT ![t].holds = Sent(thread[t].details, ImportedDetails(t))]
      BY <1>4 DEF WriteDetails
    <3> QED
      BY <1>1, <3>1, <3>2 DEF OpenWrite
  <2>2. thread[t].pc \in HasWritten /\ Moves(t, "written")
    BY <1>4 DEF WriteDetails, HasWritten
  <2> QED
    BY <1>4, <2>1, <2>2, MovesKeepsDetails, PcMoveBound DEF WriteDetails
<1>5. CASE DetailsConflict(t)
  <2>1. open' \in [Importers -> OpenWrite]
    BY <1>1, <1>5, RowsTyped DEF DetailsConflict
  <2>2. thread[t].pc \in HasWritten /\ Moves(t, "fail")
    BY <1>5 DEF DetailsConflict, HasWritten
  <2> QED
    BY <1>5, <2>1, <2>2, MovesKeepsDetails, PcMoveBound DEF DetailsConflict
<1> QED
  BY <1>2, <1>3, <1>4, <1>5

(* They move the thread on within its item.                                *)
LEMMA FlushMoves ==
  ASSUME Bound, NEW t \in Importers,
         WriteSubject(t) \/ WriteDetails(t) \/ DetailsConflict(t) \/ DocumentsConflict(t)
  PROVE  \E pc \in {"details", "written", "fail"}, details \in DetailsRows :
           Goes(t, [thread[t] EXCEPT !.pc = pc, !.details = details])
<1>1. CASE \E pc \in {"written", "fail"} : Moves(t, pc)
  BY <1>1, MovesKeepsDetails
<1>2. CASE \E target \in SubjectIds :
             Goes(t, [thread[t] EXCEPT !.pc = "details", !.details = DetailsOf(target)])
  BY <1>2, DetailsTyped DEF Bound
<1>3. ASSUME WriteSubject(t)
      PROVE  \/ \E target \in SubjectIds :
                  Goes(t, [thread[t] EXCEPT !.pc = "details", !.details = DetailsOf(target)])
             \/ Moves(t, "fail")
  <2>1. thread[t].sid \in SubjectIds \cup {None}
    BY ThreadTyped DEF ThreadRecord
  <2> QED
    BY <1>3, <2>1 DEF WriteSubject
<1> QED
  BY <1>1, <1>2, <1>3 DEF WriteDetails, DetailsConflict, DocumentsConflict

(* A thread that is done with an item is back at the head of its loop.     *)
BackAtHead(t, j, todo) == [Idle EXCEPT !.pc = "head", !.job = j, !.todo = todo]

(* A thread back at the head of its loop is typed.                         *)
LEMMA BackAtHeadTyped ==
  ASSUME NEW t, NEW j \in Jobs, NEW todo \in SUBSET Folders
  PROVE  /\ BackAtHead(t, j, todo) \in ThreadRecord
         /\ BackAtHead(t, j, todo).pc = "head"
         /\ BackAtHead(t, j, todo).job = j
         /\ BackAtHead(t, j, todo).todo = todo
         /\ BackAtHead(t, j, todo).sid = None
BY RowsTyped DEF BackAtHead, Idle, ThreadRecord, Pcs

(* A thread that leaves an item, written with what became of it, keeps     *)
(* everything bound if it leaves a typed register.                         *)
LEMMA LeaveItemBound ==
  ASSUME Bound, NEW t \in Importers, thread[t].pc \in OnItem,
         Goes(t, BackAtHead(t, thread[t].job, thread[t].todo)),
         NEW row \in ItemRow, row.status # "absent",
         ItemSet(thread[t].job, thread[t].folder, row),
         UNCHANGED <<job, shared, crashes, call>>, RegisterTypeOK',
         \A s \in SubjectIds : Exists(s) => Exists(s)'
  PROVE  Bound'
<1>1. thread[t] \in ThreadRecord /\ ThreadIsBound(t)
  BY ThreadTyped
<1>2. PICK j \in Jobs, f \in Folders, todo \in SUBSET Folders :
        /\ j = thread[t].job /\ job[j].status # "absent" /\ f = thread[t].folder
        /\ todo = thread[t].todo /\ todo \subseteq ItemsOf(j) /\ f \in ItemsOf(j)
  BY <1>1 DEF ThreadIsBound, OnItem, ItemsOf
<1>3. /\ JobsTyped
      /\ \A k \in Jobs : job[k].status # "absent" =>
           job'[k].status # "absent" /\ ItemsOf(k) \subseteq ItemsOf(k)'
  BY <1>2, ItemStepRows
<1>4. RowsStay
  BY <1>3 DEF RowsStay
<1>5. BackAtHead(t, j, todo) \in ThreadRecord /\ thread'[t] = BackAtHead(t, j, todo)
  BY <1>2, BackAtHeadTyped, ThreadMoves DEF Bound
<1>6. ThreadIsBound(t)'
  <2>1. todo \subseteq ItemsOf(j)' /\ job'[j].status # "absent"
    BY <1>2, <1>3
  <2>2. /\ thread'[t].pc = "head" /\ thread'[t].job = j
        /\ thread'[t].todo = todo /\ thread'[t].sid = None
    BY <1>5, BackAtHeadTyped
  <2> QED
    BY <2>1, <2>2 DEF ThreadIsBound, OnItem, HasWritten
<1> QED
  BY <1>2, <1>3, <1>4, <1>5, <1>6, ThreadStepBound

(* A failed item gives its thread back to the loop.                        *)
LEMMA FailBound ==
  ASSUME Bound, NEW t \in Importers, FailItem(t)
  PROVE  Bound'
<1>1. thread[t] \in ThreadRecord /\ ThreadIsBound(t) /\ thread[t].pc \in OnItem
  BY ThreadTyped DEF FailItem, OnItem
<1>2. thread[t].job \in Jobs /\ thread[t].folder \in Folders
  BY <1>1 DEF ThreadIsBound, OnItem, ItemsOf
<1> DEFINE row == FailedItem(item[thread[t].job][thread[t].folder])
<1>3. row \in ItemRow /\ row.status # "absent"
  <2>1. item[thread[t].job][thread[t].folder] \in ItemRow
    BY <1>2 DEF Bound, TypeOK
  <2> QED
    BY <2>1 DEF FailedItem, ItemRow, ItemStatus
<1>4. ItemSet(thread[t].job, thread[t].folder, row)
  BY <1>2 DEF FailItem, ItemSet, Bound, TypeOK
<1>5. RegisterTypeOK' /\ \A s \in SubjectIds : Exists(s) => Exists(s)'
  BY DEF FailItem, RegisterUntouched, register, RegisterTypeOK, Bound, TypeOK, Exists
<1>6. Goes(t, BackAtHead(t, thread[t].job, thread[t].todo)) /\ UNCHANGED call
  BY DEF FailItem, BackAtHead, RegisterUntouched
<1> HIDE DEF row
<1> QED
  BY <1>1, <1>3, <1>4, <1>5, <1>6, LeaveItemBound DEF FailItem

(* What a commit of an item writes.                                        *)
LEMMA CommitWrites ==
  ASSUME Bound, NEW t \in Importers, CommitItem(t)
  PROVE  /\ subject' = [subject EXCEPT ![open[t].sid] = CommittedSubject(t)]
         /\ documents' = [d \in DocIds |-> CommittedDoc(t, d)]
         /\ Goes(t, BackAtHead(t, thread[t].job, thread[t].todo))
         /\ ItemSet(thread[t].job, thread[t].folder,
                    [status |-> "completed", sid |-> open[t].sid])
BY Zenon DEF CommitItem, BackAtHead, ItemSet

(* What it writes is typed.                                                *)
LEMMA CommitTyped ==
  ASSUME Bound, NEW t \in Importers, thread[t].pc = "commit"
  PROVE  /\ ImportedSubject(t) \in SubjectRow /\ ImportedSubject(t).type # "absent"
         /\ open[t].sid \in SubjectIds => CommittedSubject(t) \in SubjectRow
         /\ open[t].sid \in SubjectIds /\ Exists(open[t].sid)
              => CommittedSubject(t).type # "absent"
         /\ open[t].fresh => CommittedSubject(t) = ImportedSubject(t)
         /\ \A x \in Files : ImportedDoc(t, x) \in DocRow
         /\ \A d \in DocIds : CommittedDoc(t, d) \in DocRow
<1>1. thread[t] \in ThreadRecord /\ ThreadIsBound(t)
  BY ThreadTyped
<1>2. thread[t].folder \in Folders
  BY <1>1 DEF ThreadIsBound, OnItem, ItemsOf
<1>3. ImportedSubject(t) \in SubjectRow /\ ImportedSubject(t).type \in SubjectTypes
  BY <1>2, ParserType DEF ImportedSubject, ImportedType, SubjectRow, SubjectStatus
<1>4. ImportedSubject(t).type # "absent"
  BY <1>3 DEF SubjectTypes
<1>5. open[t] \in OpenWrite
  BY DEF Bound, TypeOK, RegisterTypeOK
<1>6. \A x \in Files : ImportedDoc(t, x) \in DocRow
  BY <1>5, ClassifierType DEF ImportedDoc, DocRow, OpenWrite
<1>7. \A d \in DocIds : CommittedDoc(t, d) \in DocRow
  <2> SUFFICES ASSUME NEW d \in DocIds PROVE CommittedDoc(t, d) \in DocRow
    OBVIOUS
  <2>1. d[1] \in Files
    BY DEF DocIds
  <2>2. documents[d] \in DocRow /\ thread[t].docs[d] \in DocRow
    BY <1>1 DEF Bound, TypeOK, RegisterTypeOK, ThreadRecord
  <2>3. ImportedDoc(t, d[1]) \in DocRow
    BY <1>6, <2>1
  <2> QED
    BY <2>2, <2>3, FlushesTyped DEF CommittedDoc
<1>8. open[t].fresh => CommittedSubject(t) = ImportedSubject(t)
  BY DEF CommittedSubject
<1>9. /\ open[t].sid \in SubjectIds => CommittedSubject(t) \in SubjectRow
      /\ open[t].sid \in SubjectIds /\ Exists(open[t].sid)
           => CommittedSubject(t).type # "absent"
  <2> DEFINE new == [ImportedSubject(t) EXCEPT !.path = thread[t].row.path]
  <2>1. new \in SubjectRow /\ new.type # "absent"
    BY <1>1, <1>3, <1>4 DEF ThreadRecord, SubjectRow
  <2>2. open[t].sid \in SubjectIds => subject[open[t].sid] \in SubjectRow
    BY DEF Bound, TypeOK, RegisterTypeOK
  <2>3. thread[t].row \in SubjectRow
    BY <1>1 DEF ThreadRecord
  <2> HIDE DEF new
  <2> QED
    BY <1>3, <1>4, <2>1, <2>2, <2>3, FlushesTyped DEF CommittedSubject, Exists, new
<1> QED
  BY <1>3, <1>4, <1>6, <1>7, <1>8, <1>9

(* A commit keeps subjects and items existing, and gives its thread back   *)
(* to the loop.                                                            *)
LEMMA CommitBound ==
  ASSUME Bound, NEW t \in Importers, CommitItem(t)
  PROVE  Bound'
<1>1. thread[t].pc = "commit" /\ thread[t].pc \in OnItem
  BY DEF CommitItem, OnItem
<1>2. open[t] \in OpenWrite
  BY DEF Bound, TypeOK, RegisterTypeOK
<1>3. subject' \in [SubjectIds -> SubjectRow] /\ \A s \in SubjectIds : Exists(s) => Exists(s)'
  <2>1. subject' = [subject EXCEPT ![open[t].sid] = CommittedSubject(t)]
    BY CommitWrites
  <2>2. /\ open[t].sid \in SubjectIds => CommittedSubject(t) \in SubjectRow
        /\ open[t].sid \in SubjectIds /\ Exists(open[t].sid)
             => CommittedSubject(t).type # "absent"
    BY <1>1, CommitTyped
  <2>3. subject \in [SubjectIds -> SubjectRow]
    BY DEF Bound, TypeOK, RegisterTypeOK
  <2> QED
    BY <2>1, <2>2, <2>3 DEF Exists
<1>4. documents' \in [DocIds -> DocRow]
  <2>1. documents' = [d \in DocIds |-> CommittedDoc(t, d)]
    BY CommitWrites
  <2>2. \A d \in DocIds : CommittedDoc(t, d) \in DocRow
    BY <1>1, CommitTyped
  <2> QED
    BY <2>1, <2>2
<1>5. /\ person' \in [SubjectIds -> Keys \cup {None}]
      /\ company' \in [SubjectIds -> Keys \cup {None}]
  <2>1. /\ person' = [person EXCEPT ![open[t].sid] =
                         CommittedKey(t, "person", PersonKey(open[t].type, open[t].key), @)]
        /\ company' = [company EXCEPT ![open[t].sid] =
                          CommittedKey(t, "company", CompanyKey(open[t].type, open[t].key), @)]
    BY DEF CommitItem
  <2>2. /\ PersonKey(open[t].type, open[t].key) \in Keys \cup {None}
        /\ CompanyKey(open[t].type, open[t].key) \in Keys \cup {None}
    BY <1>2 DEF PersonKey, CompanyKey, OpenWrite
  <2> QED
    BY <2>1, <2>2 DEF CommittedKey, Bound, TypeOK, RegisterTypeOK
<1>6. UNCHANGED <<call, calls, job, shared, crashes>>
  BY DEF CommitItem
<1>7. RegisterTypeOK'
  <2>1. open' \in [Importers -> OpenWrite]
    <3>1. open' = [open EXCEPT ![t] = NoWrite]
      BY DEF CommitItem
    <3> QED
      BY <3>1, RowsTyped DEF Bound, TypeOK, RegisterTypeOK
  <2>2. stale' \in BOOLEAN
    <3>1. stale' = (stale \/ OverChangedRows(t))
      BY DEF CommitItem
    <3> QED
      BY <3>1
  <2> QED
    BY <1>3, <1>4, <1>5, <1>6, <2>1, <2>2 DEF Bound, TypeOK, RegisterTypeOK
<1> DEFINE row == [status |-> "completed", sid |-> open[t].sid]
<1>8. row \in ItemRow /\ row.status # "absent"
  BY <1>2 DEF ItemRow, ItemStatus, OpenWrite
<1> QED
  BY <1>1, <1>3, <1>6, <1>7, <1>8, CommitWrites, LeaveItemBound

(* A crash leaves nothing held.                                            *)
LEMMA CrashBound ==
  ASSUME Bound, Crash
  PROVE  Bound'
<1>1. /\ thread' = [t \in Importers |-> Idle] /\ open' = [t \in Importers |-> NoWrite]
      /\ call' = [h \in Handlers |-> NoCall]
      /\ UNCHANGED <<register, calls, stale, job, item, shared>>
  BY DEF Crash
<1>2. TypeOK'
  BY <1>1, RowsTyped DEF Crash, Bound, TypeOK, RegisterTypeOK, register
<1>3. CallsAreBound'
  BY <1>1 DEF CallsAreBound, CallIsBound, NoCall
<1>4. ThreadsAreBound'
  BY <1>1 DEF ThreadsAreBound, ThreadIsBound, Idle, OnItem
<1> QED
  BY <1>2, <1>3, <1>4 DEF Bound

(* A step of an operator keeps everything bound if what it writes is typed,*)
(* no subject goes, and the calls stay bound.                              *)
LEMMA OperatorBound ==
  ASSUME Bound, UNCHANGED imports, RegisterTypeOK', CallsAreBound',
         \A s \in SubjectIds : Exists(s) => Exists(s)'
  PROVE  Bound'
<1>1. UNCHANGED <<job, item, thread, shared, crashes>>
  BY DEF imports
<1>2. RowsStay
  BY <1>1 DEF RowsStay, ItemsOf
<1>3. TypeOK'
  BY <1>1 DEF Bound, TypeOK
<1>4. ThreadsAreBound'
  BY <1>1, <1>2, ThreadTyped, OthersStayBound DEF ThreadsAreBound, ThreadRecord
<1> QED
  BY <1>3, <1>4 DEF Bound

(* A call that ends holds nothing; the others hold what they did.          *)
LEMMA RepliedBound ==
  ASSUME Bound, NEW h \in Handlers, call' = [call EXCEPT ![h] = NoCall],
         \A s \in SubjectIds : Exists(s) => Exists(s)'
  PROVE  call' \in [Handlers -> CallRecord] /\ CallsAreBound'
<1>1. call' \in [Handlers -> CallRecord]
  BY RowsTyped DEF Bound, TypeOK, RegisterTypeOK
<1>2. ASSUME NEW g \in Handlers
      PROVE  CallIsBound(g)'
  <2>1. CASE g = h
    BY <2>1 DEF NoCall, CallIsBound, Bound, TypeOK, RegisterTypeOK
  <2>2. CASE g # h
    <3>1. call'[g] = call[g]
      BY <2>2 DEF Bound, TypeOK, RegisterTypeOK
    <3> QED
      BY <3>1 DEF Bound, CallsAreBound, CallIsBound, Exists
  <2> QED
    BY <2>1, <2>2
<1> QED
  BY <1>1, <1>2 DEF CallsAreBound, CallIsBound

(* A call that begins holds a row that exists.                             *)
LEMMA ReadBound ==
  ASSUME Bound, UNCHANGED imports, NEW h \in Handlers, NEW c \in CallRecord,
         Receive(h, c),
         c.op \in {"update", "details", "deactivate"} =>
           c.sid \in SubjectIds /\ Exists(c.sid) /\ c.row.type # "absent",
         c.op \in {"patch", "delete"} => c.doc \in DocIds /\ c.docRow.owner # None
  PROVE  Bound'
<1>1. UNCHANGED <<register, open, stale>> /\ call' = [call EXCEPT ![h] = c] /\ calls' = calls + 1
  BY DEF Receive
<1>2. RegisterTypeOK'
  BY <1>1 DEF Bound, TypeOK, RegisterTypeOK, register
<1>3. CallsAreBound'
  BY <1>1 DEF Bound, TypeOK, RegisterTypeOK, CallsAreBound, CallIsBound, Exists, register
<1>4. \A s \in SubjectIds : Exists(s) => Exists(s)'
  BY <1>1 DEF Exists, register
<1> QED
  BY <1>2, <1>3, <1>4, OperatorBound

(* The handlers' reads hold the row they have read.                        *)
LEMMA ReadsBound ==
  ASSUME Bound, UNCHANGED imports, NEW h \in Handlers
  PROVE  /\ \A s \in SubjectIds, op \in {"update", "deactivate"} : ReadSubject(h, op, s) => Bound'
         /\ \A d \in DocIds, op \in {"patch", "delete"} : ReadDocument(h, op, d) => Bound'
<1>1. ASSUME NEW s \in SubjectIds, NEW op \in {"update", "deactivate"}, ReadSubject(h, op, s)
      PROVE  Bound'
  <2> DEFINE c == [NoCall EXCEPT !.op = op, !.sid = s, !.row = subject[s]]
  <2>1. c \in CallRecord
    BY RowsTyped DEF CallRecord, Bound, TypeOK, RegisterTypeOK
  <2>2. /\ c.op \in {"update", "deactivate"} /\ c.sid = s /\ c.row.type # "absent"
        /\ Exists(s) /\ Receive(h, c)
    BY <1>1 DEF ReadSubject, Exists, NoCall
  <2> HIDE DEF c
  <2> QED
    BY <2>1, <2>2, ReadBound
<1>2. ASSUME NEW d \in DocIds, NEW op \in {"patch", "delete"}, ReadDocument(h, op, d)
      PROVE  Bound'
  <2> DEFINE c == [NoCall EXCEPT !.op = op, !.doc = d, !.docRow = documents[d]]
  <2>1. c \in CallRecord
    BY RowsTyped DEF CallRecord, Bound, TypeOK, RegisterTypeOK
  <2>2. /\ c.op \in {"patch", "delete"} /\ c.doc = d /\ c.docRow.owner # None
        /\ Receive(h, c)
    BY <1>2 DEF ReadDocument, NoCall
  <2> HIDE DEF c
  <2> QED
    BY <2>1, <2>2, ReadBound
<1> QED
  BY <1>1, <1>2

(* A call that has read the details of its subject holds them too.         *)
LEMMA DetailsReadBound ==
  ASSUME Bound, UNCHANGED imports, NEW h \in Handlers, ReadDetails(h)
  PROVE  Bound'
<1>1. /\ call[h].op = "update" /\ call[h] \in CallRecord
      /\ call[h].sid \in SubjectIds /\ Exists(call[h].sid) /\ call[h].row.type # "absent"
  BY DEF ReadDetails, Bound, TypeOK, RegisterTypeOK, CallsAreBound, CallIsBound
<1> DEFINE c == [call[h] EXCEPT !.op = "details", !.details = DetailsOf(call[h].sid)]
<1>2. /\ c \in CallRecord /\ c.op = "details"
      /\ c.sid = call[h].sid /\ c.row = call[h].row
  BY <1>1, DetailsTyped DEF CallRecord, Bound
<1>3. UNCHANGED <<register, open, calls, stale>> /\ call' = [call EXCEPT ![h] = c]
  BY <1>1 DEF ReadDetails, CallRecord, Bound, TypeOK, RegisterTypeOK
<1>4. RegisterTypeOK'
  BY <1>2, <1>3 DEF Bound, TypeOK, RegisterTypeOK, register
<1>5. CallsAreBound'
  <2> HIDE DEF c
  <2> SUFFICES ASSUME NEW g \in Handlers PROVE CallIsBound(g)'
    BY DEF CallsAreBound
  <2>1. UNCHANGED subject /\ call'[g] = IF g = h THEN c ELSE call[g]
    BY <1>3 DEF register, Bound, TypeOK, RegisterTypeOK
  <2>2. CASE g = h
    BY <1>1, <1>2, <2>1, <2>2 DEF CallIsBound, Exists
  <2>3. CASE g # h
    BY <2>1, <2>3 DEF CallIsBound, Exists, Bound, CallsAreBound
  <2> QED
    BY <2>2, <2>3
<1>6. \A s \in SubjectIds : Exists(s) => Exists(s)'
  BY <1>3 DEF Exists, register
<1> QED
  BY <1>4, <1>5, <1>6, OperatorBound

(* A subject created is typed, and takes no other's place.                 *)
LEMMA CreateBound ==
  ASSUME Bound, UNCHANGED imports, NEW s \in SubjectIds, NEW type \in SubjectTypes,
         NEW path \in Folders \cup {None}, NEW key \in Keys \cup {None},
         CreateSubject(s, type, path, key)
  PROVE  Bound'
<1>1. [type |-> type, status |-> "active", path |-> path] \in SubjectRow /\ type # "absent"
  BY DEF SubjectRow, SubjectStatus, SubjectTypes
<1>2. \A o \in SubjectIds : Exists(o) => Exists(o)'
  BY <1>1 DEF CreateSubject, Exists, Bound, TypeOK, RegisterTypeOK
<1>3. RegisterTypeOK'
  BY <1>1 DEF CreateSubject, Bound, TypeOK, RegisterTypeOK, PersonKey, CompanyKey
<1>4. CallsAreBound'
  <2>1. UNCHANGED call
    BY DEF CreateSubject
  <2> QED
    BY <1>2, <2>1 DEF CallsAreBound, CallIsBound, Bound, Exists
<1> QED
  BY <1>2, <1>3, <1>4, OperatorBound

(* The rows that a call which has read a subject can write.                *)
LEMMA CallTyped ==
  ASSUME Bound, NEW h \in Handlers
  PROVE  /\ call[h] \in CallRecord
         /\ call[h].op \in {"update", "details", "deactivate"} =>
              /\ call[h].sid \in SubjectIds /\ Exists(call[h].sid)
              /\ call[h].row \in SubjectRow /\ call[h].row.type # "absent"
              /\ subject[call[h].sid] \in SubjectRow
         /\ call[h].op \in {"patch", "delete"} =>
              /\ call[h].doc \in DocIds /\ call[h].docRow.owner # None
              /\ call[h].docRow \in DocRow /\ documents[call[h].doc] \in DocRow
<1>1. call[h] \in CallRecord
  BY DEF Bound, TypeOK, RegisterTypeOK
<1>2. call[h].row \in SubjectRow /\ call[h].docRow \in DocRow
  BY <1>1 DEF CallRecord
<1> QED
  BY <1>1, <1>2 DEF Bound, TypeOK, RegisterTypeOK, CallsAreBound, CallIsBound

(* The flush of a subject that was read keeps it existing.                 *)
LEMMA SubjectCommitBound ==
  ASSUME Bound, UNCHANGED imports, NEW h \in Handlers,
         call[h].op \in {"update", "details", "deactivate"},
         NEW new \in SubjectRow, new.type = call[h].row.type,
         subject' = [subject EXCEPT ![call[h].sid] =
                       FlushSubject(subject[call[h].sid], call[h].row, new)],
         person' \in [SubjectIds -> Keys \cup {None}],
         company' \in [SubjectIds -> Keys \cup {None}],
         NEW changed, Reply(h, changed), UNCHANGED documents
  PROVE  Bound'
<1> DEFINE row == FlushSubject(subject[call[h].sid], call[h].row, new)
<1>1. row \in SubjectRow /\ row.type # "absent"
  BY CallTyped, FlushesTyped DEF Exists
<1>2. subject' \in [SubjectIds -> SubjectRow] /\ \A s \in SubjectIds : Exists(s) => Exists(s)'
  <2> HIDE DEF row
  <2>1. subject' = [subject EXCEPT ![call[h].sid] = row] /\ call[h].sid \in SubjectIds
    BY CallTyped DEF row
  <2> QED
    BY <1>1, <2>1 DEF Exists, Bound, TypeOK, RegisterTypeOK
<1>3. call' \in [Handlers -> CallRecord] /\ CallsAreBound'
  BY <1>2, RepliedBound DEF Reply
<1>4. stale' \in BOOLEAN /\ UNCHANGED <<calls, open>>
  <2>1. stale' = (stale \/ changed) /\ UNCHANGED <<calls, open>>
    BY DEF Reply
  <2> QED
    BY <2>1
<1>5. RegisterTypeOK'
  BY <1>2, <1>3, <1>4 DEF RegisterTypeOK, Bound, TypeOK
<1> QED
  BY <1>2, <1>3, <1>5, OperatorBound

(* A call that writes documents leaves the subjects alone.                 *)
LEMMA DocCommitBound ==
  ASSUME Bound, UNCHANGED imports, NEW h \in Handlers,
         documents' \in [DocIds -> DocRow],
         NEW changed, Reply(h, changed), UNCHANGED <<subject, person, company>>
  PROVE  Bound'
<1>1. \A s \in SubjectIds : Exists(s) => Exists(s)'
  BY DEF Exists
<1>2. call' \in [Handlers -> CallRecord] /\ CallsAreBound'
  BY <1>1, RepliedBound DEF Reply
<1>3. stale' \in BOOLEAN /\ UNCHANGED <<calls, open>>
  <2>1. stale' = (stale \/ changed) /\ UNCHANGED <<calls, open>>
    BY DEF Reply
  <2> QED
    BY <2>1
<1>4. RegisterTypeOK'
  BY <1>2, <1>3 DEF RegisterTypeOK, Bound, TypeOK
<1> QED
  BY <1>1, <1>2, <1>4, OperatorBound

(* The handlers' commits and failures drop what they held.                 *)
LEMMA CommitsBound ==
  ASSUME Bound, UNCHANGED imports, NEW h \in Handlers
  PROVE  /\ \A new \in UpdatedRows(call[h].row), key \in Keys \cup {None} :
              CommitUpdate(h, new, key) => Bound'
         /\ CommitDeactivate(h) => Bound'
         /\ \A type \in ChosenTypes : CommitPatch(h, type) => Bound'
         /\ CommitDelete(h) => Bound'
         /\ CallFails(h) => Bound'
<1>1. ASSUME NEW new \in UpdatedRows(call[h].row), NEW key \in Keys \cup {None},
             CommitUpdate(h, new, key)
      PROVE  Bound'
  <2>1. /\ call[h].op \in {"update", "details"} /\ call[h].row \in SubjectRow
        /\ call[h].details \in DetailsRows
    BY <1>1, CallTyped DEF CommitUpdate, CallRecord
  <2>2. new \in SubjectRow /\ new.type = call[h].row.type
    BY DEF UpdatedRows
  <2>3. /\ person' \in [SubjectIds -> Keys \cup {None}]
        /\ company' \in [SubjectIds -> Keys \cup {None}]
    <3> DEFINE details == IF key = None THEN call[h].details
                          ELSE DetailsFor(call[h].row.type, key)
    <3>1. details \in DetailsRows
      BY <2>1, DetailsTyped
    <3>2. details["person"] \in Keys \cup {None} /\ details["company"] \in Keys \cup {None}
      BY <3>1, DetailsTyped DEF DetailsRows
    <3>3. /\ person' = [person EXCEPT ![call[h].sid] =
                           Column(@, call[h].details["person"], details["person"])]
          /\ company' = [company EXCEPT ![call[h].sid] =
                            Column(@, call[h].details["company"], details["company"])]
      BY <1>1 DEF CommitUpdate
    <3> HIDE DEF details
    <3> QED
      BY <3>2, <3>3 DEF Column, Bound, TypeOK, RegisterTypeOK
  <2>4. /\ subject' = [subject EXCEPT ![call[h].sid] =
                         FlushSubject(subject[call[h].sid], call[h].row, new)]
        /\ UNCHANGED documents
        /\ Reply(h, call[h].row # subject[call[h].sid]
                     \/ (key # None /\ call[h].details # DetailsOf(call[h].sid)))
    BY <1>1, <2>1, CallTyped DEF CommitUpdate, Bound, TypeOK, RegisterTypeOK
  <2> QED
    BY <2>1, <2>2, <2>3, <2>4, SubjectCommitBound
<1>2. ASSUME CommitDeactivate(h)
      PROVE  Bound'
  <2> DEFINE new == [call[h].row EXCEPT !.status = "inactive"]
  <2>1. call[h].op = "deactivate" /\ call[h].row \in SubjectRow
    BY <1>2, CallTyped DEF CommitDeactivate
  <2>2. new \in SubjectRow /\ new.type = call[h].row.type
    BY <2>1 DEF SubjectRow, SubjectStatus
  <2>3. /\ person' \in [SubjectIds -> Keys \cup {None}]
        /\ company' \in [SubjectIds -> Keys \cup {None}]
    BY <1>2 DEF CommitDeactivate, Bound, TypeOK, RegisterTypeOK
  <2>4. /\ subject' = [subject EXCEPT ![call[h].sid] =
                         FlushSubject(subject[call[h].sid], call[h].row, new)]
        /\ Reply(h, call[h].row # subject[call[h].sid]) /\ UNCHANGED documents
    BY <1>2, <2>1, CallTyped DEF CommitDeactivate, Bound, TypeOK, RegisterTypeOK
  <2> HIDE DEF new
  <2> QED
    BY <2>1, <2>2, <2>3, <2>4, SubjectCommitBound
<1>3. ASSUME NEW type \in ChosenTypes, CommitPatch(h, type)
      PROVE  Bound'
  <2>1. call[h].op = "patch" /\ call[h].docRow \in DocRow /\ documents[call[h].doc] \in DocRow
    BY <1>3, CallTyped DEF CommitPatch
  <2>2. PatchedDoc(call[h].docRow, type) \in DocRow
    BY <2>1 DEF PatchedDoc, DocRow
  <2>3. documents' \in [DocIds -> DocRow]
    BY <1>3, <2>1, <2>2, FlushesTyped DEF CommitPatch, Bound, TypeOK, RegisterTypeOK
  <2> QED
    BY <1>3, <2>3, DocCommitBound DEF CommitPatch
<1>4. ASSUME CommitDelete(h)
      PROVE  Bound'
  <2>1. documents' \in [DocIds -> DocRow]
    BY <1>4, RowsTyped DEF CommitDelete, Bound, TypeOK, RegisterTypeOK
  <2> QED
    BY <1>4, <2>1, DocCommitBound DEF CommitDelete
<1>5. ASSUME CallFails(h)
      PROVE  Bound'
  <2>1. documents' \in [DocIds -> DocRow] /\ UNCHANGED <<subject, person, company>>
    BY <1>5 DEF CallFails, register, Bound, TypeOK, RegisterTypeOK
  <2> QED
    BY <1>5, <2>1, DocCommitBound DEF CallFails
<1> QED
  BY <1>1, <1>2, <1>3, <1>4, <1>5

(* Every step keeps everything typed and bound.                            *)
LEMMA OperatorStepBound ==
  ASSUME Bound, OperatorStep, UNCHANGED imports
  PROVE  Bound'
<1>1. CASE \E s \in SubjectIds, type \in SubjectTypes, path \in Folders \cup {None} :
             \E key \in IF type = "unknown" THEN {None} ELSE Keys :
               CreateSubject(s, type, path, key)
  <2>1. PICK s \in SubjectIds, type \in SubjectTypes, path \in Folders \cup {None} :
          \E key \in Keys \cup {None} : CreateSubject(s, type, path, key)
    BY <1>1
  <2> QED
    BY <2>1, CreateBound
<1>2. CASE \E h \in Handlers :
             \/ \E s \in SubjectIds, op \in {"update", "deactivate"} : ReadSubject(h, op, s)
             \/ \E d \in DocIds, op \in {"patch", "delete"} : ReadDocument(h, op, d)
             \/ ReadDetails(h)
  BY <1>2, ReadsBound, DetailsReadBound
<1>3. CASE \E h \in Handlers :
             \/ \E new \in UpdatedRows(call[h].row), key \in Keys \cup {None} :
                  CommitUpdate(h, new, key)
             \/ CommitDeactivate(h)
             \/ \E type \in ChosenTypes : CommitPatch(h, type)
             \/ CommitDelete(h)
             \/ CallFails(h)
  BY <1>3, CommitsBound
<1> QED
  BY <1>1, <1>2, <1>3 DEF OperatorStep

(* The three kinds of step together: threads, operators, crashes.          *)
LEMMA NextBound ==
  ASSUME Bound, [Next]_vars
  PROVE  Bound'
<1>1. ASSUME NEW t \in Importers, NEW scope \in Scopes, Request(t, scope)
      PROVE  Bound'
  BY <1>1, RequestBound
<1>2. ASSUME NEW t \in Importers, ThreadStep(t)
      PROVE  Bound'
  BY <1>2, DiscoverBound, EnqueueStepsBound, StartBound, LoopStepsBound, TakeBound, ListBound,
     WriteStepsBound, CommitBound, FailBound DEF ThreadStep
<1>3. ASSUME NEW scope \in Scopes, Snapshot(scope)
      PROVE  Bound'
  BY <1>3, SnapshotBound
<1>4. CASE UNCHANGED vars
  <2>1. TypeOK'
    BY <1>4 DEF vars, register, imports, Bound, TypeOK, RegisterTypeOK
  <2>2. CallsAreBound'
    BY <1>4 DEF vars, register, imports, Bound, CallsAreBound, CallIsBound, Exists
  <2>3. RowsStay /\ UNCHANGED thread
    BY <1>4 DEF vars, register, imports, RowsStay, Exists, ItemsOf
  <2>4. ThreadsAreBound'
    BY <2>3, ThreadTyped, OthersStayBound DEF ThreadsAreBound, ThreadRecord
  <2> QED
    BY <2>1, <2>2, <2>4 DEF Bound
<1> QED
  BY <1>1, <1>2, <1>3, <1>4, CrashBound, OperatorStepBound DEF Next

-----------------------------------------------------------------------------
(* What the jobs say of the threads.                                       *)

LoneJob(j) ==
  /\ \A t, o \in Importers : WorksOn(t, j) /\ WorksOn(o, j) => t = o
  /\ \A t \in Importers : WorksOn(t, j) => KnowsJob(t, j)
  /\ crashes > 0 \/ (ItemsAreHeld(j) /\ Attended(j))
  /\ job[j].status = "completed" => AllDone(j)

JobsGood == \A j \in Jobs \ shared : LoneJob(j)

(* A job alone with its thread is what the four properties of jobs say.    *)
LEMMA JobsGoodSays ==
  /\ JobsGood <=> /\ LoneThreads /\ OpenItemsAreHeld
                  /\ CompletedMeansDone /\ GoingOnIsAttended
  /\ JobsGood' <=> /\ LoneThreads' /\ OpenItemsAreHeld'
                   /\ CompletedMeansDone' /\ GoingOnIsAttended'
BY DEF JobsGood, LoneJob, LoneThreads, OpenItemsAreHeld, CompletedMeansDone,
       GoingOnIsAttended

(* For job k, a thread is as it was, moves within an item, or has nothing  *)
(* to do with it.                                                          *)
SameFor(t, k) ==
  \/ thread'[t] = thread[t]
  \/ /\ thread[t].pc \in OnItem /\ thread'[t].pc \in OnItem
     /\ thread'[t].job = thread[t].job
     /\ thread'[t].todo = thread[t].todo
     /\ thread'[t].folder = thread[t].folder
  \/ ~WorksOn(t, k) /\ ~WorksOn(t, k)'

(* A step that changes nothing of a job, nor of who works on it, keeps it  *)
(* good.                                                                   *)
LEMMA OtherJob ==
  ASSUME NEW k \in Jobs, LoneJob(k), job'[k] = job[k], item'[k] = item[k],
         crashes' = crashes, \A t \in Importers : SameFor(t, k)
  PROVE  LoneJob(k)'
<1>1. Tallied(k)' = Tallied(k)
  BY DEF Tallied, ItemsIn
<1>2. ASSUME NEW t \in Importers
      PROVE  /\ WorksOn(t, k)' <=> WorksOn(t, k)
             /\ KnowsJob(t, k) /\ WorksOn(t, k) => KnowsJob(t, k)'
             /\ \A f \in Folders : Holds(t, k, f) => Holds(t, k, f)'
             /\ \A f \in Folders : Holds(t, k, f)
                  => thread'[t].folder = thread[t].folder \/ item[k][f].status # "processing"
  <2>1. CASE thread'[t] = thread[t]
    BY <1>1, <2>1 DEF WorksOn, KnowsJob, Holds
  <2>2. CASE /\ thread[t].pc \in OnItem /\ thread'[t].pc \in OnItem
             /\ thread'[t].job = thread[t].job
             /\ thread'[t].todo = thread[t].todo
             /\ thread'[t].folder = thread[t].folder
    BY <2>2 DEF WorksOn, KnowsJob, Holds, OnItem
  <2>3. CASE ~WorksOn(t, k) /\ ~WorksOn(t, k)'
    BY <2>3 DEF Holds
  <2> QED
    BY <1>2, <2>1, <2>2, <2>3 DEF SameFor
<1>3. ItemsAreHeld(k) => ItemsAreHeld(k)'
  BY <1>2 DEF ItemsAreHeld
<1>4. ItemsAreHeld(k) /\ Attended(k) => Attended(k)'
  <2> SUFFICES ASSUME ItemsAreHeld(k), Attended(k) PROVE Attended(k)'
    OBVIOUS
  <2>1. job'[k].status \in {"pending", "running"} => \E t \in Importers : WorksOn(t, k)'
    BY <1>2 DEF Attended
  <2>2. ASSUME NEW f \in Folders, item'[k][f].status = "processing"
        PROVE  \E t \in Importers : WorksOn(t, k)' /\ thread'[t].folder = f
    BY <1>2, <2>2 DEF ItemsAreHeld, Holds
  <2> QED
    BY <2>1, <2>2 DEF Attended, WorksOn
<1>5. AllDone(k) => AllDone(k)'
  BY DEF AllDone, ItemsOf
<1> QED
  BY <1>2, <1>3, <1>4, <1>5 DEF LoneJob

(* The job a thread works on for itself, once it has moved.                *)
LEMMA OwnJob ==
  ASSUME NEW j \in Jobs, NEW t \in Importers,
         \A o \in Importers \ {t} : ~WorksOn(o, j)',
         WorksOn(t, j)', KnowsJob(t, j)',
         crashes' > 0 \/ \A f \in Folders :
           item'[j][f].status \in {"pending", "processing"} => Holds(t, j, f)'
  PROVE  LoneJob(j)'
<1>1. \A f \in Folders : Holds(t, j, f)' /\ item'[j][f].status = "processing"
                           => thread'[t].folder = f
  BY DEF Holds
<1>2. crashes' > 0 \/ (ItemsAreHeld(j)' /\ Attended(j)')
  BY <1>1 DEF ItemsAreHeld, Attended
<1>3. job'[j].status # "completed"
  BY DEF KnowsJob
<1> QED
  BY <1>2, <1>3 DEF LoneJob

(* A step of one thread on one job; shared jobs stay so.                   *)
LEMMA ThreadStepJobs ==
  ASSUME Bound, JobsGood, NEW t \in Importers, NEW j \in Jobs,
         \A o \in Importers \ {t} : thread'[o] = thread[o],
         \A k \in Jobs \ {j} : /\ job'[k] = job[k] /\ item'[k] = item[k]
                               /\ SameFor(t, k),
         crashes' = crashes, shared \subseteq shared',
         j \notin shared' => LoneJob(j)'
  PROVE  JobsGood'
<1>1. ASSUME NEW k \in Jobs, k \notin shared', k # j
      PROVE  LoneJob(k)'
  <2>1. LoneJob(k)
    BY <1>1 DEF JobsGood
  <2>2. \A o \in Importers : SameFor(o, k)
    BY <1>1 DEF SameFor
  <2> QED
    BY <1>1, <2>1, <2>2, OtherJob
<1> QED
  BY <1>1 DEF JobsGood

(* A step that writes neither jobs nor items, of threads that stay where   *)
(* they are for every job.                                                 *)
LEMMA QuietStepJobs ==
  ASSUME JobsGood, UNCHANGED <<job, item, shared, crashes>>,
         \A t \in Importers, k \in Jobs : SameFor(t, k)
  PROVE  JobsGood'
BY OtherJob DEF JobsGood

(* A thread that asks for an import, or finds none, works on no job.       *)
LEMMA RequestJobs ==
  ASSUME Bound, JobsGood, NEW t \in Importers,
         (\E scope \in Scopes : Request(t, scope)) \/ DiscoveryFails(t)
  PROVE  JobsGood'
<1>1. /\ thread[t].pc = "idle" \/ (thread[t].pc = "discover" /\ thread[t].job = None)
      /\ UNCHANGED <<job, item, shared, crashes>>
  BY ThreadTyped DEF Request, DiscoveryFails, ThreadIsBound
<1>2. PICK new \in ThreadRecord :
        /\ Goes(t, new)
        /\ new.pc \in {"idle", "resume"} \/ (new.pc = "discover" /\ new.job = None)
  <2>1. CASE DiscoveryFails(t)
    <3>1. Goes(t, Idle) /\ Idle \in ThreadRecord /\ Idle.pc = "idle"
      BY <2>1, RowsTyped DEF DiscoveryFails, Idle
    <3> QED
      BY <3>1
  <2>2. ASSUME NEW scope \in Scopes,
               Goes(t, [Idle EXCEPT !.pc = "discover", !.scope = scope])
        PROVE  \E new \in ThreadRecord :
                 Goes(t, new) /\ new.pc = "discover" /\ new.job = None
    <3> DEFINE new == [Idle EXCEPT !.pc = "discover", !.scope = scope]
    <3>1. new \in ThreadRecord /\ new.pc = "discover" /\ new.job = None
      BY RowsTyped DEF ThreadRecord, Pcs, Idle
    <3> HIDE DEF new
    <3> QED
      BY <2>2, <3>1 DEF new
  <2>3. ASSUME NEW scope \in Scopes, NEW j \in Jobs,
               Goes(t, [Idle EXCEPT !.pc = "resume", !.scope = scope, !.job = j])
        PROVE  \E new \in ThreadRecord : Goes(t, new) /\ new.pc = "resume"
    <3> DEFINE new == [Idle EXCEPT !.pc = "resume", !.scope = scope, !.job = j]
    <3>1. new \in ThreadRecord /\ new.pc = "resume"
      BY RowsTyped DEF ThreadRecord, Pcs, Idle
    <3> HIDE DEF new
    <3> QED
      BY <2>3, <3>1 DEF new
  <2> QED
    BY <2>1, <2>2, <2>3 DEF Request
<1>3. thread'[t] = new /\ \A o \in Importers \ {t} : thread'[o] = thread[o]
  BY <1>2, ThreadMoves DEF Bound
<1>4. None \notin Jobs
  BY DEF Jobs
<1>5. \A o \in Importers, k \in Jobs : SameFor(o, k)
  BY <1>1, <1>2, <1>3, <1>4 DEF SameFor, WorksOn
<1> QED
  BY <1>1, <1>5, QuietStepJobs

(* Nobody works on a job that does not exist.                              *)
LEMMA NobodyOnAbsent ==
  ASSUME Bound, NEW j \in Jobs, job[j].status = "absent", NEW o \in Importers
  PROVE  ~WorksOn(o, j)
<1>1. None \notin Jobs
  BY DEF Jobs
<1> QED
  BY <1>1, ThreadTyped DEF WorksOn, ThreadIsBound

(* A job just discovered has one thread, and all its items before it.      *)
LEMMA DiscoverJobs ==
  ASSUME Bound, JobsGood, NEW t \in Importers, Discover(t)
  PROVE  JobsGood'
<1>1. PICK found \in Discoverable(thread[t].scope), j \in Jobs :
        /\ job[j].status = "absent"
        /\ job' = [job EXCEPT ![j] = [AbsentJob EXCEPT !.status = "running",
                                                       !.scope = thread[t].scope]]
        /\ item' = [item EXCEPT ![j] =
                      [f \in Folders |->
                         IF f \in found THEN [AbsentItem EXCEPT !.status = "pending"]
                                        ELSE AbsentItem]]
        /\ Goes(t, [thread[t] EXCEPT !.pc = "start", !.job = j, !.seen = job'[j]])
  BY DEF Discover
<1>2. thread[t] \in ThreadRecord /\ thread[t].pc = "discover" /\ thread[t].job = None
  BY ThreadTyped DEF Discover, ThreadIsBound
<1>3. /\ \A o \in Importers \ {t} : thread'[o] = thread[o]
      /\ thread'[t] = [thread[t] EXCEPT !.pc = "start", !.job = j, !.seen = job'[j]]
  BY <1>1 DEF Goes, Bound, TypeOK
<1>4. thread'[t].pc = "start" /\ thread'[t].job = j /\ thread'[t].seen = job'[j]
  BY <1>2, <1>3 DEF ThreadRecord
<1>5. /\ job'[j].status = "running"
      /\ \A f \in Folders : item'[j][f].status \in {"absent", "pending"}
      /\ \A k \in Jobs \ {j} : job'[k] = job[k] /\ item'[k] = item[k]
  BY <1>1 DEF Bound, TypeOK, AbsentJob, AbsentItem
<1>6. None \notin Jobs
  BY DEF Jobs
<1>7. \A k \in Jobs \ {j} : SameFor(t, k)
  BY <1>2, <1>4, <1>6 DEF SameFor, WorksOn
<1>8. LoneJob(j)'
  <2>1. \A o \in Importers \ {t} : ~WorksOn(o, j)'
    BY <1>1, <1>3, NobodyOnAbsent DEF WorksOn
  <2>2. WorksOn(t, j)' /\ KnowsJob(t, j)'
    BY <1>4, <1>5 DEF WorksOn, KnowsJob
  <2>3. \A f \in Folders : item'[j][f].status \in {"pending", "processing"} => Holds(t, j, f)'
    BY <1>4, <1>5, <2>2 DEF Holds
  <2> QED
    BY <2>1, <2>2, <2>3, OwnJob
<1>9. crashes' = crashes /\ shared \subseteq shared'
  BY DEF Discover
<1> QED
  BY <1>3, <1>5, <1>7, <1>8, <1>9, ThreadStepJobs

(* A snapshot is settled from the start.                                   *)
LEMMA SnapshotJobs ==
  ASSUME Bound, JobsGood, NEW scope \in Scopes, Snapshot(scope)
  PROVE  JobsGood'
<1>1. PICK found \in Discoverable(scope), j \in Jobs :
        /\ job[j].status = "absent"
        /\ \E failed \in SUBSET found :
             job' = [job EXCEPT ![j] = [status |-> "completed", scope |-> scope,
                                        preview |-> TRUE,
                                        ok |-> Cardinality(found),
                                        errors |-> Cardinality(failed)]]
        /\ item' = [item EXCEPT ![j] =
                      [f \in Folders |->
                         IF f \in found THEN [AbsentItem EXCEPT !.status = "completed"]
                                        ELSE AbsentItem]]
  BY DEF Snapshot
<1>2. UNCHANGED <<thread, shared, crashes>>
  BY DEF Snapshot
<1>3. /\ job'[j].status = "completed" /\ job'[j].ok = Cardinality(found)
      /\ \A f \in Folders : item'[j][f].status = IF f \in found THEN "completed" ELSE "absent"
      /\ \A k \in Jobs \ {j} : job'[k] = job[k] /\ item'[k] = item[k]
  BY <1>1 DEF Bound, TypeOK, AbsentItem
<1>4. LoneJob(j)'
  <2>1. \A o \in Importers : ~WorksOn(o, j)'
    BY <1>1, <1>2, NobodyOnAbsent DEF WorksOn
  <2>2. ItemsAreHeld(j)' /\ Attended(j)'
    BY <1>3 DEF ItemsAreHeld, Attended
  <2>3. AllDone(j)'
    <3>1. found \subseteq Folders
      BY DEF Discoverable
    <3>2. ItemsOf(j)' = found
      BY <1>3, <3>1 DEF ItemsOf
    <3> QED
      BY <1>3, <3>2 DEF AllDone, ItemsOf
  <2> QED
    BY <2>1, <2>2, <2>3 DEF LoneJob
<1>5. ASSUME NEW k \in Jobs, k \notin shared', k # j
      PROVE  LoneJob(k)'
  <2>1. LoneJob(k) /\ \A o \in Importers : SameFor(o, k)
    BY <1>2, <1>5 DEF JobsGood, SameFor
  <2> QED
    BY <1>2, <1>3, <1>5, <2>1, OtherJob
<1> QED
  BY <1>4, <1>5 DEF JobsGood

(* Nobody else works on a job that a thread has for itself.                *)
LEMMA OthersAway ==
  ASSUME JobsGood, NEW j \in Jobs \ shared, NEW t \in Importers, WorksOn(t, j),
         \A o \in Importers \ {t} : thread'[o] = thread[o]
  PROVE  /\ \A o \in Importers \ {t} : ~WorksOn(o, j)'
         /\ LoneJob(j) /\ KnowsJob(t, j)
         /\ crashes > 0 \/ \A f \in Folders :
              item[j][f].status \in {"pending", "processing"} => Holds(t, j, f)
BY DEF JobsGood, LoneJob, ItemsAreHeld, Holds, WorksOn

(* A job resumed is its thread's alone, or is marked as shared.            *)
LEMMA ResumeJobs ==
  ASSUME Bound, JobsGood, NEW t \in Importers, Resume(t)
  PROVE  JobsGood'
<1>1. thread[t] \in ThreadRecord /\ thread[t].pc = "resume"
  BY ThreadTyped DEF Resume
<1>2. PICK j \in Jobs : j = thread[t].job
  BY <1>1, ThreadTyped DEF ThreadIsBound
<1>3. /\ job' = [job EXCEPT ![j].status = "pending"]
      /\ Goes(t, [thread[t] EXCEPT !.pc = "start", !.seen = job'[j]])
      /\ UNCHANGED <<item, crashes>>
      /\ shared \subseteq shared'
      /\ j \notin shared' => j \notin shared /\ \A o \in Importers \ {t} : ~WorksOn(o, j)
  BY <1>2 DEF Resume
<1>4. /\ \A o \in Importers \ {t} : thread'[o] = thread[o]
      /\ thread'[t] = [thread[t] EXCEPT !.pc = "start", !.seen = job'[j]]
  BY <1>3 DEF Goes, Bound, TypeOK
<1>5. thread'[t].pc = "start" /\ thread'[t].job = j /\ thread'[t].seen = job'[j]
  BY <1>1, <1>2, <1>4 DEF ThreadRecord
<1>6. job'[j].status = "pending" /\ \A k \in Jobs \ {j} : job'[k] = job[k] /\ item'[k] = item[k]
  <2>1. job[j] \in JobRow
    BY DEF Bound, TypeOK
  <2> QED
    BY <1>3, <2>1 DEF Bound, TypeOK, JobRow
<1>7. \A k \in Jobs \ {j} : SameFor(t, k)
  BY <1>1, <1>2, <1>5 DEF SameFor, WorksOn
<1>8. ASSUME j \notin shared'
      PROVE  LoneJob(j)'
  <2>1. ~WorksOn(t, j)
    BY <1>1 DEF WorksOn
  <2>2. \A o \in Importers : ~WorksOn(o, j)
    BY <1>3, <1>8, <2>1
  <2>3. \A o \in Importers \ {t} : ~WorksOn(o, j)'
    BY <1>4, <2>2 DEF WorksOn
  <2>4. crashes > 0 \/ \A f \in Folders : item[j][f].status \notin {"pending", "processing"}
    BY <1>3, <1>8, <2>2 DEF JobsGood, LoneJob, ItemsAreHeld, Holds
  <2>5. WorksOn(t, j)' /\ KnowsJob(t, j)'
    BY <1>5, <1>6 DEF WorksOn, KnowsJob
  <2> QED
    BY <1>3, <2>3, <2>4, <2>5, OwnJob
<1> QED
  BY <1>3, <1>4, <1>6, <1>7, <1>8, ThreadStepJobs

(* What is needed of a thread that works on a job.                         *)
LEMMA AtWork ==
  ASSUME Bound, NEW t \in Importers, thread[t].pc \notin {"idle", "resume", "discover"}
  PROVE  /\ thread[t] \in ThreadRecord /\ ThreadIsBound(t)
         /\ thread[t].job \in Jobs /\ WorksOn(t, thread[t].job)
         /\ job[thread[t].job] \in JobRow
         /\ \A k \in Jobs \ {thread[t].job} : ~WorksOn(t, k)
BY ThreadTyped DEF ThreadIsBound, WorksOn, Bound, TypeOK

(* A job started is RUNNING with its items before the thread.              *)
LEMMA StartJobs ==
  ASSUME Bound, JobsGood, NEW t \in Importers, StartJob(t)
  PROVE  JobsGood'
<1>1. thread[t] \in ThreadRecord /\ thread[t].pc = "start"
  BY ThreadTyped DEF StartJob
<1>2. PICK j \in Jobs : /\ j = thread[t].job /\ WorksOn(t, j) /\ job[j] \in JobRow
                        /\ \A k \in Jobs \ {j} : ~WorksOn(t, k)
  BY <1>1, AtWork
<1>3. /\ job' = [job EXCEPT ![j].status = Column(@, thread[t].seen.status, "running")]
      /\ Goes(t, [Idle EXCEPT !.pc = "select", !.job = j])
      /\ UNCHANGED <<item, shared, crashes>>
  BY <1>2 DEF StartJob
<1>4. /\ \A o \in Importers \ {t} : thread'[o] = thread[o]
      /\ thread'[t].pc = "select" /\ thread'[t].job = j
  BY <1>3 DEF Goes, Bound, TypeOK, Idle
<1>5. /\ job'[j].status = Column(job[j].status, thread[t].seen.status, "running")
      /\ \A k \in Jobs \ {j} : job'[k] = job[k] /\ item'[k] = item[k]
  BY <1>2, <1>3 DEF Bound, TypeOK, JobRow
<1>6. \A k \in Jobs \ {j} : SameFor(t, k)
  BY <1>2, <1>4 DEF SameFor, WorksOn
<1>7. ASSUME j \notin shared'
      PROVE  LoneJob(j)'
  <2>1. /\ \A o \in Importers \ {t} : ~WorksOn(o, j)'
        /\ KnowsJob(t, j)
        /\ crashes > 0 \/ \A f \in Folders :
             item[j][f].status \in {"pending", "processing"} => Holds(t, j, f)
    BY <1>2, <1>3, <1>4, <1>7, OthersAway
  <2>2. job'[j].status = "running"
    BY <1>1, <1>5, <2>1 DEF KnowsJob, Column
  <2>3. WorksOn(t, j)' /\ KnowsJob(t, j)'
    BY <1>4, <2>2 DEF WorksOn, KnowsJob
  <2>4. \A f \in Folders : Holds(t, j, f) => Holds(t, j, f)'
    BY <1>1, <1>3, <1>4, <2>3 DEF Holds, OnItem
  <2> QED
    BY <1>3, <2>1, <2>3, <2>4, OwnJob
<1> QED
  BY <1>3, <1>4, <1>5, <1>6, <1>7, ThreadStepJobs

(* The items selected are all the open ones of the job.                    *)
LEMMA SelectJobs ==
  ASSUME Bound, JobsGood, NEW t \in Importers, SelectItems(t)
  PROVE  JobsGood'
<1>1. thread[t] \in ThreadRecord /\ thread[t].pc = "select"
  BY ThreadTyped DEF SelectItems
<1>2. PICK j \in Jobs : /\ j = thread[t].job /\ WorksOn(t, j)
                        /\ \A k \in Jobs \ {j} : ~WorksOn(t, k)
  BY <1>1, AtWork
<1>3. /\ Goes(t, [thread[t] EXCEPT !.pc = "head", !.todo = ItemsIn(j, ToImport)])
      /\ UNCHANGED <<job, item, shared, crashes>>
  BY <1>2 DEF SelectItems
<1>4. /\ \A o \in Importers \ {t} : thread'[o] = thread[o]
      /\ thread'[t] = [thread[t] EXCEPT !.pc = "head", !.todo = ItemsIn(j, ToImport)]
  BY <1>3 DEF Goes, Bound, TypeOK
<1>5. thread'[t].pc = "head" /\ thread'[t].job = j /\ thread'[t].todo = ItemsIn(j, ToImport)
  BY <1>1, <1>2, <1>4 DEF ThreadRecord
<1>6. \A k \in Jobs \ {j} : SameFor(t, k)
  BY <1>2, <1>5 DEF SameFor, WorksOn
<1>7. ASSUME j \notin shared'
      PROVE  LoneJob(j)'
  <2>1. /\ \A o \in Importers \ {t} : ~WorksOn(o, j)'
        /\ KnowsJob(t, j)
        /\ crashes > 0 \/ \A f \in Folders :
             item[j][f].status \in {"pending", "processing"} => Holds(t, j, f)
    BY <1>2, <1>3, <1>4, <1>7, OthersAway
  <2>2. WorksOn(t, j)' /\ KnowsJob(t, j)'
    BY <1>1, <1>3, <1>5, <2>1 DEF WorksOn, KnowsJob
  <2>3. \A f \in Folders : Holds(t, j, f) => Holds(t, j, f)'
    <3>1. ASSUME NEW f \in Folders, Holds(t, j, f)
          PROVE  Holds(t, j, f)'
      <4>1. item[j][f].status = "pending"
        BY <1>1, <3>1 DEF Holds, OnItem
      <4>2. f \in ItemsIn(j, ToImport)
        BY <4>1 DEF ItemsIn, ToImport
      <4> QED
        BY <1>3, <1>5, <2>2, <4>1, <4>2 DEF Holds
    <3> QED
      BY <3>1
  <2> QED
    BY <1>3, <2>1, <2>2, <2>3, OwnJob
<1> QED
  BY <1>3, <1>4, <1>6, <1>7, ThreadStepJobs

(* The item taken is PROCESSING and in the thread's hands.                 *)
LEMMA TakeJobs ==
  ASSUME Bound, JobsGood, NEW t \in Importers, NEW f \in Folders, TakeItem(t, f)
  PROVE  JobsGood'
<1>1. thread[t] \in ThreadRecord /\ thread[t].pc = "head"
  BY ThreadTyped DEF TakeItem
<1>2. PICK j \in Jobs : /\ j = thread[t].job /\ WorksOn(t, j)
                        /\ \A k \in Jobs \ {j} : ~WorksOn(t, k)
  BY <1>1, AtWork
<1>3. /\ item' = [item EXCEPT ![j][f].status = "processing"]
      /\ Goes(t, [thread[t] EXCEPT !.pc = "list", !.folder = f, !.todo = thread[t].todo \ {f}])
      /\ UNCHANGED <<job, shared, crashes>>
  BY <1>1, <1>2 DEF TakeItem, ThreadRecord
<1>4. /\ \A o \in Importers \ {t} : thread'[o] = thread[o]
      /\ thread'[t] = [thread[t] EXCEPT !.pc = "list", !.folder = f,
                                        !.todo = thread[t].todo \ {f}]
  BY <1>3 DEF Goes, Bound, TypeOK
<1>5. /\ thread'[t].pc = "list" /\ thread'[t].job = j
      /\ thread'[t].todo = thread[t].todo \ {f} /\ thread'[t].folder = f
  BY <1>1, <1>2, <1>4 DEF ThreadRecord
<1>6. \A k \in Jobs \ {j} : SameFor(t, k)
  BY <1>2, <1>5 DEF SameFor, WorksOn
<1>7. /\ item'[j][f].status = "processing"
      /\ \A g \in Folders \ {f} : item'[j][g] = item[j][g]
      /\ \A k \in Jobs \ {j} : job'[k] = job[k] /\ item'[k] = item[k]
  <2>1. item[j][f] \in ItemRow
    BY DEF Bound, TypeOK
  <2> QED
    BY <1>3, <2>1 DEF Bound, TypeOK, ItemRow
<1>8. ASSUME j \notin shared'
      PROVE  LoneJob(j)'
  <2>1. /\ \A o \in Importers \ {t} : ~WorksOn(o, j)'
        /\ KnowsJob(t, j)
        /\ crashes > 0 \/ \A g \in Folders :
             item[j][g].status \in {"pending", "processing"} => Holds(t, j, g)
    BY <1>2, <1>3, <1>4, <1>8, OthersAway
  <2>2. WorksOn(t, j)' /\ KnowsJob(t, j)'
    BY <1>1, <1>3, <1>5, <2>1 DEF WorksOn, KnowsJob
  <2>3. ASSUME NEW g \in Folders, item'[j][g].status \in {"pending", "processing"},
               item[j][g].status \in {"pending", "processing"} => Holds(t, j, g)
        PROVE  Holds(t, j, g)'
    <3>1. CASE g = f
      BY <1>5, <1>7, <2>2, <3>1 DEF Holds, OnItem
    <3>2. CASE g # f
      BY <1>1, <1>5, <1>7, <2>2, <2>3, <3>2 DEF Holds, OnItem
    <3> QED
      BY <3>1, <3>2
  <2> QED
    BY <1>3, <2>1, <2>2, <2>3, OwnJob
<1> QED
  BY <1>3, <1>4, <1>6, <1>7, <1>8, ThreadStepJobs

(* A thread leaves an item that is neither pending nor processing any more.*)
LEMMA LeaveJobs ==
  ASSUME Bound, JobsGood, NEW t \in Importers, thread[t].pc \in OnItem,
         Goes(t, BackAtHead(t, thread[t].job, thread[t].todo)),
         NEW row \in ItemRow, row.status \in {"completed", "failed"},
         ItemSet(thread[t].job, thread[t].folder, row),
         UNCHANGED <<job, shared, crashes>>
  PROVE  JobsGood'
<1>1. thread[t] \in ThreadRecord /\ ThreadIsBound(t)
  BY ThreadTyped
<1>2. PICK j \in Jobs : /\ j = thread[t].job /\ WorksOn(t, j)
                        /\ \A k \in Jobs \ {j} : ~WorksOn(t, k)
  BY AtWork DEF OnItem
<1>3. PICK f \in Folders, todo \in SUBSET Folders : f = thread[t].folder /\ todo = thread[t].todo
  BY <1>1 DEF ThreadIsBound, OnItem, ItemsOf, ThreadRecord
<1>4. /\ \A o \in Importers \ {t} : thread'[o] = thread[o]
      /\ thread'[t].pc = "head" /\ thread'[t].job = j /\ thread'[t].todo = todo
  BY <1>2, <1>3, BackAtHeadTyped, ThreadMoves DEF Bound
<1>5. \A k \in Jobs \ {j} : SameFor(t, k)
  BY <1>2, <1>4 DEF SameFor, WorksOn
<1>6. /\ item'[j][f] = row
      /\ \A g \in Folders \ {f} : item'[j][g] = item[j][g]
      /\ \A k \in Jobs \ {j} : job'[k] = job[k] /\ item'[k] = item[k]
  BY <1>2, <1>3 DEF ItemSet, Bound, TypeOK
<1>7. ASSUME j \notin shared'
      PROVE  LoneJob(j)'
  <2>1. /\ \A o \in Importers \ {t} : ~WorksOn(o, j)'
        /\ KnowsJob(t, j)
        /\ crashes > 0 \/ \A g \in Folders :
             item[j][g].status \in {"pending", "processing"} => Holds(t, j, g)
    BY <1>2, <1>4, <1>7, OthersAway
  <2>2. WorksOn(t, j)' /\ KnowsJob(t, j)'
    BY <1>4, <2>1 DEF WorksOn, KnowsJob, OnItem
  <2>3. ASSUME NEW g \in Folders, item'[j][g].status \in {"pending", "processing"},
               item[j][g].status \in {"pending", "processing"} => Holds(t, j, g)
        PROVE  Holds(t, j, g)'
    <3>1. g # f
      BY <1>6, <2>3
    <3> QED
      BY <1>3, <1>4, <1>6, <2>2, <2>3, <3>1 DEF Holds, OnItem
  <2> QED
    BY <2>1, <2>2, <2>3, OwnJob
<1> QED
  BY <1>4, <1>5, <1>6, <1>7, ThreadStepJobs

(* A commit or a failure closes the item its thread had in hand.           *)
LEMMA LeaveStepsJobs ==
  ASSUME Bound, JobsGood, NEW t \in Importers, CommitItem(t) \/ FailItem(t)
  PROVE  JobsGood'
<1>1. CASE CommitItem(t)
  <2> DEFINE row == [status |-> "completed", sid |-> open[t].sid]
  <2>1. row \in ItemRow /\ row.status = "completed"
    BY DEF ItemRow, ItemStatus, Bound, TypeOK, RegisterTypeOK, OpenWrite
  <2>2. thread[t].pc \in OnItem /\ UNCHANGED <<job, shared, crashes>>
    BY <1>1 DEF CommitItem, OnItem
  <2> QED
    BY <1>1, <2>1, <2>2, CommitWrites, LeaveJobs
<1>2. CASE FailItem(t)
  <2>1. thread[t].pc \in OnItem
    BY <1>2 DEF FailItem, OnItem
  <2>2. thread[t].job \in Jobs /\ thread[t].folder \in Folders
    BY <2>1, ThreadTyped DEF ThreadIsBound, OnItem, ItemsOf
  <2> DEFINE row == FailedItem(item[thread[t].job][thread[t].folder])
  <2>3. row \in ItemRow /\ row.status = "failed"
    <3>1. item[thread[t].job][thread[t].folder] \in ItemRow
      BY <2>2 DEF Bound, TypeOK
    <3> QED
      BY <3>1 DEF FailedItem, ItemRow, ItemStatus
  <2>4. ItemSet(thread[t].job, thread[t].folder, row)
    BY <1>2, <2>2 DEF FailItem, ItemSet, Bound, TypeOK
  <2>5. /\ Goes(t, BackAtHead(t, thread[t].job, thread[t].todo))
        /\ UNCHANGED <<job, shared, crashes>>
    BY <1>2 DEF FailItem, BackAtHead
  <2> HIDE DEF row
  <2> QED
    BY <2>1, <2>3, <2>4, <2>5, LeaveJobs
<1> QED
  BY <1>1, <1>2

(* A tally is of the items as they are: nobody else writes them.           *)
LEMMA TallyJobs ==
  ASSUME Bound, JobsGood, NEW t \in Importers, TallyItems(t)
  PROVE  JobsGood'
<1>1. thread[t] \in ThreadRecord /\ thread[t].pc = "head" /\ thread[t].todo = {}
  BY ThreadTyped DEF TallyItems
<1>2. PICK j \in Jobs : /\ j = thread[t].job /\ WorksOn(t, j)
                        /\ \A k \in Jobs \ {j} : ~WorksOn(t, k)
  BY <1>1, AtWork
<1>3. /\ Goes(t, [thread[t] EXCEPT !.pc = "finish", !.seen = job[j], !.tally = Tallied(j)])
      /\ UNCHANGED <<job, item, shared, crashes>>
  BY <1>2 DEF TallyItems
<1>4. /\ \A o \in Importers \ {t} : thread'[o] = thread[o]
      /\ thread'[t] = [thread[t] EXCEPT !.pc = "finish", !.seen = job[j],
                                        !.tally = Tallied(j)]
  BY <1>3 DEF Goes, Bound, TypeOK
<1>5. /\ thread'[t].pc = "finish" /\ thread'[t].job = j
      /\ thread'[t].seen = job[j] /\ thread'[t].tally = Tallied(j)
  BY <1>1, <1>2, <1>4 DEF ThreadRecord
<1>6. \A k \in Jobs \ {j} : SameFor(t, k)
  BY <1>2, <1>5 DEF SameFor, WorksOn
<1>7. Tallied(j)' = Tallied(j)
  BY <1>3 DEF Tallied, ItemsIn
<1>8. ASSUME j \notin shared'
      PROVE  LoneJob(j)'
  <2>1. /\ \A o \in Importers \ {t} : ~WorksOn(o, j)'
        /\ KnowsJob(t, j)
        /\ crashes > 0 \/ \A f \in Folders :
             item[j][f].status \in {"pending", "processing"} => Holds(t, j, f)
    BY <1>2, <1>3, <1>4, <1>8, OthersAway
  <2>2. WorksOn(t, j)' /\ KnowsJob(t, j)'
    BY <1>1, <1>3, <1>5, <1>7, <2>1 DEF WorksOn, KnowsJob
  <2>3. \A f \in Folders : ~Holds(t, j, f)
    BY <1>1 DEF Holds, OnItem
  <2> QED
    BY <1>3, <2>1, <2>2, <2>3, OwnJob
<1> QED
  BY <1>3, <1>4, <1>6, <1>8, ThreadStepJobs

(* What a job is given at its end: completed only if every item is.        *)
LEMMA TalliedSays ==
  ASSUME Bound, NEW j \in Jobs, Tallied(j).status = "completed"
  PROVE  /\ \A f \in ItemsOf(j) : item[j][f].status = "completed"
         /\ Tallied(j).ok = Cardinality(ItemsOf(j))
<1>1. job[j] \in JobRow
  BY DEF Bound, TypeOK
<1>2. /\ Tallied(j).ok = Cardinality(ItemsIn(j, {"completed"}))
      /\ Tallied(j).status = IF ItemsIn(j, {"pending", "processing"}) # {} THEN "running"
                             ELSE IF ItemsIn(j, {"failed"}) # {} THEN "failed"
                             ELSE "completed"
  BY <1>1 DEF Tallied, JobRow
<1>3. ItemsIn(j, {"pending", "processing"}) = {} /\ ItemsIn(j, {"failed"}) = {}
  BY <1>2
<1>4. \A f \in Folders : item[j][f].status \in ItemStatus
  BY DEF Bound, TypeOK, ItemRow
<1>5. \A f \in ItemsOf(j) : item[j][f].status = "completed"
  BY <1>3, <1>4 DEF ItemsIn, ItemsOf, ItemStatus
<1>6. ItemsOf(j) = ItemsIn(j, {"completed"})
  BY <1>5 DEF ItemsIn, ItemsOf
<1> QED
  BY <1>2, <1>5, <1>6

(* A job written as COMPLETED has no open and no failed item.              *)
LEMMA FinishJobs ==
  ASSUME Bound, JobsGood, NEW t \in Importers, FinishJob(t)
  PROVE  JobsGood'
<1>1. thread[t] \in ThreadRecord /\ thread[t].pc = "finish"
  BY ThreadTyped DEF FinishJob
<1>2. PICK j \in Jobs : /\ j = thread[t].job /\ WorksOn(t, j) /\ job[j] \in JobRow
                        /\ \A k \in Jobs \ {j} : ~WorksOn(t, k)
  BY <1>1, AtWork
<1>3. /\ job' = [job EXCEPT ![j] = FlushJob(job[j], thread[t].seen, thread[t].tally)]
      /\ Goes(t, Idle)
      /\ UNCHANGED <<item, shared, crashes>>
  BY <1>2 DEF FinishJob, Bound, TypeOK
<1>4. /\ \A o \in Importers \ {t} : thread'[o] = thread[o]
      /\ thread'[t].pc = "idle"
  BY <1>3 DEF Goes, Bound, TypeOK, Idle
<1>5. /\ job'[j] = FlushJob(job[j], thread[t].seen, thread[t].tally)
      /\ \A k \in Jobs \ {j} : job'[k] = job[k] /\ item'[k] = item[k]
  BY <1>3 DEF Bound, TypeOK
<1>6. \A k \in Jobs \ {j} : SameFor(t, k)
  BY <1>2, <1>4 DEF SameFor, WorksOn
<1>7. ASSUME j \notin shared'
      PROVE  LoneJob(j)'
  <2>1. /\ \A o \in Importers \ {t} : ~WorksOn(o, j)'
        /\ KnowsJob(t, j)
        /\ crashes > 0 \/ \A f \in Folders :
             item[j][f].status \in {"pending", "processing"} => Holds(t, j, f)
    BY <1>2, <1>3, <1>4, <1>7, OthersAway
  <2>2. \A o \in Importers : ~WorksOn(o, j)'
    BY <1>4, <2>1 DEF WorksOn
  <2>3. thread[t].seen = job[j] /\ thread[t].tally = Tallied(j)
    BY <1>1, <2>1 DEF KnowsJob
  <2>4. job'[j].status = Tallied(j).status /\ job'[j].ok = Tallied(j).ok
    BY <1>5, <2>3 DEF FlushJob, Column
  <2>5. ASSUME job'[j].status = "completed"
        PROVE  AllDone(j)'
    <3>1. /\ \A f \in ItemsOf(j) : item[j][f].status = "completed"
          /\ Tallied(j).ok = Cardinality(ItemsOf(j))
      BY <2>4, <2>5, TalliedSays
    <3>2. ItemsOf(j)' = ItemsOf(j) /\ item'[j] = item[j]
      BY <1>3 DEF ItemsOf
    <3> QED
      BY <2>4, <3>1, <3>2 DEF AllDone
  <2>6. crashes > 0 \/ \A f \in Folders : item[j][f].status \notin {"pending", "processing"}
    BY <1>1, <2>1 DEF Holds, OnItem
  <2>7. crashes > 0 \/ (ItemsAreHeld(j)' /\ Attended(j)')
    <3> SUFFICES ASSUME \A f \in Folders : item[j][f].status \notin {"pending", "processing"}
                 PROVE  ItemsAreHeld(j)' /\ Attended(j)'
      BY <2>6
    <3>1. ItemsIn(j, {"pending", "processing"}) = {}
      BY DEF ItemsIn
    <3>2. Tallied(j).status \in {"failed", "completed"}
      BY <1>2, <3>1 DEF Tallied, JobRow
    <3> QED
      BY <1>3, <2>4, <3>2 DEF ItemsAreHeld, Attended
  <2> QED
    BY <1>3, <2>2, <2>5, <2>7 DEF LoneJob
<1> QED
  BY <1>3, <1>4, <1>5, <1>6, <1>7, ThreadStepJobs

(* Steps within an item.                                                   *)
LEMMA ItemStepsJobs ==
  ASSUME Bound, JobsGood, NEW t \in Importers,
         \/ ListFilesAndLookUp(t) \/ WriteSubject(t) \/ WriteDetails(t)
         \/ DetailsConflict(t) \/ ReadDocuments(t) \/ DocumentsConflict(t)
  PROVE  JobsGood'
<1>1. thread[t] \in ThreadRecord /\ thread[t].pc \in OnItem
  BY ThreadTyped DEF ListFilesAndLookUp, WriteSubject, WriteDetails, DetailsConflict,
     ReadDocuments, DocumentsConflict, OnItem
<1>2. UNCHANGED <<job, item, shared, crashes>>
  BY DEF ListFilesAndLookUp, WriteSubject, WriteDetails, DetailsConflict,
     ReadDocuments, DocumentsConflict
<1>3. /\ \A o \in Importers \ {t} : thread'[o] = thread[o]
      /\ thread'[t].pc \in OnItem /\ thread'[t].job = thread[t].job
      /\ thread'[t].todo = thread[t].todo /\ thread'[t].folder = thread[t].folder
  <2>1. ASSUME NEW new, Goes(t, new), new.pc \in OnItem, new.job = thread[t].job,
               new.todo = thread[t].todo, new.folder = thread[t].folder
        PROVE  /\ \A o \in Importers \ {t} : thread'[o] = thread[o]
               /\ thread'[t].pc \in OnItem /\ thread'[t].job = thread[t].job
               /\ thread'[t].todo = thread[t].todo /\ thread'[t].folder = thread[t].folder
    BY <2>1 DEF Goes, Bound, TypeOK
  <2>2. CASE ListFilesAndLookUp(t)
    <3>1. PICK found : LET listed == [thread[t] EXCEPT !.pc = "write", !.files = found]
                       IN \/ \E s \in SubjectIds :
                               Goes(t, [listed EXCEPT !.sid = s, !.row = subject[s]])
                          \/ Goes(t, listed)
      BY <2>2 DEF ListFilesAndLookUp
    <3>2. ASSUME NEW s \in SubjectIds,
                 Goes(t, [thread[t] EXCEPT !.pc = "write", !.files = found,
                                           !.sid = s, !.row = subject[s]])
          PROVE  /\ \A o \in Importers \ {t} : thread'[o] = thread[o]
                 /\ thread'[t].pc \in OnItem /\ thread'[t].job = thread[t].job
                 /\ thread'[t].todo = thread[t].todo
                 /\ thread'[t].folder = thread[t].folder
      <4> DEFINE new == [thread[t] EXCEPT !.pc = "write", !.files = found,
                                          !.sid = s, !.row = subject[s]]
      <4>1. /\ new.pc \in OnItem /\ new.job = thread[t].job
            /\ new.todo = thread[t].todo /\ new.folder = thread[t].folder
        BY <1>1 DEF ThreadRecord, OnItem
      <4> HIDE DEF new
      <4> QED
        BY <2>1, <3>2, <4>1 DEF new
    <3>3. ASSUME Goes(t, [thread[t] EXCEPT !.pc = "write", !.files = found])
          PROVE  /\ \A o \in Importers \ {t} : thread'[o] = thread[o]
                 /\ thread'[t].pc \in OnItem /\ thread'[t].job = thread[t].job
                 /\ thread'[t].todo = thread[t].todo
                 /\ thread'[t].folder = thread[t].folder
      <4> DEFINE new == [thread[t] EXCEPT !.pc = "write", !.files = found]
      <4>1. /\ new.pc \in OnItem /\ new.job = thread[t].job
            /\ new.todo = thread[t].todo /\ new.folder = thread[t].folder
        BY <1>1 DEF ThreadRecord, OnItem
      <4> HIDE DEF new
      <4> QED
        BY <2>1, <3>3, <4>1 DEF new
    <3> QED
      BY <3>1, <3>2, <3>3
  <2>3. CASE ReadDocuments(t)
    <3> DEFINE new == [thread[t] EXCEPT !.pc = "commit", !.docs = documents]
    <3>1. /\ new.pc \in OnItem /\ new.job = thread[t].job
          /\ new.todo = thread[t].todo /\ new.folder = thread[t].folder
      BY <1>1 DEF ThreadRecord, OnItem
    <3>2. Goes(t, new)
      BY <2>3 DEF ReadDocuments
    <3> HIDE DEF new
    <3> QED
      BY <2>1, <3>1, <3>2
  <2>4. CASE WriteSubject(t) \/ WriteDetails(t) \/ DetailsConflict(t) \/ DocumentsConflict(t)
    <3>1. PICK pc \in {"details", "written", "fail"}, details \in DetailsRows :
            Goes(t, [thread[t] EXCEPT !.pc = pc, !.details = details])
      BY <2>4, FlushMoves
    <3> DEFINE new == [thread[t] EXCEPT !.pc = pc, !.details = details]
    <3>2. /\ new.pc \in OnItem /\ new.job = thread[t].job
          /\ new.todo = thread[t].todo /\ new.folder = thread[t].folder
      BY <1>1 DEF ThreadRecord, OnItem
    <3>3. Goes(t, new)
      BY <3>1 DEF Moves
    <3> HIDE DEF new
    <3> QED
      BY <2>1, <3>2, <3>3
  <2> QED
    BY <2>2, <2>3, <2>4
<1>4. \A o \in Importers, k \in Jobs : SameFor(o, k)
  BY <1>1, <1>3 DEF SameFor
<1> QED
  BY <1>2, <1>4, QuietStepJobs

(* A death of the process leaves nobody at work; from then on nothing is   *)
(* said of who attends what.                                               *)
LEMMA CrashJobs ==
  ASSUME Bound, JobsGood, Crash
  PROVE  JobsGood'
<1>1. /\ thread' = [t \in Importers |-> Idle] /\ UNCHANGED <<job, item, shared>>
      /\ crashes' > 0
  BY DEF Crash, Bound, TypeOK
<1>2. \A t \in Importers, j \in Jobs : ~WorksOn(t, j)'
  BY <1>1 DEF WorksOn, Idle
<1>3. \A j \in Jobs : AllDone(j) => AllDone(j)'
  BY <1>1 DEF AllDone, ItemsOf
<1> QED
  BY <1>1, <1>2, <1>3 DEF JobsGood, LoneJob

(* Every step keeps the jobs good.                                         *)
LEMMA NextJobs ==
  ASSUME Bound, JobsGood, [Next]_vars
  PROVE  JobsGood'
<1>1. ASSUME NEW t \in Importers, ThreadStep(t)
      PROVE  JobsGood'
  <2>1. CASE DiscoveryFails(t)
    BY <2>1, RequestJobs
  <2> QED
    BY <1>1, <2>1, DiscoverJobs, ResumeJobs, StartJobs, SelectJobs, TakeJobs, ItemStepsJobs,
       LeaveStepsJobs, TallyJobs, FinishJobs DEF ThreadStep
<1>2. ASSUME NEW t \in Importers, NEW scope \in Scopes, Request(t, scope)
      PROVE  JobsGood'
  BY <1>2, RequestJobs
<1>3. ASSUME NEW scope \in Scopes, Snapshot(scope)
      PROVE  JobsGood'
  BY <1>3, SnapshotJobs
<1>4. CASE (OperatorStep /\ UNCHANGED imports) \/ UNCHANGED vars
  <2>1. UNCHANGED <<job, item, thread, shared, crashes>>
    BY <1>4 DEF imports, vars
  <2> QED
    BY <2>1, QuietStepJobs DEF SameFor
<1> QED
  BY <1>1, <1>2, <1>3, <1>4, CrashJobs DEF Next

-----------------------------------------------------------------------------
(* What the register holds.                                                *)

RegisterGood == /\ OpenWritesExclude /\ RowsAreProper /\ DocumentsWereSeen
                /\ FiledUnlessStale /\ DetailsMatchType /\ AutoMeansClassified

(* The three properties of the rows say nothing of threads or calls.       *)
LEMMA RowsUnchanged ==
  ASSUME UNCHANGED <<register, stale>>, RowsAreProper,
         FiledUnlessStale, DetailsMatchType, AutoMeansClassified
  PROVE  /\ RowsAreProper' /\ FiledUnlessStale'
         /\ DetailsMatchType' /\ AutoMeansClassified'
<1>1. UNCHANGED <<subject, person, company, documents, stale>>
  BY DEF register
<1>2. RowsAreProper'
  BY <1>1 DEF RowsAreProper, Exists
<1>3. FiledUnlessStale'
  BY <1>1 DEF FiledUnlessStale, DocsOf
<1>4. DetailsMatchType' /\ AutoMeansClassified'
  BY <1>1 DEF DetailsMatchType, AutoMeansClassified
<1> QED
  BY <1>2, <1>3, <1>4

(* A thread that stays as it is, with its write, keeps both bound.         *)
LEMMA WriteStaysBound ==
  ASSUME NEW t \in Importers, WriteIsBound(t),
         \/ thread'[t] = thread[t]
         \/ thread[t].pc \notin HasWritten /\ thread'[t].pc \notin HasWritten,
         open'[t] = open[t], UNCHANGED subject
  PROVE  WriteIsBound(t)'
BY DEF WriteIsBound, ImportedType, ImportedKey, Exists, PathTaken

(* A step that leaves the register, the open writes and the threads that   *)
(* have one.                                                               *)
LEMMA QuietRegister ==
  ASSUME Bound, RegisterGood, UNCHANGED <<register, open, stale>>,
         \A t \in Importers :
           \/ thread'[t] = thread[t]
           \/ thread[t].pc \notin HasWritten /\ thread'[t].pc \notin HasWritten
  PROVE  RegisterGood'
<1>1. UNCHANGED <<subject, documents, open, stale>>
  BY DEF register
<1>2. OpenWritesExclude'
  BY <1>1, WriteStaysBound DEF RegisterGood, OpenWritesExclude, WritesExclude
<1>3. DocumentsWereSeen'
  <2>1. ASSUME NEW t \in Importers, SawDocuments(t)
        PROVE  SawDocuments(t)'
    BY <1>1, <2>1 DEF SawDocuments, HasWritten, DocsOf, Found
  <2> QED
    BY <1>1, <2>1 DEF RegisterGood, DocumentsWereSeen
<1> QED
  BY <1>2, <1>3, RowsUnchanged DEF RegisterGood

(* The steps of a thread that are not between the two flushes of an item.  *)
LEMMA QuietThreadSteps ==
  ASSUME Bound, RegisterGood, NEW t \in Importers,
         \/ \E scope \in Scopes : Request(t, scope)
         \/ Discover(t) \/ DiscoveryFails(t) \/ Resume(t) \/ StartJob(t) \/ SelectItems(t)
         \/ \E f \in Folders : TakeItem(t, f)
         \/ ListFilesAndLookUp(t) \/ FailItem(t) \/ TallyItems(t) \/ FinishJob(t)
  PROVE  RegisterGood'
<1> DEFINE Away == HasWritten
<1>1. thread[t] \in ThreadRecord
  BY ThreadTyped
<1>2. UNCHANGED <<register, open, stale>> /\ thread[t].pc \notin Away
  BY DEF Request, Discover, DiscoveryFails, Resume, StartJob, SelectItems, TakeItem,
         ListFilesAndLookUp, FailItem, TallyItems, FinishJob, RegisterUntouched, HasWritten
<1>3. \E new : Goes(t, new) /\ new.pc \notin Away
  <2>1. CASE \E scope \in Scopes : Request(t, scope)
    <3>1. PICK scope, j :
            \/ Goes(t, [Idle EXCEPT !.pc = "discover", !.scope = scope])
            \/ Goes(t, [Idle EXCEPT !.pc = "resume", !.scope = scope, !.job = j])
      BY <2>1 DEF Request
    <3>2. /\ [Idle EXCEPT !.pc = "discover", !.scope = scope].pc = "discover"
          /\ [Idle EXCEPT !.pc = "resume", !.scope = scope, !.job = j].pc = "resume"
      BY DEF Idle
    <3> QED
      BY <3>1, <3>2 DEF HasWritten
  <2>2. CASE Discover(t) \/ Resume(t)
    <3>1. PICK j, row : Goes(t, [thread[t] EXCEPT !.pc = "start", !.job = j, !.seen = row])
                        \/ Goes(t, [thread[t] EXCEPT !.pc = "start", !.seen = row])
      BY <2>2 DEF Discover, Resume
    <3>2. /\ [thread[t] EXCEPT !.pc = "start", !.job = j, !.seen = row].pc = "start"
          /\ [thread[t] EXCEPT !.pc = "start", !.seen = row].pc = "start"
      BY <1>1 DEF ThreadRecord
    <3> QED
      BY <3>1, <3>2 DEF HasWritten
  <2>3. CASE StartJob(t) \/ FinishJob(t) \/ FailItem(t) \/ DiscoveryFails(t)
    <3>1. PICK j, todo :
            \/ Goes(t, Idle) \/ Goes(t, [Idle EXCEPT !.pc = "select", !.job = j])
            \/ Goes(t, [Idle EXCEPT !.pc = "head", !.job = j, !.todo = todo])
      BY <2>3 DEF StartJob, FinishJob, FailItem, DiscoveryFails
    <3>2. /\ Idle.pc = "idle" /\ [Idle EXCEPT !.pc = "select", !.job = j].pc = "select"
          /\ [Idle EXCEPT !.pc = "head", !.job = j, !.todo = todo].pc = "head"
      BY DEF Idle
    <3> QED
      BY <3>1, <3>2 DEF HasWritten
  <2>4. CASE SelectItems(t)
    <3>1. PICK todo : Goes(t, [thread[t] EXCEPT !.pc = "head", !.todo = todo])
      BY <2>4 DEF SelectItems
    <3>2. [thread[t] EXCEPT !.pc = "head", !.todo = todo].pc = "head"
      BY <1>1 DEF ThreadRecord
    <3> QED
      BY <3>1, <3>2 DEF HasWritten
  <2>5. CASE \E f \in Folders : TakeItem(t, f)
    <3>1. PICK f, todo : Goes(t, [thread[t] EXCEPT !.pc = "list", !.folder = f, !.todo = todo])
      BY <1>1, <2>5 DEF TakeItem, ThreadRecord
    <3>2. [thread[t] EXCEPT !.pc = "list", !.folder = f, !.todo = todo].pc = "list"
      BY <1>1 DEF ThreadRecord
    <3> QED
      BY <3>1, <3>2 DEF HasWritten
  <2>6. CASE ListFilesAndLookUp(t)
    <3>1. PICK found, s, row :
            \/ Goes(t, [thread[t] EXCEPT !.pc = "write", !.files = found,
                                         !.sid = s, !.row = row])
            \/ Goes(t, [thread[t] EXCEPT !.pc = "write", !.files = found])
      BY <2>6 DEF ListFilesAndLookUp
    <3>2. /\ [thread[t] EXCEPT !.pc = "write", !.files = found,
                               !.sid = s, !.row = row].pc = "write"
          /\ [thread[t] EXCEPT !.pc = "write", !.files = found].pc = "write"
      BY <1>1 DEF ThreadRecord
    <3> QED
      BY <3>1, <3>2 DEF HasWritten
  <2>7. CASE TallyItems(t)
    <3>1. PICK seen, tally :
            Goes(t, [thread[t] EXCEPT !.pc = "finish", !.seen = seen, !.tally = tally])
      BY <2>7 DEF TallyItems
    <3>2. [thread[t] EXCEPT !.pc = "finish", !.seen = seen, !.tally = tally].pc = "finish"
      BY <1>1 DEF ThreadRecord
    <3> QED
      BY <3>1, <3>2 DEF HasWritten
  <2> QED
    BY <2>1, <2>2, <2>3, <2>4, <2>5, <2>6, <2>7
<1>4. /\ thread'[t].pc \notin Away
      /\ \A o \in Importers \ {t} : thread'[o] = thread[o]
  BY <1>3 DEF Goes, Bound, TypeOK
<1> QED
  BY <1>2, <1>4, QuietRegister

(* Steps that drop the open writes of the threads they move.               *)
LEMMA RollbackRegister ==
  ASSUME Bound, RegisterGood, UNCHANGED <<register, stale>>,
         \A t \in Importers :
           \/ thread'[t] = thread[t] /\ open'[t] = open[t]
           \/ thread'[t].pc \notin HasWritten /\ open'[t] = NoWrite
  PROVE  RegisterGood'
<1>1. UNCHANGED <<subject, documents, stale>>
  BY DEF register
<1>2. ASSUME NEW t \in Importers
      PROVE  WriteIsBound(t)'
  <2>1. CASE thread'[t] = thread[t] /\ open'[t] = open[t]
    BY <1>1, <2>1, WriteStaysBound DEF RegisterGood, OpenWritesExclude
  <2>2. CASE thread'[t].pc \notin HasWritten /\ open'[t] = NoWrite
    BY <2>2 DEF WriteIsBound, NoWrite
  <2> QED
    BY <2>1, <2>2
<1>3. ASSUME NEW t \in Importers, NEW o \in Importers, t # o
      PROVE  WritesExclude(t, o)'
  <2>1. open'[t] = open[t] \/ open'[t].sid = None
    BY DEF NoWrite
  <2>2. open'[o] = open[o] \/ open'[o].sid = None
    BY DEF NoWrite
  <2> QED
    BY <1>3, <2>1, <2>2 DEF RegisterGood, OpenWritesExclude, WritesExclude
<1>4. DocumentsWereSeen'
  <2>1. ASSUME NEW t \in Importers, SawDocuments(t)
        PROVE  SawDocuments(t)'
    BY <1>1, <2>1 DEF SawDocuments, HasWritten, DocsOf, Found
  <2> QED
    BY <1>1, <2>1 DEF RegisterGood, DocumentsWereSeen
<1> QED
  BY <1>2, <1>3, <1>4, RowsUnchanged DEF RegisterGood, OpenWritesExclude

(* A crash, and a conflict on the details or on the documents, roll back.  *)
LEMMA RollbacksRegister ==
  ASSUME Bound, RegisterGood,
         Crash \/ \E t \in Importers : DetailsConflict(t) \/ DocumentsConflict(t)
  PROVE  RegisterGood'
<1>1. CASE Crash
  <2>1. \A t \in Importers : thread'[t].pc = "idle" /\ open'[t] = NoWrite
    BY <1>1 DEF Crash, Idle
  <2> QED
    BY <1>1, <2>1, RollbackRegister DEF Crash, HasWritten
<1>2. ASSUME NEW t \in Importers, DetailsConflict(t) \/ DocumentsConflict(t)
      PROVE  RegisterGood'
  <2>1. thread[t] \in ThreadRecord
    BY ThreadTyped
  <2>2. /\ Moves(t, "fail") /\ open' = [open EXCEPT ![t] = NoWrite]
        /\ UNCHANGED <<register, stale>>
    BY <1>2 DEF DetailsConflict, DocumentsConflict
  <2>3. thread'[t].pc = "fail" /\ \A o \in Importers \ {t} : thread'[o] = thread[o]
    BY <2>1, <2>2 DEF Moves, Goes, Bound, TypeOK, ThreadRecord
  <2>4. open'[t] = NoWrite /\ \A o \in Importers \ {t} : open'[o] = open[o]
    BY <2>2 DEF Bound, TypeOK, RegisterTypeOK
  <2> QED
    BY <2>2, <2>3, <2>4, RollbackRegister DEF HasWritten
<1> QED
  BY <1>1, <1>2

(* A write is opened on a row, and for a path, that no other one has.      *)
LEMMA OpenRegister ==
  ASSUME Bound, RegisterGood, NEW t \in Importers, WriteSubject(t)
  PROVE  RegisterGood'
<1>1. /\ thread[t] \in ThreadRecord /\ ThreadIsBound(t) /\ thread[t].pc = "write"
      /\ open[t] \in OpenWrite
  BY ThreadTyped DEF WriteSubject, Bound, TypeOK, RegisterTypeOK
<1>2. thread[t].folder \in Folders /\ thread[t].sid \in SubjectIds \cup {None}
  BY <1>1 DEF ThreadIsBound, OnItem, ItemsOf, ThreadRecord
<1>3. UNCHANGED <<register, stale>> /\ UNCHANGED <<subject, documents>>
  BY DEF WriteSubject, register
<1>4. CASE Moves(t, "fail") /\ UNCHANGED open
  <2>1. thread'[t].pc = "fail" /\ \A o \in Importers \ {t} : thread'[o] = thread[o]
    BY <1>1, <1>4 DEF Moves, Goes, Bound, TypeOK, ThreadRecord
  <2> QED
    BY <1>1, <1>3, <1>4, <2>1, QuietRegister DEF HasWritten
<1>5. ASSUME NEW target \in SubjectIds,
             \/ thread[t].sid # None /\ target = thread[t].sid
             \/ thread[t].sid = None /\ ~Exists(target) /\ ~Writing(target),
             ~WaitsForSubject(t, target),
             thread[t].sid = None => /\ ~PathContended(target, thread[t].folder)
                                     /\ ~PathTaken(target, thread[t].folder),
             open' = [open EXCEPT ![t] =
                        [sid |-> target, fresh |-> thread[t].sid = None,
                         path |-> thread[t].folder,
                         type |-> ImportedType(t), key |-> ImportedKey(t),
                         holds |-> {}]],
             Goes(t, [thread[t] EXCEPT !.pc = "details", !.details = DetailsOf(target)])
      PROVE  RegisterGood'
  <2>1. /\ thread'[t].pc = "details" /\ thread'[t].folder = thread[t].folder
        /\ thread'[t].sid = thread[t].sid
        /\ \A o \in Importers \ {t} : thread'[o] = thread[o]
    BY <1>1, <1>5 DEF Goes, Bound, TypeOK, ThreadRecord
  <2>2. /\ open'[t].sid = target /\ open'[t].path = thread[t].folder
        /\ open'[t].fresh = (thread[t].sid = None)
        /\ open'[t].type = ImportedType(t) /\ open'[t].key = ImportedKey(t)
        /\ open'[t].holds = {}
        /\ \A o \in Importers \ {t} : open'[o] = open[o]
    BY <1>5 DEF Bound, TypeOK, RegisterTypeOK
  <2>3. WriteIsBound(t)'
    <3>1. ImportedType(t)' = ImportedType(t) /\ ImportedKey(t)' = ImportedKey(t)
      BY <2>1 DEF ImportedType, ImportedKey
    <3>2. thread[t].sid = None => /\ ~Exists(target)'
                                  /\ ~PathTaken(target, thread[t].folder)'
      BY <1>3, <1>5, <2>1 DEF Exists, PathTaken
    <3> QED
      <4>1. open'[t].fresh => ~Exists(open[t].sid)' /\ ~PathTaken(open[t].sid, open[t].path)'
        BY <1>3, <1>5, <2>2 DEF Exists, PathTaken
      <4>2. open'[t].type = ImportedType(t)' /\ open'[t].key = ImportedKey(t)'
        BY <2>2, <3>1
      <4>3. open'[t].sid # None /\ (~open'[t].fresh => open'[t].sid = thread'[t].sid)
        <5>1. target # None /\ open'[t].sid = target
          BY <2>2, RegisterAssumption DEF RegisterAssumption
        <5>2. thread[t].sid # None => target = thread[t].sid
          BY <1>5
        <5> QED
          BY <2>1, <2>2, <5>1, <5>2
      <4>4. open'[t].path = thread'[t].folder /\ (open'[t].fresh <=> thread'[t].sid = None)
        BY <2>1, <2>2
      <4>5. thread'[t].pc = "details" /\ open'[t].holds = {}
        BY <2>1, <2>2
      <4> QED
        BY <4>1, <4>2, <4>3, <4>4, <4>5 DEF WriteIsBound, HasWritten
  <2>4. ASSUME NEW o \in Importers, o # t
        PROVE  WritesExclude(t, o)' /\ WritesExclude(o, t)'
    <3>1. open[o].sid # target
      BY <1>5, <2>4 DEF WaitsForSubject, Writing
    <3>2. thread[t].sid = None /\ open[o].sid # None /\ open[o].fresh
            => open[o].path # thread[t].folder
      BY <1>2, <1>5, <3>1 DEF PathContended
    <3> QED
      BY <2>2, <2>4, <3>1, <3>2 DEF WritesExclude
  <2>5. OpenWritesExclude'
    <3>1. ASSUME NEW o \in Importers
          PROVE  WriteIsBound(o)'
      BY <1>3, <2>1, <2>2, <2>3, WriteStaysBound DEF RegisterGood, OpenWritesExclude
    <3>2. ASSUME NEW o \in Importers, NEW p \in Importers, o # p
          PROVE  WritesExclude(o, p)'
      BY <2>2, <2>4, <3>2 DEF RegisterGood, OpenWritesExclude, WritesExclude
    <3> QED
      BY <3>1, <3>2 DEF OpenWritesExclude
  <2>6. DocumentsWereSeen'
    <3>1. ASSUME NEW o \in Importers, SawDocuments(o)
          PROVE  SawDocuments(o)'
      BY <1>3, <2>1, <2>2, <3>1 DEF SawDocuments, DocsOf, Found
    <3> QED
      BY <1>3, <3>1 DEF RegisterGood, DocumentsWereSeen
  <2> QED
    BY <1>3, <2>5, <2>6, RowsUnchanged DEF RegisterGood
<1> QED
  BY <1>2, <1>4, <1>5 DEF WriteSubject

(* The details written are those that the import changes.                  *)
LEMMA DetailsRegister ==
  ASSUME Bound, RegisterGood, NEW t \in Importers, WriteDetails(t)
  PROVE  RegisterGood'
<1>1. /\ thread[t] \in ThreadRecord /\ thread[t].pc = "details"
      /\ open[t] \in OpenWrite /\ WriteIsBound(t)
  BY ThreadTyped DEF WriteDetails, RegisterGood, OpenWritesExclude, Bound, TypeOK, RegisterTypeOK
<1>2. UNCHANGED <<register, stale>> /\ UNCHANGED <<subject, documents>>
  BY DEF WriteDetails, register
<1>3. /\ thread'[t] = [thread[t] EXCEPT !.pc = "written"]
      /\ \A o \in Importers \ {t} : thread'[o] = thread[o]
  BY DEF WriteDetails, Moves, Goes, Bound, TypeOK
<1>4. /\ thread'[t].pc = "written" /\ thread'[t].details = thread[t].details
      /\ thread'[t].folder = thread[t].folder /\ thread'[t].sid = thread[t].sid
  BY <1>1, <1>3 DEF ThreadRecord
<1>5. /\ open'[t] = [open[t] EXCEPT !.holds = Sent(thread[t].details, ImportedDetails(t))]
      /\ \A o \in Importers \ {t} : open'[o] = open[o]
  BY DEF WriteDetails, Bound, TypeOK, RegisterTypeOK
<1>6. /\ open'[t].holds = Sent(thread[t].details, ImportedDetails(t))
      /\ open'[t].sid = open[t].sid /\ open'[t].path = open[t].path
      /\ open'[t].type = open[t].type /\ open'[t].key = open[t].key
      /\ open'[t].fresh = open[t].fresh
  BY <1>1, <1>5 DEF OpenWrite
<1>7. OpenWritesExclude'
  <2>1. WriteIsBound(t)'
    <3>1. open[t].sid # None
      BY <1>1 DEF WriteIsBound, HasWritten
    <3>2. ImportedDetails(t) = DetailsFor(open[t].type, open[t].key)
      BY <1>1, <3>1 DEF WriteIsBound, ImportedDetails
    <3>3. ImportedType(t)' = ImportedType(t) /\ ImportedKey(t)' = ImportedKey(t)
      BY <1>4 DEF ImportedType, ImportedKey
    <3>4. open'[t].holds = Sent(thread[t].details, DetailsFor(open[t].type, open[t].key))
      BY <1>6, <3>2
    <3> QED
      BY <1>1, <1>2, <1>4, <1>6, <3>1, <3>3, <3>4 DEF WriteIsBound, HasWritten, Exists, PathTaken
  <2>2. ASSUME NEW o \in Importers
        PROVE  WriteIsBound(o)'
    BY <1>2, <1>3, <1>5, <2>1, WriteStaysBound DEF RegisterGood, OpenWritesExclude
  <2>3. ASSUME NEW o \in Importers
        PROVE  open'[o].sid = open[o].sid /\ open'[o].path = open[o].path
               /\ open'[o].fresh = open[o].fresh
    BY <1>5, <1>6
  <2>4. ASSUME NEW o \in Importers, NEW p \in Importers, o # p
        PROVE  WritesExclude(o, p)'
    BY <2>3, <2>4 DEF RegisterGood, OpenWritesExclude, WritesExclude
  <2> QED
    BY <2>2, <2>4 DEF OpenWritesExclude
<1>8. DocumentsWereSeen'
  <2>1. SawDocuments(t)'
    BY <1>4 DEF SawDocuments
  <2>2. ASSUME NEW o \in Importers, o # t, SawDocuments(o)
        PROVE  SawDocuments(o)'
    BY <1>2, <1>3, <1>5, <2>2 DEF SawDocuments, DocsOf, Found
  <2> QED
    BY <1>2, <2>1, <2>2 DEF RegisterGood, DocumentsWereSeen
<1> QED
  BY <1>2, <1>7, <1>8, RowsUnchanged DEF RegisterGood

(* The documents read are those that there are.                            *)
LEMMA ReadRegister ==
  ASSUME Bound, RegisterGood, NEW t \in Importers, ReadDocuments(t)
  PROVE  RegisterGood'
<1>1. thread[t] \in ThreadRecord /\ thread[t].pc = "written"
  BY ThreadTyped DEF ReadDocuments
<1>2. UNCHANGED <<register, open, stale>> /\ UNCHANGED <<subject, documents>>
  BY DEF ReadDocuments, RegisterUntouched, register
<1>3. /\ thread'[t].pc = "commit" /\ thread'[t].docs = documents
      /\ thread'[t].folder = thread[t].folder /\ thread'[t].sid = thread[t].sid
      /\ thread'[t].details = thread[t].details
      /\ \A o \in Importers \ {t} : thread'[o] = thread[o]
  BY <1>1 DEF ReadDocuments, Goes, Bound, TypeOK, ThreadRecord
<1>4. OpenWritesExclude'
  <2>1. WriteIsBound(t)'
    BY <1>1, <1>2, <1>3 DEF RegisterGood, OpenWritesExclude, WriteIsBound, HasWritten,
                            ImportedType, ImportedKey, Exists, PathTaken
  <2>2. ASSUME NEW o \in Importers
        PROVE  WriteIsBound(o)'
    BY <1>2, <1>3, <2>1, WriteStaysBound DEF RegisterGood, OpenWritesExclude
  <2> QED
    BY <1>2, <2>2 DEF RegisterGood, OpenWritesExclude, WritesExclude
<1>5. DocumentsWereSeen'
  <2>1. SawDocuments(t)'
    BY <1>2, <1>3 DEF SawDocuments, Found
  <2>2. ASSUME NEW o \in Importers, o # t, SawDocuments(o)
        PROVE  SawDocuments(o)'
    BY <1>2, <1>3, <2>2 DEF SawDocuments, DocsOf, Found
  <2> QED
    BY <1>2, <2>1, <2>2 DEF RegisterGood, DocumentsWereSeen
<1> QED
  BY <1>2, <1>4, <1>5, RowsUnchanged DEF RegisterGood

(* What a commit finds, and what it does to the rows.                      *)
LEMMA CommitFinds ==
  ASSUME Bound, RegisterGood, NEW t \in Importers, CommitItem(t)
  PROVE  /\ thread[t].pc = "commit" /\ WriteIsBound(t) /\ ThreadIsBound(t)
         /\ thread[t] \in ThreadRecord /\ open[t] \in OpenWrite
         /\ open[t].sid \in SubjectIds /\ thread[t].folder \in Folders
         /\ thread[t].files \in SUBSET Files
         /\ ~open[t].fresh => Exists(open[t].sid) /\ thread[t].row.path = thread[t].folder
<1>1. /\ thread[t].pc = "commit" /\ WriteIsBound(t) /\ ThreadIsBound(t)
      /\ thread[t] \in ThreadRecord /\ open[t] \in OpenWrite
  BY ThreadTyped DEF CommitItem, RegisterGood, OpenWritesExclude, Bound, TypeOK, RegisterTypeOK
<1>2. open[t].sid # None
  BY <1>1 DEF WriteIsBound, HasWritten
<1>3. open[t].sid \in SubjectIds /\ thread[t].files \in SUBSET Files
  BY <1>1, <1>2 DEF OpenWrite, ThreadRecord
<1>4. thread[t].folder \in Folders
  BY <1>1 DEF ThreadIsBound, OnItem, ItemsOf
<1>5. ~open[t].fresh => Exists(open[t].sid) /\ thread[t].row.path = thread[t].folder
  BY <1>1, <1>2 DEF WriteIsBound, ThreadIsBound, HasWritten
<1> QED
  BY <1>1, <1>3, <1>4, <1>5

(* The rows after a commit: one subject changed, with the details of its   *)
(* type.                                                                   *)
LEMMA CommitLeaves ==
  ASSUME Bound, RegisterGood, NEW t \in Importers, CommitItem(t),
         NEW s \in SubjectIds, s = open[t].sid
  PROVE  /\ Exists(s)'
         /\ subject'[s].path = IF open[t].fresh THEN thread[t].folder ELSE subject[s].path
         /\ ~stale' => /\ subject'[s].type = open[t].type
                       /\ person'[s] = PersonKey(open[t].type, open[t].key)
                       /\ company'[s] = CompanyKey(open[t].type, open[t].key)
         /\ \A o \in SubjectIds \ {s} : /\ subject'[o] = subject[o]
                                        /\ person'[o] = person[o]
                                        /\ company'[o] = company[o]
         /\ open'[t] = NoWrite /\ \A o \in Importers \ {t} : open'[o] = open[o]
         /\ thread'[t].pc = "head"
         /\ \A o \in Importers \ {t} : thread'[o] = thread[o]
         /\ stale' = (stale \/ OverChangedRows(t))
<1>1. s \in SubjectIds /\ thread[t].pc = "commit" /\ WriteIsBound(t)
  BY CommitFinds
<1>2. subject' = [subject EXCEPT ![s] = CommittedSubject(t)]
  BY CommitWrites
<1>3. CommittedSubject(t).type # "absent"
  BY <1>1, CommitFinds, CommitTyped
<1>4. subject'[s] = CommittedSubject(t) /\ \A o \in SubjectIds \ {s} : subject'[o] = subject[o]
  BY <1>1, <1>2 DEF Bound, TypeOK, RegisterTypeOK
<1>5. CommittedSubject(t).path = IF open[t].fresh THEN thread[t].folder ELSE subject[s].path
  <2>1. CASE open[t].fresh
    BY <2>1 DEF CommittedSubject, ImportedSubject
  <2>2. CASE ~open[t].fresh
    BY <2>2 DEF CommittedSubject, ImportedSubject, FlushSubject, Column
  <2> QED
    BY <2>1, <2>2
<1>6. stale' = (stale \/ OverChangedRows(t))
  BY DEF CommitItem
<1>7. ~stale' => CommittedSubject(t).type = open[t].type
  <2>1. open[t].type = ImportedType(t)
    BY <1>1, CommitFinds DEF WriteIsBound
  <2>2. CASE open[t].fresh
    BY <2>1, <2>2 DEF CommittedSubject, ImportedSubject
  <2>3. CASE ~open[t].fresh
    <3>1. ~stale' => subject[s] = thread[t].row
      BY <1>6, <2>3 DEF OverChangedRows
    <3> QED
      BY <2>1, <2>3, <3>1 DEF CommittedSubject, ImportedSubject, FlushSubject, Column
  <2> QED
    BY <2>2, <2>3
<1>8. /\ ~stale' => /\ person'[s] = PersonKey(open[t].type, open[t].key)
                     /\ company'[s] = CompanyKey(open[t].type, open[t].key)
      /\ \A o \in SubjectIds \ {s} : person'[o] = person[o] /\ company'[o] = company[o]
  <2> DEFINE fiscalCode == PersonKey(open[t].type, open[t].key)
             vat == CompanyKey(open[t].type, open[t].key)
  <2>1. /\ person' = [person EXCEPT ![s] = CommittedKey(t, "person", fiscalCode, @)]
        /\ company' = [company EXCEPT ![s] = CommittedKey(t, "company", vat, @)]
    BY DEF CommitItem
  <2>2. open[t].holds = Sent(thread[t].details, DetailsFor(open[t].type, open[t].key))
    BY <1>1, CommitFinds DEF WriteIsBound
  <2>3. /\ "person" \notin open[t].holds => thread[t].details["person"] = fiscalCode
        /\ "company" \notin open[t].holds => thread[t].details["company"] = vat
    BY <2>2, DetailsTyped DEF Sent
  <2>4. ~stale' => /\ person[s] = thread[t].details["person"]
                   /\ company[s] = thread[t].details["company"]
    <3>1. ~stale' => DetailsOf(s) = thread[t].details
      BY <1>6 DEF OverChangedRows
    <3> QED
      BY <3>1, DetailsTyped
  <2> HIDE DEF fiscalCode, vat
  <2>5. /\ person'[s] = CommittedKey(t, "person", fiscalCode, person[s])
        /\ company'[s] = CommittedKey(t, "company", vat, company[s])
        /\ \A o \in SubjectIds \ {s} : person'[o] = person[o] /\ company'[o] = company[o]
    BY <1>1, <2>1 DEF Bound, TypeOK, RegisterTypeOK
  <2>6. ~stale' => person'[s] = fiscalCode /\ company'[s] = vat
    BY <2>3, <2>4, <2>5 DEF CommittedKey
  <2> QED
    BY <2>5, <2>6 DEF fiscalCode, vat
<1>9. open'[t] = NoWrite /\ \A o \in Importers \ {t} : open'[o] = open[o]
  BY DEF CommitItem, Bound, TypeOK, RegisterTypeOK
<1>10. /\ thread'[t].pc = "head"
       /\ \A o \in Importers \ {t} : thread'[o] = thread[o]
  BY DEF CommitItem, Goes, Bound, TypeOK, Idle
<1> QED
  BY <1>3, <1>4, <1>5, <1>6, <1>7, <1>8, <1>9, <1>10 DEF Exists

(* The paths stay unique and the other open writes bound.                  *)
LEMMA CommitKeepsWrites ==
  ASSUME Bound, RegisterGood, NEW t \in Importers, CommitItem(t)
  PROVE  OpenWritesExclude'
<1>1. PICK s \in SubjectIds : s = open[t].sid /\ s # None
  BY CommitFinds
<1>2. /\ open'[t] = NoWrite /\ \A o \in Importers \ {t} : open'[o] = open[o]
      /\ thread'[t].pc = "head"
      /\ \A o \in Importers \ {t} : thread'[o] = thread[o]
      /\ \A o \in SubjectIds \ {s} : subject'[o] = subject[o]
      /\ subject'[s].path = IF open[t].fresh THEN thread[t].folder ELSE subject[s].path
  BY <1>1, CommitLeaves
<1>3. /\ ~open[t].fresh => Exists(s)
      /\ open[t].path = thread[t].folder
  BY <1>1, CommitFinds DEF WriteIsBound
<1>4. WriteIsBound(t)'
  BY <1>2 DEF WriteIsBound, NoWrite, HasWritten
<1>5. ASSUME NEW o \in Importers, o # t
      PROVE  WriteIsBound(o)'
  <2>1. WriteIsBound(o) /\ WritesExclude(t, o) /\ open[o] \in OpenWrite
    BY <1>5 DEF RegisterGood, OpenWritesExclude, Bound, TypeOK, RegisterTypeOK
  <2>2. open'[o] = open[o] /\ thread'[o] = thread[o]
    BY <1>2, <1>5
  <2>3. open[o].sid # s
    BY <1>1, <2>1 DEF WritesExclude
  <2>4. ASSUME open[o].sid # None, open[o].fresh
        PROVE  ~Exists(open[o].sid)' /\ ~PathTaken(open[o].sid, open[o].path)'
    <3>1. ~Exists(open[o].sid) /\ ~PathTaken(open[o].sid, open[o].path)
      BY <2>1, <2>4 DEF WriteIsBound
    <3>2. open[o].sid \in SubjectIds
      BY <2>1, <2>4 DEF OpenWrite
    <3>3. ~Exists(open[o].sid)'
      BY <1>2, <2>2, <2>3, <3>1, <3>2 DEF Exists
    <3>4. open[o].path # None => subject'[s].path # open[o].path
      <4>1. CASE open[t].fresh
        BY <1>1, <1>2, <1>3, <2>1, <2>4, <4>1 DEF WritesExclude
      <4>2. CASE ~open[t].fresh
        BY <1>1, <1>2, <1>3, <2>3, <3>1, <4>2 DEF PathTaken
      <4> QED
        BY <4>1, <4>2
    <3>5. ~PathTaken(open[o].sid, open[o].path)'
      BY <1>1, <1>2, <2>2, <3>1, <3>4 DEF PathTaken, Exists
    <3> QED
      BY <3>3, <3>5
  <2> QED
    BY <2>1, <2>2, <2>4 DEF WriteIsBound, ImportedType, ImportedKey
<1>6. ASSUME NEW o \in Importers, NEW p \in Importers, o # p
      PROVE  WritesExclude(o, p)'
  BY <1>2, <1>6 DEF RegisterGood, OpenWritesExclude, WritesExclude, NoWrite
<1> QED
  BY <1>4, <1>5, <1>6 DEF OpenWritesExclude

(* The subject committed has a path of its own and the details of its      *)
(* type.                                                                   *)
LEMMA CommitKeepsRows ==
  ASSUME Bound, RegisterGood, NEW t \in Importers, CommitItem(t)
  PROVE  RowsAreProper' /\ DetailsMatchType'
<1>1. PICK s \in SubjectIds : /\ s = open[t].sid /\ s # None
                            /\ thread[t].folder \in Folders /\ WriteIsBound(t)
  BY CommitFinds
<1>2. /\ Exists(s)'
      /\ subject'[s].path = IF open[t].fresh THEN thread[t].folder ELSE subject[s].path
      /\ ~stale' => /\ subject'[s].type = open[t].type
                    /\ person'[s] = PersonKey(open[t].type, open[t].key)
                    /\ company'[s] = CompanyKey(open[t].type, open[t].key)
      /\ \A o \in SubjectIds \ {s} : /\ subject'[o] = subject[o]
                                     /\ person'[o] = person[o]
                                     /\ company'[o] = company[o]
      /\ stale' = (stale \/ OverChangedRows(t))
  BY <1>1, CommitLeaves
<1>3. ASSUME NEW o \in SubjectIds, o # s, Exists(o), subject[o].path # None
      PROVE  subject'[s].path # subject[o].path
  <2>1. CASE open[t].fresh
    <3>1. ~PathTaken(s, thread[t].folder)
      BY <1>1, <2>1 DEF WriteIsBound
    <3> QED
      BY <1>1, <1>2, <1>3, <2>1, <3>1 DEF PathTaken
  <2>2. CASE ~open[t].fresh
    <3>1. Exists(s)
      BY <1>1, <2>2, CommitFinds
    <3> QED
      BY <1>1, <1>2, <1>3, <2>2, <3>1 DEF RegisterGood, RowsAreProper
  <2> QED
    BY <2>1, <2>2
<1>4. \A d \in DocIds : documents'[d].owner # None => documents'[d].used
  <2>1. ASSUME NEW d \in DocIds
        PROVE  CommittedDoc(t, d).owner # None => CommittedDoc(t, d).used
    BY DEF CommittedDoc, FlushDoc, ImportedDoc, RegisterGood, RowsAreProper
  <2>2. documents' = [d \in DocIds |-> CommittedDoc(t, d)]
    BY CommitWrites
  <2> QED
    BY <2>1, <2>2
<1>5. RowsAreProper'
  <2>1. ASSUME NEW a \in SubjectIds, NEW b \in SubjectIds, Exists(a)', Exists(b)',
               subject'[a].path # None, subject'[a].path = subject'[b].path
        PROVE  a = b
    <3>1. CASE a = s \/ b = s
      BY <1>2, <1>3, <2>1, <3>1 DEF Exists
    <3>2. CASE a # s /\ b # s
      BY <1>2, <2>1, <3>2 DEF Exists, RegisterGood, RowsAreProper
    <3> QED
      BY <3>1, <3>2
  <2>2. ASSUME NEW a \in SubjectIds, ~Exists(a)'
        PROVE  subject'[a].path = None /\ person'[a] = None /\ company'[a] = None
    BY <1>2, <2>2 DEF Exists, RegisterGood, RowsAreProper
  <2> QED
    BY <1>4, <2>1, <2>2 DEF RowsAreProper
<1>6. DetailsMatchType'
  <2> SUFFICES ASSUME ~stale', NEW a \in SubjectIds
               PROVE  /\ (person'[a] # None) <=> (subject'[a].type = "person")
                      /\ (company'[a] # None) <=> (subject'[a].type = "company")
    BY DEF DetailsMatchType
  <2>1. CASE a = s
    <3>1. open[t].type = ImportedType(t) /\ open[t].key = ImportedKey(t)
      BY <1>1 DEF WriteIsBound
    <3>2. /\ open[t].type \in SubjectTypes
          /\ open[t].type # "unknown" => open[t].key \in Keys
      BY <1>1, <3>1, ParserType DEF ImportedType, ImportedKey
    <3>3. None \notin Keys
      OBVIOUS
    <3> QED
      BY <1>2, <2>1, <3>2, <3>3 DEF PersonKey, CompanyKey, SubjectTypes
  <2>2. CASE a # s
    BY <1>2, <2>2 DEF RegisterGood, DetailsMatchType
  <2> QED
    BY <2>1, <2>2
<1> QED
  BY <1>5, <1>6

(* A row that a SELECT or an INSERT picks is of the file it is for.        *)
LEMMA PickedDocs ==
  ASSUME Bound, NEW t \in Importers, NEW x \in thread[t].files
  PROVE  /\ x \in Filed(t) => /\ SeenAgain(t, x) \in DocIds /\ SeenAgain(t, x)[1] = x
                              /\ thread[t].docs[SeenAgain(t, x)].owner # None
         /\ (\E c \in Copies : ~documents[<<x, c>>].used)
              => /\ FreeCopy(x) \in DocIds /\ FreeCopy(x)[1] = x
                 /\ ~documents[FreeCopy(x)].used
<1>1. x \in Files
  BY ThreadTyped DEF ThreadRecord
<1>2. ASSUME x \in Filed(t)
      PROVE  /\ SeenAgain(t, x) \in DocIds /\ SeenAgain(t, x)[1] = x
             /\ thread[t].docs[SeenAgain(t, x)].owner # None
  <2>1. SeenAgain(t, x) \in Found(t, x)
    BY <1>2 DEF Filed, SeenAgain
  <2> QED
    BY <2>1 DEF Found, DocsOf
<1>3. ASSUME NEW c \in Copies, ~documents[<<x, c>>].used
      PROVE  /\ FreeCopy(x) \in DocIds /\ FreeCopy(x)[1] = x
             /\ ~documents[FreeCopy(x)].used
  <2>1. <<x, c>> \in {x} \X Copies
    BY <1>3
  <2>2. FreeCopy(x) \in {x} \X Copies /\ ~documents[FreeCopy(x)].used
    BY <1>3, <2>1 DEF FreeCopy
  <2> QED
    BY <1>1, <2>2 DEF DocIds
<1> QED
  BY <1>2, <1>3

(* When nothing it has read has changed, a commit finds every document of  *)
(* the files it has listed, and leaves one for each.                       *)
LEMMA CommitFiles ==
  ASSUME Bound, RegisterGood, NEW t \in Importers, CommitItem(t), ~stale'
  PROVE  /\ \A x \in thread[t].files : \A d, e \in DocsOf(x, documents') : d = e
         /\ \A x \in Files \ thread[t].files :
              DocsOf(x, documents') = DocsOf(x, documents)
         /\ ~open[t].fresh => subject[open[t].sid] = thread[t].row
         /\ DetailsOf(open[t].sid) = thread[t].details
         /\ \A x \in Filed(t) : Unchanged(t, x)
<1>1. /\ thread[t].pc = "commit" /\ thread[t].files \in SUBSET Files
      /\ open[t].sid \in SubjectIds /\ WriteIsBound(t)
      /\ ~open[t].fresh => thread[t].row.path = thread[t].folder
  BY CommitFinds
<1>2. /\ ~stale
      /\ ~open[t].fresh => subject[open[t].sid] = thread[t].row
      /\ DetailsOf(open[t].sid) = thread[t].details
      /\ \A x \in Filed(t) : Unchanged(t, x)
  BY DEF CommitItem, OverChangedRows
<1>3. \A x \in thread[t].files : DocsOf(x, documents) \subseteq Found(t, x)
  BY <1>1, <1>2 DEF RegisterGood, DocumentsWereSeen, SawDocuments
<1>4. documents' = [d \in DocIds |-> CommittedDoc(t, d)]
  BY CommitWrites
<1>5. \A x \in Files : \A d, e \in DocsOf(x, documents) : d = e
  BY <1>2 DEF RegisterGood, FiledUnlessStale
<1>6. ASSUME NEW x \in Filed(t), NEW d \in DocsOf(x, documents')
      PROVE  d = SeenAgain(t, x)
  <2>1. x \in thread[t].files /\ d \in DocIds /\ d[1] = x /\ CommittedDoc(t, d).owner # None
    BY <1>4, <1>6 DEF Filed, DocsOf
  <2>2. SeenAgain(t, x) \in DocsOf(x, documents)
    BY <1>2, <2>1, PickedDocs DEF Unchanged, DocsOf
  <2>3. CASE d # SeenAgain(t, x)
    <3>1. CommittedDoc(t, d) = documents[d]
      BY <2>1, <2>3 DEF CommittedDoc
    <3> QED
      BY <1>1, <1>5, <2>1, <2>2, <3>1 DEF DocsOf
  <2> QED
    BY <2>3
<1>7. ASSUME NEW x \in thread[t].files \ Filed(t), NEW d \in DocsOf(x, documents')
      PROVE  d = FreeCopy(x)
  <2>1. d \in DocIds /\ d[1] = x /\ CommittedDoc(t, d).owner # None
    BY <1>4, <1>7 DEF DocsOf
  <2>2. DocsOf(x, documents) = {}
    BY <1>3 DEF Filed
  <2>3. CASE d # FreeCopy(x)
    <3>1. CommittedDoc(t, d) = documents[d]
      BY <2>1, <2>3 DEF CommittedDoc
    <3> QED
      BY <2>1, <2>2, <3>1 DEF DocsOf
  <2> QED
    BY <2>3
<1>8. ASSUME NEW x \in Files \ thread[t].files
      PROVE  DocsOf(x, documents') = DocsOf(x, documents)
  <2>1. \A d \in DocIds : d[1] = x => documents'[d] = documents[d]
    BY <1>4 DEF CommittedDoc, Filed
  <2> QED
    BY <2>1 DEF DocsOf
<1> QED
  BY <1>2, <1>6, <1>7, <1>8

(* A commit over unchanged rows files each file once, as classified; no    *)
(* other thread has read documents of these files, because its subject     *)
(* would be the same.                                                      *)
LEMMA CommitKeepsDocs ==
  ASSUME Bound, RegisterGood, NEW t \in Importers, CommitItem(t)
  PROVE  FiledUnlessStale' /\ AutoMeansClassified' /\ DocumentsWereSeen'
<1>1. PICK s \in SubjectIds : /\ s = open[t].sid /\ s # None
                            /\ WriteIsBound(t)
  BY CommitFinds
<1>2. stale => stale'
  BY DEF CommitItem
<1> SUFFICES ASSUME ~stale'
             PROVE  FiledUnlessStale' /\ AutoMeansClassified' /\ DocumentsWereSeen'
  BY DEF FiledUnlessStale, AutoMeansClassified, DocumentsWereSeen
<1>3. FiledUnlessStale'
  <2>1. \A x \in Files \ thread[t].files : \A d, e \in DocsOf(x, documents) : d = e
    BY <1>2 DEF RegisterGood, FiledUnlessStale
  <2>2. \A x \in Files : \A d, e \in DocsOf(x, documents') : d = e
    BY <2>1, CommitFiles
  <2> QED
    BY <2>2 DEF FiledUnlessStale, DocsOf
<1>4. AutoMeansClassified'
  <2>1. documents' = [d \in DocIds |-> CommittedDoc(t, d)]
    BY CommitWrites
  <2>2. ASSUME NEW d \in DocIds, CommittedDoc(t, d).owner # None,
               CommittedDoc(t, d).source = "auto"
        PROVE  CommittedDoc(t, d).type = Classified(d[1])
    <3>1. CASE d[1] \in Filed(t) \ Gone(t) /\ d = SeenAgain(t, d[1])
      <4>1. documents[d] = thread[t].docs[d]
        BY <3>1, CommitFiles DEF Unchanged
      <4> QED
        BY <3>1, <4>1 DEF CommittedDoc, FlushDoc, Column, ImportedDoc
    <3>2. CASE d[1] \in thread[t].files \ Filed(t) /\ d = FreeCopy(d[1])
      BY <3>2 DEF CommittedDoc, ImportedDoc
    <3>3. CASE CommittedDoc(t, d) = documents[d]
      BY <1>2, <2>2, <3>3 DEF RegisterGood, AutoMeansClassified
    <3> QED
      BY <3>1, <3>2, <3>3 DEF CommittedDoc
  <2> QED
    BY <2>1, <2>2 DEF AutoMeansClassified
<1>5. DocumentsWereSeen'
  <2>1. /\ thread'[t].pc = "head"
        /\ \A o \in Importers \ {t} : thread'[o] = thread[o] /\ open'[o] = open[o]
        /\ \A o \in SubjectIds \ {s} : subject'[o] = subject[o]
    BY <1>1, CommitLeaves
  <2>2. SawDocuments(t)'
    BY <2>1 DEF SawDocuments
  <2>3. ASSUME NEW o \in Importers, o # t
        PROVE  SawDocuments(o)'
    <3>1. SawDocuments(o) /\ WriteIsBound(o) /\ ThreadIsBound(o) /\ open[o] \in OpenWrite
      BY <1>2, ThreadTyped DEF RegisterGood, DocumentsWereSeen, OpenWritesExclude, Bound,
                               TypeOK, RegisterTypeOK
    <3>2. WritesExclude(t, o)
      BY <2>3 DEF RegisterGood, OpenWritesExclude
    <3> SUFFICES ASSUME thread[o].pc = "commit",
                        open[o].fresh \/ subject'[open[o].sid].path = thread[o].folder,
                        NEW x \in thread[o].files
                 PROVE  DocsOf(x, documents') \subseteq DocsOf(x, thread[o].docs)
      BY <2>1, <2>3 DEF SawDocuments, Found, DocsOf
    <3>3. /\ open[o].sid \in SubjectIds /\ open[o].sid # s /\ open[o].sid # None
          /\ FolderOf[x] = thread[o].folder
          /\ x \in Files /\ thread[o].folder \in Folders
      BY <1>1, <3>1, <3>2, ThreadTyped DEF WriteIsBound, OpenWrite, WritesExclude, ThreadIsBound,
                                            ThreadRecord, OnItem, HasWritten, ItemsOf
    <3>4. open[o].fresh \/ subject[open[o].sid].path = thread[o].folder
      BY <2>1, <3>3
    <3>5. x \notin thread[t].files
      <4> SUFFICES ASSUME x \in thread[t].files PROVE FALSE
        OBVIOUS
      <4>1. thread[t].folder = thread[o].folder
        BY <3>3, CommitFinds DEF ThreadIsBound, HasWritten
      <4>2. ~open[t].fresh => Exists(s) /\ subject[s].path = thread[t].folder
        BY <1>1, CommitFinds, CommitFiles
      <4>3. ~open[o].fresh => Exists(open[o].sid) /\ subject[open[o].sid].path = thread[o].folder
        BY <3>1, <3>3, <3>4 DEF WriteIsBound, ThreadIsBound, HasWritten
      <4>4. CASE open[t].fresh /\ open[o].fresh
        BY <1>1, <3>1, <3>2, <3>3, <4>1, <4>4 DEF WritesExclude, WriteIsBound
      <4>5. CASE open[t].fresh /\ ~open[o].fresh
        BY <1>1, <3>3, <4>1, <4>3, <4>5 DEF WriteIsBound, PathTaken
      <4>6. CASE ~open[t].fresh /\ open[o].fresh
        BY <1>1, <3>1, <3>3, <4>1, <4>2, <4>6 DEF WriteIsBound, PathTaken
      <4>7. CASE ~open[t].fresh /\ ~open[o].fresh
        BY <3>3, <4>1, <4>2, <4>3, <4>7 DEF RegisterGood, RowsAreProper
      <4> QED
        BY <4>4, <4>5, <4>6, <4>7
    <3>6. DocsOf(x, documents') = DocsOf(x, documents)
      BY <3>3, <3>5, CommitFiles
    <3> QED
      BY <3>1, <3>4, <3>6 DEF SawDocuments, Found
  <2> QED
    BY <2>2, <2>3 DEF DocumentsWereSeen
<1> QED
  BY <1>3, <1>4, <1>5

(* An operator writes one subject, which no import holds and whose path is *)
(* neither in the table nor in an open insert.                             *)
LEMMA OneSubjectRegister ==
  ASSUME Bound, RegisterGood, UNCHANGED <<documents, open, thread>>, stale => stale',
         NEW s \in SubjectIds, Exists(s)',
         subject'[s] = subject[s] \/ ~Writing(s),
         subject'[s].path # subject[s].path => /\ ~PathTaken(s, subject'[s].path)
                                               /\ ~PathContended(s, subject'[s].path),
         ~stale' => /\ (person'[s] # None) <=> (subject'[s].type = "person")
                    /\ (company'[s] # None) <=> (subject'[s].type = "company"),
         \A o \in SubjectIds \ {s} : /\ subject'[o] = subject[o]
                                     /\ person'[o] = person[o] /\ company'[o] = company[o]
  PROVE  RegisterGood'
<1>1. ~Exists(s) => subject[s].path = None
  BY DEF RegisterGood, RowsAreProper
<1>2. ASSUME NEW o \in SubjectIds, o # s, Exists(o), subject[o].path # None
      PROVE  subject'[s].path # subject[o].path
  <2>1. CASE subject'[s].path = subject[s].path
    BY <1>1, <1>2, <2>1 DEF RegisterGood, RowsAreProper
  <2>2. CASE subject'[s].path # subject[s].path
    BY <1>2, <2>2 DEF PathTaken
  <2> QED
    BY <2>1, <2>2
<1>3. RowsAreProper'
  <2>1. ASSUME NEW a \in SubjectIds, NEW b \in SubjectIds, Exists(a)', Exists(b)',
               subject'[a].path # None, subject'[a].path = subject'[b].path
        PROVE  a = b
    <3>1. CASE a = s \/ b = s
      BY <1>2, <2>1, <3>1 DEF Exists
    <3>2. CASE a # s /\ b # s
      BY <2>1, <3>2 DEF Exists, RegisterGood, RowsAreProper
    <3> QED
      BY <3>1, <3>2
  <2>2. ASSUME NEW a \in SubjectIds, ~Exists(a)'
        PROVE  subject'[a].path = None /\ person'[a] = None /\ company'[a] = None
    BY <2>2 DEF Exists, RegisterGood, RowsAreProper
  <2>3. \A d \in DocIds : documents'[d].owner # None => documents'[d].used
    BY DEF RegisterGood, RowsAreProper
  <2> QED
    BY <2>1, <2>2, <2>3 DEF RowsAreProper
<1>4. ASSUME NEW t \in Importers
      PROVE  WriteIsBound(t)'
  <2>1. WriteIsBound(t) /\ open[t] \in OpenWrite
    BY DEF RegisterGood, OpenWritesExclude, Bound, TypeOK, RegisterTypeOK
  <2>2. ASSUME open[t].sid # None, open[t].fresh
        PROVE  ~Exists(open[t].sid)' /\ ~PathTaken(open[t].sid, open[t].path)'
    <3>1. ~Exists(open[t].sid) /\ ~PathTaken(open[t].sid, open[t].path)
      BY <2>1, <2>2 DEF WriteIsBound
    <3>2. open[t].sid \in SubjectIds
      BY <2>1, <2>2 DEF OpenWrite
    <3>3. open[t].sid # s
      BY <3>1, <2>2 DEF Writing, Exists
    <3>4. ~Exists(open[t].sid)'
      BY <3>1, <3>2, <3>3 DEF Exists
    <3>5. open[t].path # None => subject'[s].path # open[t].path
      <4>1. CASE subject'[s].path = subject[s].path
        BY <1>1, <3>1, <3>3, <4>1 DEF PathTaken
      <4>2. CASE subject'[s].path # subject[s].path
        BY <2>2, <3>3, <4>2 DEF PathContended
      <4> QED
        BY <4>1, <4>2
    <3>6. ~PathTaken(open[t].sid, open[t].path)'
      BY <3>1, <3>5 DEF PathTaken, Exists
    <3> QED
      BY <3>4, <3>6
  <2> QED
    BY <2>1, <2>2 DEF WriteIsBound, ImportedType, ImportedKey
<1>5. OpenWritesExclude'
  BY <1>4 DEF RegisterGood, OpenWritesExclude, WritesExclude
<1>6. DocumentsWereSeen'
  <2>1. ASSUME NEW t \in Importers, SawDocuments(t)
        PROVE  SawDocuments(t)'
    <3>1. WriteIsBound(t) /\ open[t] \in OpenWrite
      BY DEF RegisterGood, OpenWritesExclude, Bound, TypeOK, RegisterTypeOK
    <3>2. thread[t].pc = "commit" => subject'[open[t].sid] = subject[open[t].sid]
      BY <3>1 DEF WriteIsBound, HasWritten, OpenWrite, Writing
    <3> QED
      BY <2>1, <3>2 DEF SawDocuments, DocsOf, Found
  <2> QED
    BY <2>1 DEF RegisterGood, DocumentsWereSeen
<1>7. FiledUnlessStale'
  BY DEF RegisterGood, FiledUnlessStale, DocsOf
<1>8. AutoMeansClassified'
  BY DEF RegisterGood, AutoMeansClassified
<1>9. DetailsMatchType'
  <2>1. ASSUME ~stale', NEW o \in SubjectIds
        PROVE  /\ (person'[o] # None) <=> (subject'[o].type = "person")
               /\ (company'[o] # None) <=> (subject'[o].type = "company")
    <3>1. CASE o = s
      BY <2>1, <3>1
    <3>2. CASE o # s
      BY <2>1, <3>2 DEF RegisterGood, DetailsMatchType
    <3> QED
      BY <3>1, <3>2
  <2> QED
    BY <2>1 DEF DetailsMatchType
<1> QED
  BY <1>3, <1>5, <1>6, <1>7, <1>8, <1>9 DEF RegisterGood

(* An operator writes one document: it is as before or is gone, and an     *)
(* automatic type is still the classifier's.                               *)
LEMMA OneDocumentRegister ==
  ASSUME Bound, RegisterGood, UNCHANGED <<subject, person, company, open, thread>>,
         stale => stale', NEW d \in DocIds, NEW row, row.used,
         row.owner # None => documents[d].owner # None,
         ~stale' /\ row.owner # None /\ row.source = "auto" => row.type = Classified(d[1]),
         documents' = [documents EXCEPT ![d] = row]
  PROVE  RegisterGood'
<1>1. documents'[d] = row /\ \A e \in DocIds \ {d} : documents'[e] = documents[e]
  BY DEF Bound, TypeOK, RegisterTypeOK
<1>2. \A e \in DocIds : documents'[e].owner # None => documents[e].owner # None
  BY <1>1
<1>3. \A x : DocsOf(x, documents') \subseteq DocsOf(x, documents)
  BY <1>2 DEF DocsOf
<1>4. OpenWritesExclude'
  <2>1. \A t \in Importers : WriteIsBound(t)'
    BY WriteStaysBound DEF RegisterGood, OpenWritesExclude
  <2> QED
    BY <2>1 DEF RegisterGood, OpenWritesExclude, WritesExclude
<1>5. RowsAreProper'
  <2>1. \A e \in DocIds : documents'[e].owner # None => documents'[e].used
    BY <1>1 DEF RegisterGood, RowsAreProper
  <2> QED
    BY <2>1 DEF RegisterGood, RowsAreProper, Exists
<1>6. DocumentsWereSeen'
  <2>1. ASSUME NEW t \in Importers, SawDocuments(t)
        PROVE  SawDocuments(t)'
    <3> SUFFICES ASSUME thread[t].pc = "commit",
                        open[t].fresh \/ subject[open[t].sid].path = thread[t].folder,
                        NEW x \in thread[t].files
                 PROVE  DocsOf(x, documents') \subseteq DocsOf(x, thread[t].docs)
      BY DEF SawDocuments, Found, DocsOf
    <3> QED
      BY <1>3, <2>1 DEF SawDocuments, Found
  <2> QED
    BY <2>1 DEF RegisterGood, DocumentsWereSeen
<1>7. FiledUnlessStale'
  BY <1>2 DEF RegisterGood, FiledUnlessStale, DocsOf
<1>8. DetailsMatchType'
  BY DEF RegisterGood, DetailsMatchType
<1>9. AutoMeansClassified'
  <2>1. ASSUME ~stale', NEW e \in DocIds, documents'[e].owner # None,
               documents'[e].source = "auto"
        PROVE  documents'[e].type = Classified(e[1])
    <3>1. CASE e = d
      BY <1>1, <2>1, <3>1
    <3>2. CASE e # d
      BY <1>1, <2>1, <3>2 DEF RegisterGood, AutoMeansClassified
    <3> QED
      BY <3>1, <3>2
  <2> QED
    BY <2>1 DEF AutoMeansClassified
<1> QED
  BY <1>4, <1>5, <1>6, <1>7, <1>8, <1>9 DEF RegisterGood

(* A call is read, or fails, without a trace in the register.              *)
LEMMA NoWriteRegister ==
  ASSUME Bound, RegisterGood, UNCHANGED imports, NEW h \in Handlers,
         \/ \E s \in SubjectIds, op \in {"update", "deactivate"} : ReadSubject(h, op, s)
         \/ \E d \in DocIds, op \in {"patch", "delete"} : ReadDocument(h, op, d)
         \/ ReadDetails(h)
         \/ CallFails(h)
  PROVE  RegisterGood'
<1>1. UNCHANGED <<register, open>>
  BY DEF ReadSubject, ReadDocument, ReadDetails, CallFails, Receive, Reply
<1>2. stale \in BOOLEAN /\ (stale' = stale \/ stale' = (stale \/ FALSE))
  BY DEF ReadSubject, ReadDocument, ReadDetails, CallFails, Receive, Reply, Bound, TypeOK, RegisterTypeOK
<1>3. UNCHANGED stale /\ UNCHANGED thread
  BY <1>2 DEF imports
<1> QED
  BY <1>1, <1>3, QuietRegister

(* A subject created takes a row, a path and a key nobody has.             *)
LEMMA CreateRegister ==
  ASSUME Bound, RegisterGood, UNCHANGED imports, NEW s \in SubjectIds,
         NEW type \in SubjectTypes, NEW path \in Folders \cup {None},
         NEW key \in IF type = "unknown" THEN {None} ELSE Keys,
         CreateSubject(s, type, path, key)
  PROVE  RegisterGood'
<1>1. /\ subject'[s] = [type |-> type, status |-> "active", path |-> path]
      /\ person'[s] = PersonKey(type, key) /\ company'[s] = CompanyKey(type, key)
      /\ \A o \in SubjectIds \ {s} : /\ subject'[o] = subject[o]
                                     /\ person'[o] = person[o] /\ company'[o] = company[o]
  BY DEF CreateSubject, Bound, TypeOK, RegisterTypeOK
<1>2. /\ UNCHANGED <<documents, open, thread>> /\ stale' = stale
      /\ ~Writing(s) /\ ~PathTaken(s, path) /\ ~PathContended(s, path)
  BY DEF CreateSubject, imports
<1>3. Exists(s)'
  BY <1>1 DEF Exists, SubjectTypes
<1>4. /\ (person'[s] # None) <=> (type = "person")
      /\ (company'[s] # None) <=> (type = "company")
  BY <1>1 DEF PersonKey, CompanyKey, SubjectTypes
<1> QED
  BY <1>1, <1>2, <1>3, <1>4, OneSubjectRegister

(* What a PUT leaves of the details: those of its key, if it had one and   *)
(* they were as it had read them.                                          *)
LEMMA UpdateWrites ==
  ASSUME Bound, NEW h \in Handlers, NEW new \in UpdatedRows(call[h].row),
         NEW key \in Keys \cup {None}, CommitUpdate(h, new, key),
         NEW s \in SubjectIds, s = call[h].sid
  PROVE  /\ ~stale' /\ key # None => /\ person'[s] = PersonKey(call[h].row.type, key)
                                     /\ company'[s] = CompanyKey(call[h].row.type, key)
         /\ key = None => person'[s] = person[s] /\ company'[s] = company[s]
         /\ \A o \in SubjectIds \ {s} : person'[o] = person[o] /\ company'[o] = company[o]
<1> DEFINE seen == call[h].details
           details == IF key = None THEN seen ELSE DetailsFor(call[h].row.type, key)
<1>1. /\ person' = [person EXCEPT ![s] = Column(@, seen["person"], details["person"])]
      /\ company' = [company EXCEPT ![s] = Column(@, seen["company"], details["company"])]
      /\ ~stale' /\ key # None => seen = DetailsOf(s)
  BY DEF CommitUpdate, Reply
<1>2. key # None => /\ details["person"] = PersonKey(call[h].row.type, key)
                    /\ details["company"] = CompanyKey(call[h].row.type, key)
  BY DetailsTyped
<1>3. key = None => details = seen
  OBVIOUS
<1> HIDE DEF seen, details
<1>4. /\ person'[s] = Column(person[s], seen["person"], details["person"])
      /\ company'[s] = Column(company[s], seen["company"], details["company"])
      /\ \A o \in SubjectIds \ {s} : person'[o] = person[o] /\ company'[o] = company[o]
  BY <1>1 DEF Bound, TypeOK, RegisterTypeOK
<1>5. ~stale' /\ key # None => seen["person"] = person[s] /\ seen["company"] = company[s]
  BY <1>1, DetailsTyped
<1> QED
  BY <1>2, <1>3, <1>4, <1>5 DEF Column

(* A flush over the row that was read leaves its type; whoever changes a   *)
(* column has waited for the imports that hold the row.                    *)
LEMMA UpdateRegister ==
  ASSUME Bound, RegisterGood, UNCHANGED imports, NEW h \in Handlers,
         NEW new \in UpdatedRows(call[h].row), NEW key \in Keys \cup {None},
         CommitUpdate(h, new, key)
  PROVE  RegisterGood'
<1>1. PICK s \in SubjectIds, row \in SubjectRow :
        /\ s = call[h].sid /\ row = call[h].row /\ row.type # "absent"
        /\ Exists(s) /\ subject[s] \in SubjectRow
  BY CallTyped DEF CommitUpdate
<1>2. new \in SubjectRow /\ new.type = row.type
  BY <1>1 DEF UpdatedRows
<1>3. /\ subject'[s] = FlushSubject(subject[s], row, new)
      /\ \A o \in SubjectIds \ {s} : subject'[o] = subject[o]
  BY <1>1 DEF CommitUpdate, Bound, TypeOK, RegisterTypeOK
<1>4. /\ ~stale' /\ key # None => /\ person'[s] = PersonKey(row.type, key)
                                  /\ company'[s] = CompanyKey(row.type, key)
      /\ key = None => person'[s] = person[s] /\ company'[s] = company[s]
      /\ \A o \in SubjectIds \ {s} : person'[o] = person[o] /\ company'[o] = company[o]
  BY <1>1, UpdateWrites
<1>5. /\ stale' = (stale \/ (row # subject[s]
                             \/ (key # None /\ call[h].details # DetailsOf(s))))
      /\ UNCHANGED <<documents, open>> /\ UNCHANGED thread
  BY <1>1 DEF CommitUpdate, Reply, imports
<1>6. /\ new # row => ~Writing(s)
      /\ new.path # row.path => ~PathTaken(s, new.path) /\ ~PathContended(s, new.path)
  BY <1>1 DEF CommitUpdate
<1>7. Exists(s)'
  <2>1. FlushSubject(subject[s], row, new).type # "absent"
    BY <1>1, <1>2, FlushesTyped DEF Exists
  <2> QED
    BY <1>3, <2>1 DEF Exists
<1>8. subject'[s] = subject[s] \/ ~Writing(s)
  <2>1. FlushSubject(subject[s], row, row) = subject[s]
    BY <1>1 DEF FlushSubject, Column, SubjectRow
  <2> QED
    BY <1>3, <1>6, <2>1
<1>9. subject'[s].path # subject[s].path => /\ ~PathTaken(s, subject'[s].path)
                                            /\ ~PathContended(s, subject'[s].path)
  <2>1. subject'[s].path = Column(subject[s].path, row.path, new.path)
    BY <1>3 DEF FlushSubject
  <2>2. subject'[s].path # subject[s].path =>
          new.path # row.path /\ subject'[s].path = new.path
    BY <2>1 DEF Column
  <2> QED
    BY <1>6, <2>2
<1>10. ASSUME ~stale'
       PROVE  /\ (person'[s] # None) <=> (subject'[s].type = "person")
              /\ (company'[s] # None) <=> (subject'[s].type = "company")
  <2>1. ~stale /\ row = subject[s]
    BY <1>5, <1>10
  <2>2. subject'[s].type = row.type
    BY <1>2, <1>3, <2>1 DEF FlushSubject, Column
  <2>3. CASE key = None
    BY <1>4, <2>1, <2>2, <2>3 DEF RegisterGood, DetailsMatchType
  <2>4. CASE key # None
    BY <1>4, <1>10, <2>2, <2>4 DEF PersonKey, CompanyKey
  <2> QED
    BY <2>3, <2>4
<1> QED
  BY <1>3, <1>4, <1>5, <1>7, <1>8, <1>9, <1>10, OneSubjectRegister

(* A deactivation changes the status alone.                                *)
LEMMA DeactivateRegister ==
  ASSUME Bound, RegisterGood, UNCHANGED imports, NEW h \in Handlers, CommitDeactivate(h)
  PROVE  RegisterGood'
<1>1. PICK s \in SubjectIds, row \in SubjectRow :
        /\ s = call[h].sid /\ row = call[h].row /\ Exists(s) /\ subject[s] \in SubjectRow
  BY CallTyped DEF CommitDeactivate
<1>2. PICK new \in SubjectRow :
        /\ new = [row EXCEPT !.status = "inactive"]
        /\ new.type = row.type /\ new.path = row.path
  <2>1. /\ [row EXCEPT !.status = "inactive"] \in SubjectRow
        /\ [row EXCEPT !.status = "inactive"].type = row.type
        /\ [row EXCEPT !.status = "inactive"].path = row.path
    BY DEF SubjectRow, SubjectStatus
  <2> QED
    BY <2>1
<1>3. /\ subject'[s] = FlushSubject(subject[s], row, new)
      /\ \A o \in SubjectIds \ {s} : subject'[o] = subject[o]
      /\ new # row => ~Writing(s)
  BY <1>1, <1>2 DEF CommitDeactivate, Bound, TypeOK, RegisterTypeOK
<1>4. /\ stale' = (stale \/ row # subject[s]) /\ UNCHANGED <<person, company, documents, open>>
      /\ UNCHANGED thread
  BY <1>1 DEF CommitDeactivate, Reply, imports
<1>5. subject'[s].type = subject[s].type /\ subject'[s].path = subject[s].path
  BY <1>2, <1>3 DEF FlushSubject, Column
<1>6. subject'[s] = subject[s] \/ ~Writing(s)
  <2>1. FlushSubject(subject[s], row, row) = subject[s]
    BY <1>1 DEF FlushSubject, Column, SubjectRow
  <2> QED
    BY <1>3, <2>1
<1>7. Exists(s)'
  BY <1>1, <1>5 DEF Exists
<1>8. ~stale' => /\ (person'[s] # None) <=> (subject'[s].type = "person")
                 /\ (company'[s] # None) <=> (subject'[s].type = "company")
  BY <1>4, <1>5 DEF RegisterGood, DetailsMatchType
<1> QED
  BY <1>3, <1>4, <1>5, <1>6, <1>7, <1>8, OneSubjectRegister

(* A document patched over the row that was read is marked manual.         *)
LEMMA DocumentCallsRegister ==
  ASSUME Bound, RegisterGood, UNCHANGED imports, NEW h \in Handlers,
         CommitDelete(h) \/ \E type \in ChosenTypes : CommitPatch(h, type)
  PROVE  RegisterGood'
<1>1. PICK d \in DocIds, seen \in DocRow :
        d = call[h].doc /\ seen = call[h].docRow /\ documents[d] \in DocRow
  BY CallTyped DEF CommitPatch, CommitDelete
<1>2. /\ stale' = (stale \/ seen # documents[d])
      /\ UNCHANGED <<subject, person, company, open>> /\ UNCHANGED thread
  BY <1>1 DEF CommitPatch, CommitDelete, Reply, imports
<1>3. CASE CommitDelete(h)
  <2>1. documents' = [documents EXCEPT ![d] = DeletedDoc]
    BY <1>1, <1>3 DEF CommitDelete
  <2>2. DeletedDoc.used /\ DeletedDoc.owner = None
    BY DEF DeletedDoc, AbsentDoc
  <2> QED
    BY <1>2, <2>1, <2>2, OneDocumentRegister
<1>4. ASSUME NEW type \in ChosenTypes, CommitPatch(h, type)
      PROVE  RegisterGood'
  <2> DEFINE row == FlushDoc(documents[d], seen, PatchedDoc(seen, type))
  <2>1. documents' = [documents EXCEPT ![d] = row] /\ documents[d].owner # None
    BY <1>1, <1>4 DEF CommitPatch, Bound, TypeOK, RegisterTypeOK
  <2>2. PatchedDoc(seen, type).source = "manual"
    BY <1>1 DEF PatchedDoc, DocRow
  <2>3. seen = documents[d] => row.source = "manual"
    BY <2>2 DEF FlushDoc, Column
  <2>4. row.used
    BY DEF FlushDoc
  <2> HIDE DEF row
  <2> QED
    BY <1>2, <2>1, <2>3, <2>4, OneDocumentRegister
<1> QED
  BY <1>3, <1>4

(* Every step keeps what the register holds.                               *)
LEMMA NextRegister ==
  ASSUME Bound, RegisterGood, [Next]_vars
  PROVE  RegisterGood'
<1>1. ASSUME NEW t \in Importers, NEW scope \in Scopes, Request(t, scope)
      PROVE  RegisterGood'
  BY <1>1, QuietThreadSteps
<1>2. ASSUME NEW t \in Importers, ThreadStep(t)
      PROVE  RegisterGood'
  <2>1. CASE CommitItem(t)
    BY <2>1, CommitKeepsWrites, CommitKeepsRows, CommitKeepsDocs DEF RegisterGood
  <2> QED
    BY <1>2, <2>1, QuietThreadSteps, RollbacksRegister, OpenRegister, DetailsRegister, ReadRegister
       DEF ThreadStep
<1>3. ASSUME NEW scope \in Scopes, Snapshot(scope)
      PROVE  RegisterGood'
  <2>1. UNCHANGED <<register, open, stale>> /\ UNCHANGED thread
    BY <1>3 DEF Snapshot, RegisterUntouched
  <2> QED
    BY <2>1, QuietRegister
<1>4. CASE OperatorStep /\ UNCHANGED imports
  <2>1. CASE \E s \in SubjectIds, type \in SubjectTypes, path \in Folders \cup {None} :
               \E key \in IF type = "unknown" THEN {None} ELSE Keys :
                 CreateSubject(s, type, path, key)
    BY <1>4, <2>1, CreateRegister
  <2>2. ASSUME NEW h \in Handlers,
               \/ \E s \in SubjectIds, op \in {"update", "deactivate"} : ReadSubject(h, op, s)
               \/ \E d \in DocIds, op \in {"patch", "delete"} : ReadDocument(h, op, d)
               \/ ReadDetails(h)
               \/ CallFails(h)
        PROVE  RegisterGood'
    BY <1>4, <2>2, NoWriteRegister
  <2>3. ASSUME NEW h \in Handlers,
               \/ \E new \in UpdatedRows(call[h].row), key \in Keys \cup {None} :
                    CommitUpdate(h, new, key)
               \/ CommitDeactivate(h)
               \/ \E type \in ChosenTypes : CommitPatch(h, type)
               \/ CommitDelete(h)
        PROVE  RegisterGood'
    BY <1>4, <2>3, UpdateRegister, DeactivateRegister, DocumentCallsRegister
  <2> QED
    BY <1>4, <2>1, <2>2, <2>3 DEF OperatorStep
<1>5. CASE UNCHANGED vars
  <2>1. UNCHANGED <<register, open, stale>> /\ UNCHANGED thread
    BY <1>5 DEF vars, imports
  <2> QED
    BY <2>1, QuietRegister
<1> QED
  BY <1>1, <1>2, <1>3, <1>4, <1>5, RollbacksRegister DEF Next

-----------------------------------------------------------------------------
(* The initial states, and the theorems.                                   *)

(* IInv in its three parts.                                                *)
LEMMA Parts ==
  /\ IInv <=> Bound /\ JobsGood /\ RegisterGood
  /\ IInv' <=> Bound' /\ JobsGood' /\ RegisterGood'
<1>1. IInv <=> Bound /\ JobsGood /\ RegisterGood
  BY JobsGoodSays DEF IInv, Bound, RegisterGood
<1>2. IInv' <=> Bound' /\ JobsGood' /\ RegisterGood'
  BY JobsGoodSays DEF IInv, Bound, RegisterGood
<1> QED
  BY <1>1, <1>2

(* A file has one row that comes before all others.                        *)
LEMMA FirstCopies ==
  \A d, e \in DocIds :
    d[1] = e[1] /\ (\A c \in Copies : d[2] <= c /\ e[2] <= c) => d = e
<1>1. \A d, e \in Files \X Copies : d[1] = e[1] /\ d[2] = e[2] => d = e
  OBVIOUS
<1>2. \A d \in Files \X Copies : d[2] \in Copies
  OBVIOUS
<1>3. \A m, n \in Copies : m <= n /\ n <= m => m = n
  <2>1. Copies \subseteq Nat
    OBVIOUS
  <2> QED
    BY <2>1
<1> QED
  BY <1>1, <1>2, <1>3 DEF DocIds

(* What earlier imports have left is in order: their subjects have         *)
(* different paths, details of their type, and one document for each file. *)
LEMMA InitialRegister ==
  ASSUME EarlierImports
  PROVE  /\ subject \in [SubjectIds -> SubjectRow]
         /\ person \in [SubjectIds -> Keys \cup {None}]
         /\ company \in [SubjectIds -> Keys \cup {None}]
         /\ documents \in [DocIds -> DocRow]
         /\ RowsAreProper
         /\ \A x \in Files : \A d, e \in DocsOf(x, documents) : d = e
         /\ \A s \in SubjectIds : /\ (person[s] # None) <=> (subject[s].type = "person")
                                  /\ (company[s] # None) <=> (subject[s].type = "company")
         /\ \A d \in DocIds : documents[d].owner # None => documents[d].type = Classified(d[1])
<1> PICK places \in [SubjectIds -> Folders \cup {None}], filed \in SUBSET Files :
       LeftBehind(places, filed)
  BY DEF EarlierImports
<1> DEFINE type(s) == IF places[s] # None THEN ParsedType(NameOf[places[s]]) ELSE "unknown"
           key(s) == IF places[s] # None THEN NameOf[places[s]].key ELSE None
           owner(x) == CHOOSE s \in {s \in SubjectIds : places[s] = FolderOf[x]} : TRUE
<1>1. /\ \A s, o \in SubjectIds : places[s] # None /\ s # o => places[s] # places[o]
      /\ subject = [s \in SubjectIds |->
                      IF places[s] # None
                      THEN [type |-> type(s), status |-> "active", path |-> places[s]]
                      ELSE AbsentSubject]
      /\ person = [s \in SubjectIds |-> PersonKey(type(s), key(s))]
      /\ company = [s \in SubjectIds |-> CompanyKey(type(s), key(s))]
      /\ documents = [d \in DocIds |->
                        IF d[1] \in filed /\ \A c \in Copies : d[2] <= c
                        THEN [owner |-> owner(d[1]), type |-> Classified(d[1]),
                              source |-> "auto", used |-> TRUE]
                        ELSE AbsentDoc]
      /\ \A x \in filed : {s \in SubjectIds : places[s] = FolderOf[x]} # {}
  BY DEF LeftBehind
<1>0. \A x \in filed : owner(x) \in SubjectIds
  BY <1>1
<1> HIDE DEF owner
<1>2. ASSUME NEW s \in SubjectIds, places[s] # None
      PROVE  /\ places[s] \in Folders
             /\ ParsedType(NameOf[places[s]]) \in SubjectTypes
             /\ NameOf[places[s]].key \in Keys \cup {None}
             /\ ParsedType(NameOf[places[s]]) # "unknown" => NameOf[places[s]].key \in Keys
  <2>1. places[s] \in Folders
    BY <1>2
  <2> QED
    BY <2>1, ParserType
<1>3. subject \in [SubjectIds -> SubjectRow]
  BY <1>1, <1>2, RowsTyped DEF SubjectRow, SubjectStatus
<1>4. ASSUME NEW s \in SubjectIds
      PROVE  /\ person[s] \in Keys \cup {None} /\ company[s] \in Keys \cup {None}
             /\ (person[s] # None) <=> (subject[s].type = "person")
             /\ (company[s] # None) <=> (subject[s].type = "company")
             /\ ~Exists(s) => subject[s].path = None /\ person[s] = None /\ company[s] = None
  <2>1. CASE places[s] # None
    <3>1. /\ subject[s].type = type(s)
          /\ person[s] = PersonKey(type(s), key(s))
          /\ company[s] = CompanyKey(type(s), key(s))
      BY <1>1, <2>1
    <3> QED
      BY <1>2, <2>1, <3>1 DEF PersonKey, CompanyKey, Exists, SubjectTypes
  <2>2. CASE places[s] = None
    BY <1>1, <2>2 DEF AbsentSubject, Exists, PersonKey, CompanyKey
  <2> QED
    BY <2>1, <2>2
<1>5. person \in [SubjectIds -> Keys \cup {None}] /\ company \in [SubjectIds -> Keys \cup {None}]
  BY <1>1, <1>4
<1>6. ASSUME NEW d \in DocIds
      PROVE  /\ documents[d] \in DocRow
             /\ documents[d].owner # None => /\ documents[d].type = Classified(d[1])
                                             /\ documents[d].used
                                             /\ \A c \in Copies : d[2] <= c
  <2>1. d[1] \in Files
    BY DEF DocIds
  <2>2. CASE d[1] \in filed /\ \A c \in Copies : d[2] <= c
    BY <1>0, <1>1, <2>1, <2>2, ClassifierType DEF DocRow
  <2>3. CASE ~(d[1] \in filed /\ \A c \in Copies : d[2] <= c)
    BY <1>1, <2>3, RowsTyped DEF AbsentDoc
  <2> QED
    BY <2>2, <2>3
<1>7. documents \in [DocIds -> DocRow]
  BY <1>1, <1>6
<1>8. RowsAreProper
  <2>1. ASSUME NEW s \in SubjectIds, NEW o \in SubjectIds, Exists(s), Exists(o),
               subject[s].path # None, subject[s].path = subject[o].path
        PROVE  s = o
    <3>1. \A x \in SubjectIds : Exists(x) => subject[x].path = places[x] /\ places[x] # None
      BY <1>1 DEF Exists, AbsentSubject
    <3> QED
      BY <1>1, <2>1, <3>1
  <2> QED
    BY <1>4, <1>6, <2>1 DEF RowsAreProper
<1>9. ASSUME NEW x \in Files, NEW d \in DocsOf(x, documents), NEW e \in DocsOf(x, documents)
      PROVE  d = e
  <2>1. /\ d \in DocIds /\ e \in DocIds /\ d[1] = x /\ e[1] = x
        /\ \A c \in Copies : d[2] <= c /\ e[2] <= c
    BY <1>6 DEF DocsOf
  <2> QED
    BY <2>1, FirstCopies
<1> QED
  BY <1>3, <1>4, <1>5, <1>6, <1>7, <1>8, <1>9

(* The initial states satisfy the invariant.                               *)
LEMMA InitialInvariant ==
  ASSUME Init
  PROVE  IInv
<1>1. /\ EarlierImports /\ NobodyAtWork /\ job = [j \in Jobs |-> AbsentJob]
      /\ item = [j \in Jobs |-> [f \in Folders |-> AbsentItem]]
      /\ thread = [t \in Importers |-> Idle] /\ shared = {} /\ crashes = 0
  BY DEF Init
<1>2. Bound
  <2>1. RegisterTypeOK
    BY <1>1, InitialRegister, RowsTyped DEF NobodyAtWork, RegisterTypeOK
  <2>2. TypeOK
    BY <1>1, <2>1, RowsTyped DEF TypeOK
  <2>3. CallsAreBound
    BY <1>1 DEF NobodyAtWork, CallsAreBound, CallIsBound, NoCall
  <2>4. ThreadsAreBound
    BY <1>1 DEF ThreadsAreBound, ThreadIsBound, Idle, OnItem, HasWritten
  <2> QED
    BY <2>2, <2>3, <2>4 DEF Bound
<1>3. JobsGood
  <2>1. LoneThreads
    BY <1>1 DEF LoneThreads, WorksOn, Idle
  <2>2. OpenItemsAreHeld
    BY <1>1 DEF OpenItemsAreHeld, ItemsAreHeld, AbsentItem
  <2>3. CompletedMeansDone
    BY <1>1 DEF CompletedMeansDone, AbsentJob
  <2>4. GoingOnIsAttended
    BY <1>1 DEF GoingOnIsAttended, Attended, AbsentJob, AbsentItem
  <2> QED
    BY <2>1, <2>2, <2>3, <2>4, JobsGoodSays
<1>4. RegisterGood
  <2>1. \A t \in Importers : open[t].sid = None /\ thread[t].pc = "idle"
    BY <1>1 DEF NobodyAtWork, NoWrite, Idle
  <2>2. OpenWritesExclude
    BY <2>1 DEF OpenWritesExclude, WriteIsBound, WritesExclude, HasWritten
  <2>3. DocumentsWereSeen
    BY <2>1 DEF DocumentsWereSeen, SawDocuments
  <2> QED
    BY <1>1, <2>2, <2>3, InitialRegister
       DEF RegisterGood, FiledUnlessStale, DetailsMatchType, AutoMeansClassified
<1> QED
  BY <1>2, <1>3, <1>4, Parts

(* IInv is inductive: it holds of what earlier imports have left, and each *)
(* step of an import, an operator or a crash keeps each of its parts.      *)
THEOREM ImportInvariant == Spec => []IInv
<1>1. Init => IInv
  BY InitialInvariant
<1>2. IInv /\ [Next]_vars => IInv'
  BY NextBound, NextJobs, NextRegister, Parts
<1> QED
  BY <1>1, <1>2, PTL DEF Spec

(* The tables, the calls and the threads' locals are typed.                *)
THEOREM ImportTypes == Spec => []TypeOK
<1>1. IInv => TypeOK
  BY DEF IInv
<1> QED
  BY <1>1, ImportInvariant, PTL

(* The details of a subject are those of its type, unless a commit was     *)
(* stale.                                                                  *)
THEOREM ImportMatchesDetails == Spec => []DetailsMatchType
<1>1. IInv => DetailsMatchType
  BY DEF IInv
<1> QED
  BY <1>1, ImportInvariant, PTL

(* What is marked as classified automatically has the classifier's type,   *)
(* unless a commit was stale.                                              *)
THEOREM ImportMarksClassified == Spec => []AutoMeansClassified
<1>1. IInv => AutoMeansClassified
  BY DEF IInv
<1> QED
  BY <1>1, ImportInvariant, PTL

(* Nothing but a crash, or two threads on one job, strands a job or an     *)
(* item that is shown as going on.                                         *)
THEOREM ImportAttendsJobs == Spec => []GoingOnIsAttended
<1>1. IInv => GoingOnIsAttended
  BY DEF IInv
<1> QED
  BY <1>1, ImportInvariant, PTL

-----------------------------------------------------------------------------
(* Imports alone: until the first call of an operator, every row is what   *)
(* an import would write.                                                  *)

(* What earlier imports left is as an import writes it.                    *)
LEMMA AloneInitially ==
  ASSUME Init
  PROVE  ImportsAlone
<1>1. /\ EarlierImports /\ NobodyAtWork /\ thread = [t \in Importers |-> Idle]
  BY DEF Init
<1> PICK places \in [SubjectIds -> Folders \cup {None}], filed \in SUBSET Files :
       LeftBehind(places, filed)
  BY <1>1 DEF EarlierImports
<1> DEFINE type(s) == IF places[s] # None THEN ParsedType(NameOf[places[s]]) ELSE "unknown"
           key(s) == IF places[s] # None THEN NameOf[places[s]].key ELSE None
           owner(x) == CHOOSE s \in {s \in SubjectIds : places[s] = FolderOf[x]} : TRUE
<1>2. /\ subject = [s \in SubjectIds |->
                      IF places[s] # None
                      THEN [type |-> type(s), status |-> "active", path |-> places[s]]
                      ELSE AbsentSubject]
      /\ person = [s \in SubjectIds |-> PersonKey(type(s), key(s))]
      /\ company = [s \in SubjectIds |-> CompanyKey(type(s), key(s))]
      /\ documents = [d \in DocIds |->
                        IF d[1] \in filed /\ \A c \in Copies : d[2] <= c
                        THEN [owner |-> owner(d[1]), type |-> Classified(d[1]),
                              source |-> "auto", used |-> TRUE]
                        ELSE AbsentDoc]
      /\ \A x \in filed : {s \in SubjectIds : places[s] = FolderOf[x]} # {}
  BY DEF LeftBehind
<1>3. \A x \in filed : owner(x) \in SubjectIds /\ places[owner(x)] = FolderOf[x]
  BY <1>2
<1> HIDE DEF owner
<1>4. ASSUME NEW s \in SubjectIds, Exists(s) PROVE AsImported(s)
  <2>1. places[s] # None
    BY <1>2, <1>4 DEF Exists, AbsentSubject
  <2>2. /\ subject[s] = [type |-> type(s), status |-> "active", path |-> places[s]]
        /\ person[s] = PersonKey(type(s), key(s)) /\ company[s] = CompanyKey(type(s), key(s))
    BY <1>2, <2>1
  <2> QED
    BY <2>1, <2>2 DEF AsImported
<1>5. ASSUME NEW d \in DocIds, documents[d].owner # None PROVE AsFiled(d)
  <2>1. d[1] \in filed /\ documents[d] = [owner |-> owner(d[1]), type |-> Classified(d[1]),
                                          source |-> "auto", used |-> TRUE]
    BY <1>2, <1>5 DEF AbsentDoc
  <2>2. FolderOf[d[1]] \in Folders
    BY <2>1
  <2>3. subject[owner(d[1])].path = FolderOf[d[1]]
    BY <1>2, <1>3, <2>1, <2>2
  <2> QED
    BY <2>1, <2>3 DEF AsFiled
<1>6. \A t \in Importers : ReadsStillTrue(t)
  BY <1>1 DEF ReadsStillTrue, HasWritten, Idle
<1> QED
  BY <1>1, <1>4, <1>5, <1>6 DEF ImportsAlone, NobodyAtWork, NoCall

(* Every step of an operator is of a call that was counted.                *)
LEMMA CallsAreCounted ==
  ASSUME IInv, ImportsAlone, [Next]_vars, calls' = 0
  PROVE  /\ calls = 0 /\ ~stale /\ ~OperatorStep
         /\ \A h \in Handlers : call[h].op = "none"
<1>1. calls \in Nat
  BY DEF IInv, TypeOK, RegisterTypeOK
<1>2. ASSUME OperatorStep
      PROVE  calls' = calls + 1 \/ (calls' = calls /\ \E h \in Handlers : call[h].op # "none")
  <2>1. ASSUME NEW h \in Handlers, NEW c, Receive(h, c) PROVE calls' = calls + 1
    BY <2>1 DEF Receive
  <2>2. ASSUME NEW s \in SubjectIds, NEW type, NEW path, NEW key,
               CreateSubject(s, type, path, key)
        PROVE  calls' = calls + 1
    BY <2>2 DEF CreateSubject
  <2>3. ASSUME NEW h \in Handlers,
               \/ \E s \in SubjectIds, op \in {"update", "deactivate"} : ReadSubject(h, op, s)
               \/ \E d \in DocIds, op \in {"patch", "delete"} : ReadDocument(h, op, d)
        PROVE  calls' = calls + 1
    BY <2>1, <2>3 DEF ReadSubject, ReadDocument
  <2>4. ASSUME NEW h \in Handlers, NEW new, NEW key, CommitUpdate(h, new, key)
        PROVE  calls' = calls /\ call[h].op # "none"
    BY <2>4 DEF CommitUpdate, Reply
  <2>5. ASSUME NEW h \in Handlers, NEW type, CommitPatch(h, type)
        PROVE  calls' = calls /\ call[h].op = "patch"
    BY <2>5 DEF CommitPatch, Reply
  <2>6. ASSUME NEW h \in Handlers,
               ReadDetails(h) \/ CommitDeactivate(h) \/ CommitDelete(h) \/ CallFails(h)
        PROVE  calls' = calls /\ call[h].op # "none"
    BY <2>6 DEF ReadDetails, CommitDeactivate, CommitDelete, CallFails, Reply
  <2> QED
    BY <1>2, <2>2, <2>3, <2>4, <2>5, <2>6 DEF OperatorStep
<1>3. calls' = calls \/ calls' = calls + 1
  <2>1. ASSUME NEW t \in Importers, (\E scope \in Scopes : Request(t, scope)) \/ ThreadStep(t)
        PROVE  calls' = calls
    BY <2>1 DEF Request, ThreadStep, Discover, DiscoveryFails, Resume, StartJob, SelectItems,
       TakeItem, ListFilesAndLookUp, WriteSubject, WriteDetails, DetailsConflict,
       ReadDocuments, CommitItem, DocumentsConflict, FailItem, TallyItems, FinishJob, RegisterUntouched
  <2>2. ASSUME NEW scope \in Scopes, Snapshot(scope) PROVE calls' = calls
    BY <2>2 DEF Snapshot, RegisterUntouched
  <2> QED
    BY <1>2, <2>1, <2>2 DEF Next, Crash, vars
<1>4. calls = 0
  BY <1>1, <1>3
<1> QED
  BY <1>1, <1>2, <1>4 DEF ImportsAlone

(* A step that leaves the register alone, and at most lets one thread read *)
(* it or forget what it read.                                              *)
LEMMA QuietAlone ==
  ASSUME ImportsAlone, calls = 0, UNCHANGED <<register, stale>>,
         \A h \in Handlers : call'[h].op = "none",
         \A t \in Importers :
           \/ thread'[t] = thread[t] /\ open'[t] = open[t]
           \/ thread'[t].pc \notin HasWritten \cup {"write"}
           \/ ReadsStillTrue(t)'
  PROVE  ImportsAlone'
<1>1. UNCHANGED <<subject, person, company, documents, stale>>
  BY DEF register
<1>2. \A t \in Importers : ReadsStillTrue(t)'
  <2>1. ASSUME NEW t \in Importers, thread'[t] = thread[t], open'[t] = open[t]
        PROVE  ReadsStillTrue(t)'
    BY <1>1, <2>1 DEF ImportsAlone, ReadsStillTrue, DetailsOf
  <2>2. ASSUME NEW t \in Importers, thread'[t].pc \notin HasWritten \cup {"write"}
        PROVE  ReadsStillTrue(t)'
    BY <2>2 DEF ReadsStillTrue, HasWritten
  <2> QED
    BY <2>1, <2>2
<1>3. \A s \in SubjectIds : Exists(s)' => AsImported(s)'
  BY <1>1 DEF ImportsAlone, AsImported, Exists
<1>4. \A d \in DocIds : documents'[d].owner # None => AsFiled(d)'
  BY <1>1 DEF ImportsAlone, AsFiled
<1> QED
  BY <1>1, <1>2, <1>3, <1>4 DEF ImportsAlone

(* An import that commits writes over rows that are there what they hold.  *)
LEMMA CommitAlone ==
  ASSUME IInv, ImportsAlone, calls = 0, NEW t \in Importers, CommitItem(t)
  PROVE  /\ \A s \in SubjectIds : Exists(s) =>
              subject'[s] = subject[s] /\ person'[s] = person[s] /\ company'[s] = company[s]
         /\ \A d \in DocIds : documents[d].owner # None => documents'[d] = documents[d]
         /\ \A s \in SubjectIds : Exists(s)' => AsImported(s)'
         /\ \A d \in DocIds : documents'[d].owner # None => AsFiled(d)'
         /\ ~stale'
<1>0. Bound /\ RegisterGood
  BY Parts
<1> DEFINE th == thread[t]
           f == thread[t].folder
           w == open[t]
<1>1. /\ th.pc = "commit" /\ WriteIsBound(t) /\ ThreadIsBound(t)
      /\ th \in ThreadRecord /\ w \in OpenWrite
      /\ w.sid \in SubjectIds /\ f \in Folders /\ th.files \in SUBSET Files
      /\ ~w.fresh => Exists(w.sid) /\ th.row.path = f
  BY <1>0, CommitFinds
<1>2. PICK s0 \in SubjectIds : s0 = w.sid
  BY <1>1
<1>3. /\ w.sid # None /\ w.type = ParsedType(NameOf[f]) /\ w.key = NameOf[f].key
      /\ w.fresh => ~Exists(s0) /\ ~PathTaken(s0, f)
      /\ ~w.fresh => s0 = th.sid
      /\ \A x \in th.files : FolderOf[x] = f
  BY <1>1, <1>2 DEF WriteIsBound, ThreadIsBound, ImportedType, ImportedKey, HasWritten
<1>4. /\ ~stale
      /\ \A s \in SubjectIds : Exists(s) => AsImported(s)
      /\ \A d \in DocIds : documents[d].owner # None => AsFiled(d)
      /\ \A o \in Importers : ReadsStillTrue(o)
  BY DEF ImportsAlone
<1>5. /\ ~w.fresh => th.row = subject[s0] /\ subject[s0].path = f
      /\ DetailsOf(s0) = th.details
      /\ \A d \in DocIds : th.docs[d].owner # None => th.docs[d] = documents[d]
  BY <1>1, <1>2, <1>3, <1>4 DEF ReadsStillTrue, HasWritten
<1>6. /\ subject' = [subject EXCEPT ![s0] = CommittedSubject(t)]
      /\ documents' = [d \in DocIds |-> CommittedDoc(t, d)]
      /\ \A o \in SubjectIds \ {s0} : /\ subject'[o] = subject[o]
                                       /\ person'[o] = person[o] /\ company'[o] = company[o]
      /\ ~stale'
      /\ person'[s0] = PersonKey(w.type, w.key) /\ company'[s0] = CompanyKey(w.type, w.key)
  <2>1. s0 = open[t].sid
    BY <1>2
  <2>2. /\ subject' = [subject EXCEPT ![s0] = CommittedSubject(t)]
        /\ documents' = [d \in DocIds |-> CommittedDoc(t, d)]
    BY <1>0, <2>1, CommitWrites
  <2>3. /\ ~stale' => /\ person'[s0] = PersonKey(open[t].type, open[t].key)
                      /\ company'[s0] = CompanyKey(open[t].type, open[t].key)
        /\ \A o \in SubjectIds \ {s0} : /\ subject'[o] = subject[o]
                                         /\ person'[o] = person[o]
                                         /\ company'[o] = company[o]
        /\ stale' = (stale \/ OverChangedRows(t))
    BY <1>0, <2>1, CommitLeaves
  <2>4. \A x \in Filed(t) : Unchanged(t, x)
    <3>1. \A x \in Filed(t) : x \in th.files
      BY DEF Filed
    <3> QED
      BY <1>0, <1>5, <3>1, PickedDocs DEF Unchanged
  <2>5. ~stale'
    BY <1>2, <1>4, <1>5, <2>3, <2>4 DEF OverChangedRows
  <2> QED
    BY <2>2, <2>3, <2>5
<1>7. /\ subject \in [SubjectIds -> SubjectRow] /\ documents \in [DocIds -> DocRow]
      /\ subject'[s0] = CommittedSubject(t)
  BY <1>0, <1>6 DEF Bound, TypeOK, RegisterTypeOK
<1>8. /\ CommittedSubject(t).type = ParsedType(NameOf[f])
      /\ CommittedSubject(t).status = "active" /\ CommittedSubject(t).path = f
  <2>1. CASE w.fresh
    BY <2>1 DEF CommittedSubject, ImportedSubject, ImportedType
  <2>2. CASE ~w.fresh
    BY <1>1, <1>2, <1>5, <2>2
       DEF CommittedSubject, ImportedSubject, ImportedType, FlushSubject, Column
  <2> QED
    BY <2>1, <2>2
<1>9. Exists(s0) => subject'[s0] = subject[s0]
  <2> SUFFICES ASSUME Exists(s0) PROVE CommittedSubject(t) = subject[s0]
    BY <1>7
  <2>1. ~w.fresh
    BY <1>3
  <2>2. CommittedSubject(t) = [type |-> ParsedType(NameOf[f]), status |-> "active", path |-> f]
    BY <1>1, <1>2, <1>5, <2>1
       DEF CommittedSubject, ImportedSubject, ImportedType, FlushSubject, Column
  <2>3. /\ subject[s0].type = ParsedType(NameOf[f]) /\ subject[s0].status = "active"
        /\ subject[s0].path = f /\ subject[s0] \in SubjectRow
    BY <1>4, <1>5, <1>7, <2>1 DEF AsImported
  <2> QED
    BY <2>2, <2>3 DEF SubjectRow
<1>10. Exists(s0) => person'[s0] = person[s0] /\ company'[s0] = company[s0]
  BY <1>3, <1>4, <1>5, <1>6 DEF AsImported
<1>11. \A d \in DocIds : th.docs[d].owner # None => th.docs[d] = documents[d]
  BY <1>5
<1>12. \A x \in th.files : (\E c \in Copies : ~documents[<<x, c>>].used) \/ x \in Filed(t)
  BY DEF CommitItem
<1>13. ASSUME NEW d \in DocIds, documents[d].owner # None, FolderOf[d[1]] = f
       PROVE  documents[d].owner = s0 /\ ~w.fresh
  <2>1. subject[documents[d].owner].path = f /\ documents[d].owner \in SubjectIds
    BY <1>4, <1>7, <1>13 DEF AsFiled, DocRow
  <2>2. PICK o \in SubjectIds : o = documents[d].owner /\ subject[o].path = f
    BY <2>1
  <2>3. Exists(o)
    <3>1. f # None
      BY <1>1
    <3> QED
      BY <1>0, <2>2, <3>1 DEF RegisterGood, RowsAreProper
  <2>4. ~w.fresh
    <3> SUFFICES ASSUME w.fresh PROVE FALSE
      OBVIOUS
    <3>1. ~Exists(s0) /\ ~PathTaken(s0, f) /\ f # None
      BY <1>1, <1>3
    <3> QED
      BY <2>2, <2>3, <3>1 DEF PathTaken
  <2>5. o = s0
    <3>1. Exists(s0) /\ subject[s0].path = f /\ f # None
      BY <1>1, <1>2, <1>5, <2>4
    <3> QED
      BY <1>0, <2>2, <2>3, <3>1 DEF RegisterGood, RowsAreProper
  <2> QED
    BY <2>2, <2>4, <2>5
<1>14. ASSUME NEW x \in th.files
       PROVE  /\ x \in Filed(t) =>
                   /\ SeenAgain(t, x) \in DocIds /\ SeenAgain(t, x)[1] = x
                   /\ documents[SeenAgain(t, x)].owner = s0
                   /\ th.docs[SeenAgain(t, x)] = documents[SeenAgain(t, x)]
              /\ x \notin Filed(t) =>
                   /\ FreeCopy(x) \in DocIds /\ FreeCopy(x)[1] = x
                   /\ documents[FreeCopy(x)].owner = None
  <2>1. CASE x \in Filed(t)
    <3>1. PICK d \in DocIds : d = SeenAgain(t, x) /\ d[1] = x /\ th.docs[d].owner # None
      BY <1>0, <2>1, PickedDocs
    <3>2. th.docs[d] = documents[d] /\ documents[d].owner = s0
      BY <1>3, <1>11, <1>13, <3>1
    <3> QED
      BY <2>1, <3>1, <3>2
  <2>2. CASE x \notin Filed(t)
    <3>1. PICK d \in DocIds : d = FreeCopy(x) /\ d[1] = x /\ ~documents[d].used
      BY <1>0, <1>12, <2>2, PickedDocs
    <3>2. documents[d].owner = None
      BY <1>0, <3>1 DEF RegisterGood, RowsAreProper
    <3> QED
      BY <2>2, <3>1, <3>2
  <2> QED
    BY <2>1, <2>2
<1>15. ASSUME NEW d \in DocIds
       PROVE  /\ documents[d].owner # None => documents'[d] = documents[d]
              /\ documents[d].owner = None /\ documents'[d].owner # None =>
                   /\ documents'[d] = ImportedDoc(t, d[1]) /\ d[1] \in th.files
  <2>0. documents'[d] = CommittedDoc(t, d)
    BY <1>6
  <2>1. CASE d[1] \in Filed(t) \ Gone(t) /\ d = SeenAgain(t, d[1])
    <3>1. d[1] \in th.files
      BY <2>1 DEF Filed
    <3>2. /\ documents[d].owner = s0 /\ th.docs[d] = documents[d] /\ documents[d].owner # None
      BY <1>2, <1>3, <1>14, <2>1, <3>1
    <3>3. CommittedDoc(t, d) = FlushDoc(documents[d], documents[d], ImportedDoc(t, d[1]))
      BY <2>1, <3>2 DEF CommittedDoc
    <3>4. CommittedDoc(t, d) = [owner |-> s0, type |-> Classified(d[1]), source |-> "auto",
                                used |-> TRUE]
      BY <1>2, <3>3 DEF FlushDoc, Column, ImportedDoc
    <3>5. /\ documents[d].type = Classified(d[1]) /\ documents[d].source = "auto"
          /\ documents[d].used = TRUE /\ documents[d] \in DocRow
      BY <1>4, <1>7, <3>2 DEF AsFiled, DocRow
    <3>6. documents[d] = [owner |-> s0, type |-> Classified(d[1]), source |-> "auto",
                          used |-> TRUE]
      BY <3>2, <3>5 DEF DocRow
    <3> QED
      BY <2>0, <3>2, <3>4, <3>6
  <2>2. CASE ~(d[1] \in Filed(t) \ Gone(t) /\ d = SeenAgain(t, d[1]))
             /\ d[1] \in th.files \ Filed(t) /\ d = FreeCopy(d[1])
    <3>1. documents[d].owner = None
      BY <1>14, <2>2
    <3>2. CommittedDoc(t, d) = ImportedDoc(t, d[1])
      BY <2>2 DEF CommittedDoc
    <3> QED
      BY <2>0, <2>2, <3>1, <3>2
  <2>3. CASE ~(d[1] \in Filed(t) \ Gone(t) /\ d = SeenAgain(t, d[1]))
             /\ ~(d[1] \in th.files \ Filed(t) /\ d = FreeCopy(d[1]))
    <3>1. CommittedDoc(t, d) = documents[d]
      BY <2>3 DEF CommittedDoc
    <3> QED
      BY <2>0, <3>1
  <2> QED
    BY <2>1, <2>2, <2>3
<1>16. \A s \in SubjectIds : Exists(s) =>
         subject'[s] = subject[s] /\ person'[s] = person[s] /\ company'[s] = company[s]
  BY <1>6, <1>9, <1>10
<1>17. ASSUME NEW s \in SubjectIds, Exists(s)' PROVE AsImported(s)'
  <2>1. CASE s = s0
    BY <1>1, <1>3, <1>6, <1>7, <1>8, <2>1 DEF AsImported
  <2>2. CASE s # s0
    <3>1. /\ subject'[s] = subject[s] /\ person'[s] = person[s] /\ company'[s] = company[s]
          /\ AsImported(s)
      BY <1>4, <1>6, <1>17, <2>2 DEF Exists
    <3> QED
      BY <3>1 DEF AsImported
  <2> QED
    BY <2>1, <2>2
<1>18. ASSUME NEW d \in DocIds, documents'[d].owner # None PROVE AsFiled(d)'
  <2>1. CASE documents[d].owner # None
    <3>1. PICK o \in SubjectIds : o = documents[d].owner
      BY <1>7, <2>1 DEF DocRow
    <3>2. subject[o].path = FolderOf[d[1]] /\ FolderOf[d[1]] # None
      <4>1. d[1] \in Files
        BY DEF DocIds
      <4> QED
        BY <1>4, <2>1, <3>1, <4>1 DEF AsFiled
    <3>3. Exists(o)
      BY <1>0, <3>2 DEF RegisterGood, RowsAreProper
    <3>4. subject'[o] = subject[o] /\ documents'[d] = documents[d] /\ AsFiled(d)
      BY <1>4, <1>15, <1>16, <2>1, <3>3
    <3> QED
      BY <3>1, <3>4 DEF AsFiled
  <2>2. CASE documents[d].owner = None
    <3>1. documents'[d] = ImportedDoc(t, d[1]) /\ d[1] \in th.files
      BY <1>15, <1>18, <2>2
    <3>2. subject'[s0].path = f /\ FolderOf[d[1]] = f
      BY <1>3, <1>7, <1>8, <3>1
    <3> QED
      BY <1>2, <3>1, <3>2 DEF AsFiled, ImportedDoc
  <2> QED
    BY <2>1, <2>2
<1> QED
  BY <1>6, <1>15, <1>16, <1>17, <1>18

(* Each step keeps what imports alone make of the register.                *)
LEMMA AloneStep ==
  ASSUME IInv, ImportsAlone, [Next]_vars
  PROVE  ImportsAlone'
<1> SUFFICES ASSUME calls' = 0 PROVE ImportsAlone'
  BY DEF ImportsAlone
<1>1. /\ calls = 0 /\ ~stale /\ ~OperatorStep
      /\ \A h \in Handlers : call[h].op = "none"
  BY CallsAreCounted
<1>2. thread \in [Importers -> ThreadRecord] /\ open \in [Importers -> OpenWrite]
  BY DEF IInv, TypeOK, RegisterTypeOK
<1>3. ASSUME NEW t \in Importers, CommitItem(t) PROVE ImportsAlone'
  <2>1. /\ \A s \in SubjectIds : Exists(s) => subject'[s] = subject[s]
        /\ \A d \in DocIds : documents[d].owner # None => documents'[d] = documents[d]
        /\ \A s \in SubjectIds : Exists(s)' => AsImported(s)'
        /\ \A d \in DocIds : documents'[d].owner # None => AsFiled(d)'
        /\ ~stale'
    BY <1>1, <1>3, CommitAlone
  <2>0. Bound /\ RegisterGood
    BY Parts
  <2>2. /\ thread'[t].pc = "head" /\ \A o \in Importers \ {t} : thread'[o] = thread[o]
        /\ call' = call
    <3>1. Goes(t, [Idle EXCEPT !.pc = "head", !.job = thread[t].job, !.todo = thread[t].todo])
          /\ call' = call
      BY <1>3 DEF CommitItem
    <3> QED
      BY <1>2, <3>1 DEF Goes, Idle
  <2>3. ASSUME NEW o \in Importers PROVE ReadsStillTrue(o)'
    <3>1. CASE o = t
      BY <2>2, <3>1 DEF ReadsStillTrue, HasWritten
    <3>2. CASE o # t
      <4>1. thread'[o] = thread[o] /\ ReadsStillTrue(o) /\ ThreadIsBound(o)
        BY <1>1, <2>2, <3>2 DEF ImportsAlone, IInv, ThreadsAreBound
      <4>2. thread[o] \in ThreadRecord
        BY <1>2
      <4>3. thread[o].pc \in HasWritten \cup {"write"} /\ thread[o].sid # None
              => thread[o].row = subject'[thread[o].sid]
        BY <2>1, <4>1, <4>2 DEF ReadsStillTrue, ThreadIsBound, ThreadRecord
      <4>4. thread[o].pc = "commit" =>
              \A d \in DocIds : thread[o].docs[d].owner # None => thread[o].docs[d] = documents'[d]
        BY <2>1, <4>1 DEF ReadsStillTrue
      <4>5. ASSUME thread[o].pc \in HasWritten
            PROVE  /\ open'[o] = open[o]
                   /\ DetailsOf(open[o].sid)' = DetailsOf(open[o].sid)
        <5>1. PICK s0 \in SubjectIds : s0 = open[t].sid
          BY <1>3, <2>0, CommitFinds
        <5>2. /\ open[o].sid \in SubjectIds /\ open[o].sid # s0
          <6>1. WriteIsBound(o) /\ WritesExclude(o, t) /\ open[o] \in OpenWrite
            BY <2>0, <3>2 DEF RegisterGood, OpenWritesExclude, Bound, TypeOK, RegisterTypeOK
          <6> QED
            BY <4>5, <5>1, <6>1 DEF WriteIsBound, WritesExclude, OpenWrite
        <5>3. /\ \A p \in SubjectIds \ {s0} : person'[p] = person[p] /\ company'[p] = company[p]
              /\ open'[o] = open[o]
          BY <1>3, <2>0, <3>2, <5>1, CommitLeaves
        <5> QED
          BY <5>2, <5>3 DEF DetailsOf
      <4> QED
        BY <4>1, <4>3, <4>4, <4>5 DEF ReadsStillTrue
    <3> QED
      BY <3>1, <3>2
  <2> QED
    BY <1>1, <2>1, <2>2, <2>3 DEF ImportsAlone
<1>4. ASSUME NEW t \in Importers, NEW new, Goes(t, new), UNCHANGED <<register, call, stale>>,
             \A o \in Importers \ {t} : open'[o] = open[o],
             \/ new.pc \notin HasWritten \cup {"write"}
             \/ /\ new.sid # None => new.row = subject[new.sid]
                /\ new.pc \in HasWritten => new.details = DetailsOf(open'[t].sid)
                /\ new.pc = "commit" => new.docs = documents
      PROVE  ImportsAlone'
  <2>1. thread'[t] = new /\ \A o \in Importers \ {t} : thread'[o] = thread[o]
    BY <1>2, <1>4 DEF Goes
  <2>2. UNCHANGED <<subject, person, company, documents>>
    BY <1>4 DEF register
  <2>3. new.pc \notin HasWritten \cup {"write"} \/ ReadsStillTrue(t)'
    BY <1>4, <2>1, <2>2 DEF ReadsStillTrue, DetailsOf
  <2> QED
    BY <1>1, <1>4, <2>1, <2>3, QuietAlone
<1>5. ASSUME NEW t \in Importers, ListFilesAndLookUp(t) PROVE ImportsAlone'
  <2>1. PICK found \in Listable(thread[t].folder) :
          LET listed == [thread[t] EXCEPT !.pc = "write", !.files = found]
          IN \/ \E s \in SubjectIds :
                  /\ Exists(s) /\ subject[s].path = thread[t].folder
                  /\ Goes(t, [listed EXCEPT !.sid = s, !.row = subject[s]])
             \/ Goes(t, listed)
    BY <1>5 DEF ListFilesAndLookUp
  <2> DEFINE listed == [thread[t] EXCEPT !.pc = "write", !.files = found]
  <2>2. UNCHANGED <<register, call, stale, open>>
    BY <1>5 DEF ListFilesAndLookUp, RegisterUntouched
  <2>3. thread[t].pc = "list" /\ thread[t].sid = None /\ thread[t] \in ThreadRecord
    BY <1>2, <1>5 DEF ListFilesAndLookUp, IInv, ThreadsAreBound, ThreadIsBound
  <2>4. ASSUME NEW s \in SubjectIds, Goes(t, [listed EXCEPT !.sid = s, !.row = subject[s]])
        PROVE  ImportsAlone'
    <3> DEFINE new == [listed EXCEPT !.sid = s, !.row = subject[s]]
    <3>1. /\ new.pc = "write" /\ new.pc \notin HasWritten
          /\ new.sid = s /\ new.row = subject[s]
      BY <2>3 DEF ThreadRecord, HasWritten
    <3>2. Goes(t, new)
      BY <2>4
    <3> HIDE DEF new
    <3> QED
      BY <1>4, <2>2, <3>1, <3>2
  <2>5. ASSUME Goes(t, listed) PROVE ImportsAlone'
    <3>1. listed.pc = "write" /\ listed.pc \notin HasWritten /\ listed.sid = None
      BY <2>3 DEF ThreadRecord, HasWritten
    <3> HIDE DEF listed
    <3> QED
      BY <1>4, <2>2, <2>5, <3>1
  <2> QED
    BY <2>1, <2>4, <2>5
<1>6. ASSUME NEW t \in Importers, WriteSubject(t) \/ WriteDetails(t) PROVE ImportsAlone'
  <2>1. /\ thread[t].pc \in {"write", "details"} /\ UNCHANGED <<register, call, stale>>
        /\ \A o \in Importers \ {t} : open'[o] = open[o]
    BY <1>2, <1>6 DEF WriteSubject, WriteDetails
  <2>2. \E pc \in {"details", "written", "fail"}, details \in DetailsRows :
          /\ Goes(t, [thread[t] EXCEPT !.pc = pc, !.details = details])
          /\ pc # "fail" => details = DetailsOf(open'[t].sid)
    <3>0. /\ open \in [Importers -> OpenWrite] /\ thread[t].details \in DetailsRows
          /\ TypeOK
      BY <1>2 DEF ThreadRecord, IInv, TypeOK, RegisterTypeOK
    <3>1. CASE WriteSubject(t)
      <4>1. PICK target \in SubjectIds :
              \/ Moves(t, "fail")
              \/ /\ open'[t].sid = target
                 /\ Goes(t, [thread[t] EXCEPT !.pc = "details", !.details = DetailsOf(target)])
        <5>1. thread[t].sid \in SubjectIds \cup {None}
          BY <1>2 DEF ThreadRecord
        <5>2. PICK target \in IF thread[t].sid # None THEN {thread[t].sid}
                              ELSE {x \in SubjectIds : ~Exists(x) /\ ~Writing(x)} :
                \/ Moves(t, "fail")
                \/ /\ open' = [open EXCEPT ![t] =
                                 [sid |-> target, fresh |-> thread[t].sid = None,
                                  path |-> thread[t].folder, type |-> ImportedType(t),
                                  key |-> ImportedKey(t), holds |-> {}]]
                   /\ Goes(t, [thread[t] EXCEPT !.pc = "details", !.details = DetailsOf(target)])
          BY <3>1 DEF WriteSubject
        <5>3. target \in SubjectIds
          BY <5>1
        <5>4. Moves(t, "fail") \/ open'[t].sid = target
          BY <3>0, <5>2
        <5> QED
          BY <5>2, <5>3, <5>4
      <4> QED
        BY <3>0, <4>1, MovesKeepsDetails, DetailsTyped DEF IInv, Bound
    <3>2. CASE WriteDetails(t)
      <4>1. open'[t].sid = open[t].sid
        BY <3>0, <3>2 DEF WriteDetails, OpenWrite
      <4>2. thread[t].details = DetailsOf(open[t].sid)
        BY <1>1, <3>2 DEF WriteDetails, ImportsAlone, ReadsStillTrue, HasWritten
      <4> QED
        BY <3>0, <3>2, <4>1, <4>2, MovesKeepsDetails DEF WriteDetails, IInv, Bound
    <3> QED
      BY <1>6, <3>1, <3>2
  <2>3. ASSUME NEW pc \in {"details", "written", "fail"}, NEW details \in DetailsRows,
               Goes(t, [thread[t] EXCEPT !.pc = pc, !.details = details]),
               pc # "fail" => details = DetailsOf(open'[t].sid)
        PROVE  ImportsAlone'
    <3> DEFINE new == [thread[t] EXCEPT !.pc = pc, !.details = details]
    <3>1. /\ new.pc = pc /\ new.sid = thread[t].sid /\ new.row = thread[t].row
          /\ new.details = details
          /\ thread[t].sid # None => thread[t].row = subject[thread[t].sid]
      BY <1>1, <1>2, <2>1 DEF ThreadRecord, ImportsAlone, ReadsStillTrue, HasWritten
    <3>2. new.pc # "commit" /\ (new.pc = "fail" => new.pc \notin HasWritten \cup {"write"})
      BY <3>1 DEF HasWritten
    <3>3. Goes(t, new)
      BY <2>3
    <3> HIDE DEF new
    <3> QED
      BY <1>4, <2>1, <2>3, <3>1, <3>2, <3>3
  <2> QED
    BY <2>2, <2>3
<1>7. ASSUME NEW t \in Importers, ReadDocuments(t) PROVE ImportsAlone'
  <2> DEFINE new == [thread[t] EXCEPT !.pc = "commit", !.docs = documents]
  <2>1. thread[t].pc = "written" /\ UNCHANGED <<register, call, stale, open>>
    BY <1>7 DEF ReadDocuments, RegisterUntouched
  <2>2. /\ new.pc = "commit" /\ new.sid = thread[t].sid /\ new.row = thread[t].row
        /\ new.docs = documents /\ new.details = thread[t].details
        /\ thread[t].sid # None => thread[t].row = subject[thread[t].sid]
        /\ thread[t].details = DetailsOf(open[t].sid)
    BY <1>1, <1>2, <2>1 DEF ThreadRecord, ImportsAlone, ReadsStillTrue, HasWritten
  <2>3. Goes(t, new)
    BY <1>7 DEF ReadDocuments
  <2> HIDE DEF new
  <2> QED
    BY <1>4, <2>1, <2>2, <2>3
<1>8. ASSUME NEW t \in Importers,
             \/ \E scope \in Scopes : Request(t, scope)
             \/ Discover(t) \/ DiscoveryFails(t) \/ Resume(t) \/ StartJob(t) \/ SelectItems(t)
             \/ \E f \in Folders : TakeItem(t, f)
             \/ DetailsConflict(t) \/ DocumentsConflict(t)
             \/ FailItem(t) \/ TallyItems(t) \/ FinishJob(t)
      PROVE  ImportsAlone'
  <2>1. /\ UNCHANGED <<register, call, stale>>
        /\ \A o \in Importers \ {t} : open'[o] = open[o]
    BY <1>2, <1>8 DEF Request, Discover, DiscoveryFails, Resume, StartJob, SelectItems, TakeItem,
       DetailsConflict, DocumentsConflict, FailItem, TallyItems, FinishJob, RegisterUntouched
  <2>2. /\ thread'[t].pc \notin HasWritten \cup {"write"}
        /\ \A o \in Importers \ {t} : thread'[o] = thread[o]
    <3>0. ASSUME NEW new, Goes(t, new),
                 new.pc \notin {"write", "details", "written", "commit"}
          PROVE  /\ thread'[t].pc \notin HasWritten \cup {"write"}
                 /\ \A o \in Importers \ {t} : thread'[o] = thread[o]
      BY <1>2, <3>0 DEF Goes, HasWritten
    <3>1. thread[t] \in ThreadRecord
      BY <1>2
    <3>2. CASE \E scope \in Scopes : Request(t, scope)
      <4>1. PICK scope \in Scopes : Request(t, scope)
        BY <3>2
      <4>2. \/ Goes(t, [Idle EXCEPT !.pc = "discover", !.scope = scope])
            \/ \E newest \in Jobs :
                 Goes(t, [Idle EXCEPT !.pc = "resume", !.scope = scope, !.job = newest])
        BY <4>1 DEF Request
      <4>3. /\ [Idle EXCEPT !.pc = "discover", !.scope = scope].pc = "discover"
            /\ \A newest : [Idle EXCEPT !.pc = "resume", !.scope = scope,
                                        !.job = newest].pc = "resume"
        BY DEF Idle
      <4> QED
        BY <3>0, <4>2, <4>3
    <3>3. CASE Discover(t)
      <4>1. PICK j \in Jobs :
              Goes(t, [thread[t] EXCEPT !.pc = "start", !.job = j, !.seen = job'[j]])
        BY <3>3 DEF Discover
      <4> DEFINE new == [thread[t] EXCEPT !.pc = "start", !.job = j, !.seen = job'[j]]
      <4>2. new.pc = "start"
        BY <3>1 DEF ThreadRecord
      <4>3. Goes(t, new)
        BY <4>1
      <4> HIDE DEF new
      <4> QED
        BY <3>0, <4>2, <4>3
    <3>4. CASE Resume(t)
      <4> DEFINE new == [thread[t] EXCEPT !.pc = "start", !.seen = job'[thread[t].job]]
      <4>2. new.pc = "start"
        BY <3>1 DEF ThreadRecord
      <4>3. Goes(t, new)
        BY <3>4 DEF Resume
      <4> HIDE DEF new
      <4> QED
        BY <3>0, <4>2, <4>3
    <3>5. CASE StartJob(t) \/ SelectItems(t) \/ TallyItems(t)
      <4> DEFINE started == [Idle EXCEPT !.pc = "select", !.job = thread[t].job]
                 selected == [thread[t] EXCEPT !.pc = "head",
                                               !.todo = ItemsIn(thread[t].job, ToImport)]
                 tallied == [thread[t] EXCEPT !.pc = "finish", !.seen = job[thread[t].job],
                                              !.tally = Tallied(thread[t].job)]
      <4>1. started.pc = "select" /\ selected.pc = "head" /\ tallied.pc = "finish"
        BY <3>1 DEF ThreadRecord, Idle
      <4>2. Goes(t, started) \/ Goes(t, selected) \/ Goes(t, tallied)
        BY <3>5 DEF StartJob, SelectItems, TallyItems
      <4> HIDE DEF started, selected, tallied
      <4> QED
        BY <3>0, <4>1, <4>2
    <3>6. CASE \E f \in Folders : TakeItem(t, f)
      <4>1. PICK f \in Folders : TakeItem(t, f)
        BY <3>6
      <4> DEFINE new == [thread[t] EXCEPT !.pc = "list", !.folder = f, !.todo = @ \ {f}]
      <4>2. new.pc = "list"
        BY <3>1 DEF ThreadRecord
      <4>3. Goes(t, new)
        BY <4>1, Zenon DEF TakeItem
      <4> HIDE DEF new
      <4> QED
        BY <3>0, <4>2, <4>3
    <3>7. CASE DetailsConflict(t) \/ DocumentsConflict(t)
      BY <1>2, <3>1, <3>7
         DEF DetailsConflict, DocumentsConflict, Moves, Goes, ThreadRecord, HasWritten
    <3>8. CASE FailItem(t) \/ FinishJob(t) \/ DiscoveryFails(t)
      <4> DEFINE done == [Idle EXCEPT !.pc = "head", !.job = thread[t].job,
                                       !.todo = thread[t].todo]
      <4>1. Goes(t, Idle) \/ Goes(t, done)
        BY <3>8 DEF FailItem, FinishJob, DiscoveryFails
      <4>2. Idle.pc = "idle" /\ done.pc = "head"
        BY DEF Idle
      <4> HIDE DEF done
      <4> QED
        BY <3>0, <4>1, <4>2
    <3> QED
      BY <1>8, <3>2, <3>3, <3>4, <3>5, <3>6, <3>7, <3>8
  <2> QED
    BY <1>1, <2>1, <2>2, QuietAlone
<1>9. CASE (\E scope \in Scopes : Snapshot(scope)) \/ UNCHANGED vars
  <2>1. UNCHANGED <<register, call, stale, thread, open>>
    BY <1>9 DEF Snapshot, RegisterUntouched, vars, imports
  <2> QED
    BY <1>1, <2>1, QuietAlone
<1>10. CASE Crash
  <2>1. /\ UNCHANGED <<register, stale>>
        /\ \A h \in Handlers : call'[h].op = "none"
        /\ \A t \in Importers : thread'[t].pc \notin HasWritten \cup {"write"}
    BY <1>10 DEF Crash, NoCall, Idle, HasWritten
  <2> QED
    BY <1>1, <2>1, QuietAlone
<1> QED
  BY <1>1, <1>3, <1>5, <1>6, <1>7, <1>8, <1>9, <1>10 DEF Next, ThreadStep

(* Until an operator's call, every row is what an import of its folder, or *)
(* of its file, writes, and what an import has read is still what is there.*)
THEOREM AloneInvariant == Spec => []ImportsAlone
<1>1. Init => ImportsAlone
  BY AloneInitially
<1>2. IInv /\ ImportsAlone /\ [Next]_vars => ImportsAlone'
  BY AloneStep
<1> QED
  BY <1>1, <1>2, ImportInvariant, PTL DEF Spec

(* RF-IMP-06: however imports overlap, fail or die, no file is filed twice,*)
(* unless a commit went over a row changed since it was read; and it takes *)
(* an operator's call for that.                                            *)
THEOREM ImportFilesOnce == Spec => []DocumentsFiledOnce
<1>1. IInv /\ ImportsAlone => DocumentsFiledOnce
  <2> SUFFICES ASSUME IInv, ImportsAlone PROVE DocumentsFiledOnce
    OBVIOUS
  <2>1. calls \in Nat
    BY DEF IInv, TypeOK, RegisterTypeOK
  <2> QED
    BY <2>1 DEF IInv, ImportsAlone, DocumentsFiledOnce
<1> QED
  BY <1>1, ImportInvariant, AloneInvariant, PTL

(* A step before any operator's call changes no row that is there.         *)
LEMMA AloneKeeps ==
  ASSUME IInv, ImportsAlone, [Next]_vars, calls' = 0
  PROVE  /\ calls = 0
         /\ \A s \in SubjectIds : Exists(s) =>
              subject'[s] = subject[s] /\ person'[s] = person[s] /\ company'[s] = company[s]
         /\ \A d \in DocIds : documents[d].owner # None => documents'[d] = documents[d]
<1>1. calls = 0 /\ ~OperatorStep
  BY CallsAreCounted
<1>2. ASSUME ~\E t \in Importers : CommitItem(t) PROVE UNCHANGED register
  BY <1>1, <1>2 DEF Next, vars, Request, ThreadStep, Discover, DiscoveryFails, Resume,
     StartJob, SelectItems, TakeItem, ListFilesAndLookUp, WriteSubject, WriteDetails,
     DetailsConflict, ReadDocuments, DocumentsConflict, FailItem, TallyItems, FinishJob,
     Snapshot, Crash, RegisterUntouched
<1> QED
  BY <1>1, <1>2, CommitAlone DEF register

(* RF-IMP-06: until an operator's call, importing again, by any number of  *)
(* threads at once, changes nothing that is in the register.               *)
THEOREM ImportsAdd == Spec => ImportsOnlyAdd
<1> DEFINE Kept == calls' = 0 =>
       /\ \A s \in SubjectIds : Exists(s) =>
            <<subject'[s], person'[s], company'[s]>> = <<subject[s], person[s], company[s]>>
       /\ \A d \in DocIds : documents[d].owner # None => documents'[d] = documents[d]
<1>1. IInv /\ ImportsAlone /\ [Next]_vars => Kept
  BY AloneKeeps
<1> QED
  BY <1>1, ImportInvariant, AloneInvariant, PTL DEF Spec, ImportsOnlyAdd

-----------------------------------------------------------------------------
(* Commits are serial: a step that commits is a transaction of             *)
(* SubjectRegister, or one over a changed row.                             *)

LEMMA DocPairs ==
  /\ \A d \in DocIds : d[1] \in Files /\ d[2] \in Copies /\ d = <<d[1], d[2]>>
  /\ \A d, e \in DocIds : d[1] = e[1] /\ d[2] = e[2] => d = e
BY DEF DocIds

(* The flush of a row that is as it was read writes the row as it is set.  *)
LEMMA FlushesUnchanged ==
  /\ \A row, new \in SubjectRow : FlushSubject(row, row, new) = new
  /\ \A row : \A new \in DocRow : new.used = TRUE => FlushDoc(row, row, new) = new
<1>1. ASSUME NEW row \in SubjectRow, NEW new \in SubjectRow
      PROVE  FlushSubject(row, row, new) = new
  BY DEF FlushSubject, Column, SubjectRow
<1>2. ASSUME NEW row, NEW new \in DocRow, new.used = TRUE
      PROVE  FlushDoc(row, row, new) = new
  BY <1>2 DEF FlushDoc, Column, DocRow
<1> QED
  BY <1>1, <1>2

(* Where an import that goes over nothing changed files what it has found. *)
LEMMA FilesHavePlaces ==
  ASSUME Bound, RegisterGood, NEW t \in Importers, CommitItem(t), ~stale',
         NEW x \in thread[t].files
  PROVE  /\ x \in Filed(t) =>
              /\ SeenAgain(t, x) \in DocsOf(x, documents)
              /\ SeenAgain(t, x) \in DocIds /\ SeenAgain(t, x)[1] = x
              /\ thread[t].docs[SeenAgain(t, x)] = documents[SeenAgain(t, x)]
              /\ x \notin Gone(t)
         /\ x \notin Filed(t) =>
              /\ DocsOf(x, documents) = {}
              /\ FreeCopy(x) \in DocIds /\ FreeCopy(x)[1] = x
              /\ ~documents[FreeCopy(x)].used
<1>1. thread[t].pc = "commit" /\ WriteIsBound(t) /\ thread[t].files \in SUBSET Files
  BY CommitFinds
<1>2. CASE x \in Filed(t)
  <2>1. Unchanged(t, x)
    BY <1>2, CommitFiles
  <2>2. PICK d \in DocIds : d = SeenAgain(t, x) /\ d[1] = x /\ thread[t].docs[d].owner # None
    BY <1>2, PickedDocs
  <2>3. thread[t].docs[d] = documents[d]
    BY <2>1, <2>2 DEF Unchanged
  <2>4. d \in DocsOf(x, documents) /\ x \notin Gone(t)
    BY <2>2, <2>3 DEF DocsOf, Gone
  <2> QED
    BY <1>2, <2>2, <2>3, <2>4
<1>3. CASE x \notin Filed(t)
  <2>1. /\ ~stale
        /\ ~open[t].fresh => subject[open[t].sid] = thread[t].row
    BY CommitFiles DEF CommitItem
  <2>2. open[t].fresh \/ subject[open[t].sid].path = thread[t].folder
    BY <2>1, CommitFinds
  <2>3. DocsOf(x, documents) \subseteq Found(t, x)
    BY <1>1, <2>1, <2>2 DEF RegisterGood, DocumentsWereSeen, SawDocuments
  <2>4. Found(t, x) = {}
    BY <1>3 DEF Filed
  <2>5. \E c \in Copies : ~documents[<<x, c>>].used
    BY <1>3 DEF CommitItem
  <2> QED
    BY <1>3, <2>3, <2>4, <2>5, PickedDocs
<1> QED
  BY <1>2, <1>3

(* An import that goes over nothing changed is an import at one instant.   *)
LEMMA ImportIsSerial ==
  ASSUME Bound, RegisterGood, NEW t \in Importers, CommitItem(t), ~stale'
  PROVE  Register!Transaction
<1> DEFINE f == thread[t].folder
           files == thread[t].files
           w == open[t]
           place == [x \in files |-> IF x \in Filed(t) THEN SeenAgain(t, x)[2]
                                                       ELSE FreeCopy(x)[2]]
           row == [type |-> ParsedType(NameOf[f]), status |-> "active", path |-> f]
<1>1. /\ thread[t].pc = "commit" /\ WriteIsBound(t) /\ ThreadIsBound(t)
      /\ w.sid \in SubjectIds /\ f \in Folders /\ files \in SUBSET Files
      /\ ~w.fresh => Exists(w.sid) /\ thread[t].row.path = f
  BY CommitFinds
<1>2. PICK s \in SubjectIds : s = w.sid
  BY <1>1
<1>3. /\ w.type = ParsedType(NameOf[f]) /\ w.key = NameOf[f].key
      /\ w.fresh => ~Exists(s) /\ ~PathTaken(s, f)
      /\ \A x \in files : FolderOf[x] = f
  <2>1. w.sid # None
    BY <1>1 DEF WriteIsBound, HasWritten
  <2> QED
    BY <1>1, <1>2, <2>1 DEF WriteIsBound, ThreadIsBound, ImportedType, ImportedKey, HasWritten
<1>4. ~w.fresh => thread[t].row = subject[s] /\ subject[s].path = f
  BY <1>1, <1>2, CommitFiles
<1>5. CommittedSubject(t) = row
  <2>1. CASE w.fresh
    BY <2>1 DEF CommittedSubject, ImportedSubject, ImportedType
  <2>2. CASE ~w.fresh
    BY <1>1, <1>2, <1>4, <2>2
       DEF CommittedSubject, ImportedSubject, ImportedType, FlushSubject, Column
  <2> QED
    BY <2>1, <2>2
<1>6. Register!Put(s, row, PersonKey(w.type, w.key), CompanyKey(w.type, w.key))
  <2>1. /\ person'[s] = PersonKey(w.type, w.key) /\ company'[s] = CompanyKey(w.type, w.key)
        /\ \A o \in SubjectIds \ {s} : person'[o] = person[o] /\ company'[o] = company[o]
    BY <1>2, CommitLeaves
  <2>2. /\ person \in [SubjectIds -> Keys \cup {None}] /\ company \in [SubjectIds -> Keys \cup {None}]
        /\ DOMAIN person' = SubjectIds /\ DOMAIN company' = SubjectIds
        /\ person' = [o \in DOMAIN person' |-> person'[o]]
        /\ company' = [o \in DOMAIN company' |-> company'[o]]
    BY DEF Bound, TypeOK, RegisterTypeOK, CommitItem
  <2>3. /\ person' = [person EXCEPT ![s] = PersonKey(w.type, w.key)]
        /\ company' = [company EXCEPT ![s] = CompanyKey(w.type, w.key)]
    BY <2>1, <2>2
  <2>4. subject' = [subject EXCEPT ![s] = row]
    BY <1>2, <1>5, CommitWrites
  <2> HIDE DEF row
  <2> QED
    BY <2>3, <2>4 DEF Register!Put
<1>7. IF Register!At(f) = {} THEN ~Register!Exists(s) ELSE s \in Register!At(f)
  <2>1. CASE w.fresh
    <3>1. Register!At(f) = {}
      BY <1>1, <1>3, <2>1, RegisterAssumption
         DEF Register!At, Register!Exists, Exists, PathTaken, RegisterAssumption
    <3> QED
      BY <1>3, <2>1, <3>1 DEF Register!Exists, Exists
  <2>2. CASE ~w.fresh
    BY <1>1, <1>2, <1>4, <2>2 DEF Register!At, Register!Exists, Exists
  <2> QED
    BY <2>1, <2>2
<1>8. ASSUME NEW x \in files
      PROVE  /\ place[x] \in Copies
             /\ x \in Filed(t) => <<x, place[x]>> = SeenAgain(t, x)
             /\ x \notin Filed(t) => <<x, place[x]>> = FreeCopy(x)
  BY FilesHavePlaces, DocPairs
<1>9. ASSUME NEW x \in files
      PROVE  /\ FolderOf[x] = f
             /\ IF Register!DocsOf(x) = {} THEN ~documents[<<x, place[x]>>].used
                                          ELSE <<x, place[x]>> \in Register!DocsOf(x)
  <2>1. Register!DocsOf(x) = DocsOf(x, documents)
    BY DEF Register!DocsOf, DocsOf, Register!DocIds, DocIds
  <2>2. CASE x \in Filed(t)
    <3>1. SeenAgain(t, x) \in DocsOf(x, documents)
      BY <2>2, FilesHavePlaces
    <3>2. <<x, place[x]>> \in Register!DocsOf(x)
      BY <1>8, <2>1, <2>2, <3>1
    <3> HIDE DEF place
    <3> QED
      BY <1>3, <3>2
  <2>3. CASE x \notin Filed(t)
    <3>1. DocsOf(x, documents) = {} /\ ~documents[FreeCopy(x)].used
      BY <2>3, FilesHavePlaces
    <3>2. Register!DocsOf(x) = {} /\ ~documents[<<x, place[x]>>].used
      BY <1>8, <2>1, <2>3, <3>1
    <3> HIDE DEF place
    <3> QED
      BY <1>3, <3>2
  <2> QED
    BY <2>2, <2>3
<1>10. ASSUME NEW d \in DocIds
       PROVE  CommittedDoc(t, d) =
                IF d[1] \in files /\ d[2] = place[d[1]]
                THEN [owner |-> s, type |-> Classified(d[1]), source |-> "auto", used |-> TRUE]
                ELSE documents[d]
  <2>1. ImportedDoc(t, d[1]) = [owner |-> s, type |-> Classified(d[1]), source |-> "auto",
                                used |-> TRUE]
    BY <1>2 DEF ImportedDoc
  <2>2. CASE d[1] \in Filed(t)
    <3>1. d[1] \in files
      BY <2>2 DEF Filed
    <3>2. SeenAgain(t, d[1]) = <<d[1], place[d[1]]>> /\ d[1] \notin Gone(t)
      BY <1>8, <2>2, <3>1, FilesHavePlaces
    <3>3. d = SeenAgain(t, d[1]) <=> d[2] = place[d[1]]
      BY <3>2, DocPairs
    <3>4. CASE d = SeenAgain(t, d[1])
      <4>1. thread[t].docs[d] = documents[d]
        BY <2>2, <3>1, <3>4, FilesHavePlaces
      <4>2. FlushDoc(documents[d], documents[d], ImportedDoc(t, d[1])) = ImportedDoc(t, d[1])
        <5>1. ImportedDoc(t, d[1]) \in DocRow
          BY <1>1, CommitTyped, DocPairs
        <5>2. ImportedDoc(t, d[1]).used = TRUE
          BY <2>1
        <5> QED
          BY <5>1, <5>2, FlushesUnchanged
      <4>3. CommittedDoc(t, d) = FlushDoc(documents[d], documents[d], ImportedDoc(t, d[1]))
        BY <2>2, <3>2, <3>4, <4>1 DEF CommittedDoc
      <4> QED
        BY <2>1, <3>1, <3>3, <3>4, <4>2, <4>3
    <3>5. CASE d # SeenAgain(t, d[1])
      <4>1. CommittedDoc(t, d) = documents[d]
        BY <2>2, <3>5 DEF CommittedDoc
      <4> QED
        BY <3>3, <3>5, <4>1
    <3> QED
      BY <3>4, <3>5
  <2>3. CASE d[1] \in files \ Filed(t)
    <3>1. FreeCopy(d[1]) = <<d[1], place[d[1]]>>
      BY <1>8, <2>3
    <3>2. d = FreeCopy(d[1]) <=> d[2] = place[d[1]]
      BY <3>1, DocPairs
    <3>3. CommittedDoc(t, d) = IF d = FreeCopy(d[1]) THEN ImportedDoc(t, d[1]) ELSE documents[d]
      BY <2>3 DEF CommittedDoc
    <3> QED
      BY <2>1, <2>3, <3>2, <3>3
  <2>4. CASE d[1] \notin files
    BY <2>4 DEF CommittedDoc, Filed
  <2> QED
    BY <2>2, <2>3, <2>4
<1>11. documents' = [d \in Register!DocIds |->
           IF d[1] \in DOMAIN place /\ d[2] = place[d[1]]
           THEN [owner |-> s, type |-> [x \in Files |-> Classified(x)][d[1]],
                 source |-> "auto", used |-> TRUE]
           ELSE documents[d]]
  <2>1. documents' = [d \in DocIds |-> CommittedDoc(t, d)]
    BY CommitWrites
  <2>2. DOMAIN place = files /\ Register!DocIds = DocIds
    BY DEF Register!DocIds, DocIds
  <2>3. \A d \in DocIds : [x \in Files |-> Classified(x)][d[1]] = Classified(d[1])
    BY DocPairs
  <2> HIDE DEF place, files
  <2> QED
    BY <1>10, <2>1, <2>2, <2>3
<1>12. place \in [files -> Copies]
  BY <1>8
<1>13. Register!Import(s, f, place)
  <2>1. DOMAIN place = files
    OBVIOUS
  <2>2. /\ [g \in Folders |-> ParsedType(NameOf[g])][f] = ParsedType(NameOf[f])
        /\ [g \in Folders |-> PersonKey(ParsedType(NameOf[g]), NameOf[g].key)][f]
             = PersonKey(w.type, w.key)
        /\ [g \in Folders |-> CompanyKey(ParsedType(NameOf[g]), NameOf[g].key)][f]
             = CompanyKey(w.type, w.key)
    BY <1>1, <1>3
  <2> HIDE DEF place
  <2> QED
    BY <1>6, <1>7, <1>9, <1>11, <2>1, <2>2 DEF Register!Import
<1> HIDE DEF f, files, place
<1> QED
  BY <1>1, <1>12, <1>13 DEF Register!Transaction

(* So is a subject created by an operator.                                 *)
LEMMA CreateIsSerial ==
  ASSUME Bound, NEW s \in SubjectIds, NEW type \in SubjectTypes,
         NEW path \in Folders \cup {None},
         NEW key \in IF type = "unknown" THEN {None} ELSE Keys,
         CreateSubject(s, type, path, key)
  PROVE  Register!Transaction
<1> DEFINE fiscalCode == PersonKey(type, key)
           vat == CompanyKey(type, key)
<1>0. /\ DetailsFor(type, key)["person"] = fiscalCode
      /\ DetailsFor(type, key)["company"] = vat
  BY DetailsTyped
<1>2. Register!PathIsFree(s, path)
  BY DEF CreateSubject, PathTaken, Register!PathIsFree, Register!At, Register!Exists, Exists
<1>3. Register!KeysAreFree(s, fiscalCode, vat)
  <2>1. ~DetailsRefused(s, NoDetails, DetailsFor(type, key))
    BY DEF CreateSubject
  <2>2. /\ fiscalCode # None => "person" \in Sent(NoDetails, DetailsFor(type, key))
        /\ vat # None => "company" \in Sent(NoDetails, DetailsFor(type, key))
    BY DetailsTyped DEF Sent
  <2>3. ASSUME NEW o \in SubjectIds \ {s}
        PROVE  /\ fiscalCode # None => DetailsOf(o)["person"] # fiscalCode
               /\ vat # None => DetailsOf(o)["company"] # vat
    <3> HIDE DEF fiscalCode, vat
    <3> QED
      BY <1>0, <2>1, <2>2 DEF DetailsRefused
  <2> QED
    BY <2>3, DetailsTyped DEF Register!KeysAreFree
<1>4. ~Register!Exists(s)
  BY DEF CreateSubject, Register!Exists, Exists
<1>5. /\ Register!Put(s, [type |-> type, status |-> "active", path |-> path], fiscalCode, vat)
      /\ UNCHANGED documents
  BY Zenon DEF CreateSubject, Register!Put
<1>6. Register!Create(s, type, path, key)
  BY <1>2, <1>3, <1>4, <1>5 DEF Register!Create, PersonKey, CompanyKey
<1> HIDE DEF fiscalCode, vat
<1>7. key \in Keys \cup {None}
  OBVIOUS
<1> QED
  BY <1>6, <1>7 DEF Register!Transaction, SubjectTypes

(* An update of a row that is as it was read.                              *)
LEMMA UpdateIsSerial ==
  ASSUME Bound, NEW h \in Handlers, NEW new \in UpdatedRows(call[h].row),
         NEW key \in Keys \cup {None}, CommitUpdate(h, new, key), ~stale'
  PROVE  Register!Transaction
<1>1. PICK s \in SubjectIds, row \in SubjectRow :
        /\ s = call[h].sid /\ row = call[h].row /\ row.type # "absent"
        /\ Exists(s) /\ subject[s] \in SubjectRow
  BY CallTyped DEF CommitUpdate
<1> DEFINE c == call[h]
           details == IF key = None THEN c.details ELSE DetailsFor(row.type, key)
<1>2. /\ new \in SubjectRow /\ new.type = row.type
      /\ new.path # row.path => ~PathTaken(s, new.path)
      /\ ~DetailsRefused(s, c.details, details)
      /\ subject' = [subject EXCEPT ![s] = FlushSubject(subject[s], row, new)]
      /\ person' = [person EXCEPT ![s] = Column(person[s], c.details["person"],
                                                details["person"])]
      /\ company' = [company EXCEPT ![s] = Column(company[s], c.details["company"],
                                                  details["company"])]
      /\ UNCHANGED documents
  BY <1>1 DEF CommitUpdate, UpdatedRows
<1>3. row = subject[s] /\ (key # None => c.details = DetailsOf(s))
  BY <1>1 DEF CommitUpdate, Reply
<1>4. new = [type |-> subject[s].type, status |-> new.status, path |-> new.path]
  BY <1>2, <1>3 DEF SubjectRow
<1>5. FlushSubject(subject[s], row, new) = new
  BY <1>1, <1>2, <1>3, FlushesUnchanged
<1> DEFINE fiscalCode == IF key = None THEN person[s]
                         ELSE IF subject[s].type = "person" THEN key ELSE None
           vat == IF key = None THEN company[s]
                  ELSE IF subject[s].type = "company" THEN key ELSE None
<1>6. /\ person' = [person EXCEPT ![s] = fiscalCode]
      /\ company' = [company EXCEPT ![s] = vat]
  <2>1. person \in [SubjectIds -> Keys \cup {None}] /\ company \in [SubjectIds -> Keys \cup {None}]
    BY DEF Bound, TypeOK, RegisterTypeOK
  <2>2. /\ Column(person[s], c.details["person"], details["person"]) = fiscalCode
        /\ Column(company[s], c.details["company"], details["company"]) = vat
    BY <1>3, DetailsTyped DEF Column, PersonKey, CompanyKey
  <2> HIDE DEF details
  <2> QED
    BY <1>2, <2>2
<1>7. Register!Put(s, [type |-> subject[s].type, status |-> new.status, path |-> new.path],
                   fiscalCode, vat)
  <2>1. subject' = [subject EXCEPT ![s] = [type |-> subject[s].type,
                                           status |-> new.status, path |-> new.path]]
    BY <1>2, <1>4, <1>5
  <2> QED
    BY <1>6, <2>1, Zenon DEF Register!Put
<1>8. /\ fiscalCode # person[s] => Register!KeysAreFree(s, fiscalCode, None)
      /\ vat # company[s] => Register!KeysAreFree(s, None, vat)
  <2>1. key # None => /\ details["person"] = fiscalCode /\ details["company"] = vat
                      /\ c.details["person"] = person[s] /\ c.details["company"] = company[s]
    BY <1>3, DetailsTyped DEF PersonKey, CompanyKey
  <2>2. /\ fiscalCode # person[s] => key # None /\ "person" \in Sent(c.details, details)
        /\ vat # company[s] => key # None /\ "company" \in Sent(c.details, details)
    <3> HIDE DEF details
    <3> QED
      BY <2>1, DetailsTyped DEF Sent
  <2>3. ASSUME NEW o \in SubjectIds \ {s}
        PROVE  /\ fiscalCode # person[s] /\ fiscalCode # None
                    => DetailsOf(o)["person"] # fiscalCode
               /\ vat # company[s] /\ vat # None => DetailsOf(o)["company"] # vat
    <3> HIDE DEF fiscalCode, vat, details
    <3> QED
      BY <1>2, <2>1, <2>2 DEF DetailsRefused
  <2> HIDE DEF fiscalCode, vat
  <2> QED
    BY <2>3, DetailsTyped DEF Register!KeysAreFree
<1>9. new.path # subject[s].path => Register!PathIsFree(s, new.path)
  BY <1>2, <1>3 DEF PathTaken, Register!PathIsFree, Register!At, Register!Exists, Exists
<1>10. Register!Exists(s)
  BY <1>1 DEF Register!Exists, Exists
<1>11. Register!Update(s, new.status, new.path, key)
  BY <1>2, <1>7, <1>8, <1>9, <1>10 DEF Register!Update
<1>12. new.status \in SubjectStatus /\ new.path \in Folders \cup {None}
  BY <1>2 DEF SubjectRow
<1> QED
  BY <1>11, <1>12 DEF Register!Transaction, SubjectStatus

(* A deactivation is an update of the status.                              *)
LEMMA DeactivateIsSerial ==
  ASSUME Bound, NEW h \in Handlers, CommitDeactivate(h), ~stale'
  PROVE  Register!Transaction
<1>1. PICK s \in SubjectIds, row \in SubjectRow :
        /\ s = call[h].sid /\ row = call[h].row
        /\ Exists(s) /\ subject[s] \in SubjectRow
  BY CallTyped DEF CommitDeactivate
<1>2. row = subject[s]
  BY <1>1 DEF CommitDeactivate, Reply
<1> DEFINE new == [row EXCEPT !.status = "inactive"]
<1>3. new \in SubjectRow /\ new = [type |-> row.type, status |-> "inactive", path |-> row.path]
  BY DEF SubjectRow, SubjectStatus
<1>4. /\ subject' = [subject EXCEPT ![s] = FlushSubject(subject[s], row, new)]
      /\ UNCHANGED <<person, company, documents>>
  BY <1>1 DEF CommitDeactivate
<1> HIDE DEF new
<1>5. subject' = [subject EXCEPT ![s] = [type |-> subject[s].type, status |-> "inactive",
                                         path |-> subject[s].path]]
  BY <1>2, <1>3, <1>4, FlushesUnchanged
<1>6. person' = [person EXCEPT ![s] = person[s]] /\ company' = [company EXCEPT ![s] = company[s]]
  BY <1>4 DEF Bound, TypeOK, RegisterTypeOK
<1>7. Register!Put(s, [type |-> subject[s].type, status |-> "inactive", path |-> subject[s].path],
                   person[s], company[s])
  BY <1>5, <1>6, Zenon DEF Register!Put
<1>8. Register!Update(s, "inactive", subject[s].path, None)
  BY <1>1, <1>4, <1>7 DEF Register!Update, Register!Exists, Exists
<1>9. subject[s].path \in Folders \cup {None}
  BY <1>1 DEF SubjectRow
<1> QED
  BY <1>8, <1>9 DEF Register!Transaction

(* A document patched or deleted that is as it was read.                   *)
LEMMA DocumentCallsAreSerial ==
  ASSUME Bound, RegisterGood, NEW h \in Handlers, ~stale',
         CommitDelete(h) \/ \E type \in ChosenTypes : CommitPatch(h, type)
  PROVE  Register!Transaction
<1>1. PICK d \in DocIds, seen \in DocRow :
        /\ d = call[h].doc /\ seen = call[h].docRow /\ seen.owner # None
        /\ documents[d] \in DocRow
  BY CallTyped DEF CommitPatch, CommitDelete
<1>2. seen = documents[d] /\ documents[d].owner # None /\ documents[d].used = TRUE
  <2>1. seen = documents[d]
    BY <1>1 DEF CommitPatch, CommitDelete, Reply
  <2> QED
    BY <1>1, <2>1 DEF RegisterGood, RowsAreProper, DocRow
<1>3. d \in Register!DocIds /\ UNCHANGED <<subject, person, company>>
  BY <1>1 DEF Register!DocIds, DocIds, CommitPatch, CommitDelete
<1>4. CASE CommitDelete(h)
  <2>1. DeletedDoc = [owner |-> None, type |-> "altro", source |-> "auto", used |-> TRUE]
    <3>1. DeletedDoc \in DocRow
      BY DEF DeletedDoc, AbsentDoc, DocRow, DocTypes
    <3>2. DeletedDoc.owner = None /\ DeletedDoc.used
      BY DEF DeletedDoc, AbsentDoc
    <3>3. DeletedDoc.type = "altro" /\ DeletedDoc.source = "auto"
      BY DEF DeletedDoc, AbsentDoc
    <3> HIDE DEF DeletedDoc
    <3>4. DeletedDoc.used = TRUE
      BY <3>1, <3>2 DEF DocRow
    <3> QED
      BY <3>1, <3>2, <3>3, <3>4 DEF DocRow
  <2>2. documents' = [documents EXCEPT ![d] = [owner |-> None, type |-> "altro",
                                               source |-> "auto", used |-> TRUE]]
    BY <1>1, <1>4, <2>1 DEF CommitDelete
  <2>3. Register!Delete(d)
    BY <1>2, <1>3, <2>2 DEF Register!Delete
  <2> QED
    BY <1>3, <2>3 DEF Register!Transaction
<1>5. ASSUME NEW type \in ChosenTypes, CommitPatch(h, type)
      PROVE  Register!Transaction
  <2> DEFINE new == [documents[d] EXCEPT !.type = type, !.source = "manual"]
  <2>1. PatchedDoc(seen, type) = new /\ new.used = TRUE
    <3>1. PatchedDoc(seen, type) = new
      BY <1>2 DEF PatchedDoc
    <3>2. new.used = TRUE
      BY <1>1, <1>2 DEF DocRow
    <3> QED
      BY <3>1, <3>2
  <2>2. new \in DocRow
    <3>1. type \in DocTypes
      BY RegisterAssumption DEF RegisterAssumption
    <3> QED
      BY <1>1, <3>1 DEF DocRow
  <2>3. documents' = [documents EXCEPT ![d] = FlushDoc(documents[d], seen, PatchedDoc(seen, type))]
    BY <1>1, <1>5, Zenon DEF CommitPatch
  <2>4. FlushDoc(documents[d], seen, PatchedDoc(seen, type)) = new
    BY <1>2, <2>1, <2>2, FlushesUnchanged
  <2>5. documents' = [documents EXCEPT ![d] = new]
    BY <2>3, <2>4
  <2>6. Register!Patch(d, type)
    BY <1>2, <1>3, <2>5, Zenon DEF Register!Patch
  <2> QED
    BY <1>3, <2>6 DEF Register!Transaction
<1> QED
  BY <1>4, <1>5

(* What every commit keeps, over changed rows too.                         *)
Lasts ==
  /\ \A s \in SubjectIds : Exists(s) => Exists(s)'
  /\ \A d \in DocIds : documents[d].used =>
       /\ documents'[d].used
       /\ documents[d].owner = None => documents'[d].owner = None

LEMMA ImportLasts ==
  ASSUME Bound, RegisterGood, NEW t \in Importers, CommitItem(t)
  PROVE  Lasts
<1>1. open[t].sid \in SubjectIds /\ thread[t].files \in SUBSET Files
  BY CommitFinds
<1>2. PICK s0 \in SubjectIds : s0 = open[t].sid
  BY <1>1
<1>3. Exists(s0)' /\ \A o \in SubjectIds \ {s0} : subject'[o] = subject[o]
  BY <1>2, CommitLeaves
<1>4. \A s \in SubjectIds : Exists(s) => Exists(s)'
  BY <1>3 DEF Exists
<1>5. documents' = [d \in DocIds |-> CommittedDoc(t, d)]
  BY CommitWrites
<1>6. ASSUME NEW d \in DocIds, documents[d].used
      PROVE  /\ CommittedDoc(t, d).used
             /\ documents[d].owner = None => CommittedDoc(t, d).owner = None
  <2>1. CASE d[1] \in Filed(t) \ Gone(t) /\ d = SeenAgain(t, d[1])
    <3>1. documents[d].owner # None
      BY <2>1 DEF Gone
    <3>2. CommittedDoc(t, d) = FlushDoc(documents[d], thread[t].docs[d], ImportedDoc(t, d[1]))
      BY <2>1 DEF CommittedDoc
    <3> QED
      BY <3>1, <3>2 DEF FlushDoc
  <2>2. CASE d[1] \in thread[t].files \ Filed(t) /\ d = FreeCopy(d[1])
    <3>1. \E c \in Copies : ~documents[<<d[1], c>>].used
      BY <2>2 DEF CommitItem
    <3>2. ~documents[FreeCopy(d[1])].used
      BY <2>2, <3>1, PickedDocs
    <3> QED
      BY <1>6, <2>2, <3>2
  <2>3. CASE ~(d[1] \in Filed(t) \ Gone(t) /\ d = SeenAgain(t, d[1]))
             /\ ~(d[1] \in thread[t].files \ Filed(t) /\ d = FreeCopy(d[1]))
    <3>1. CommittedDoc(t, d) = documents[d]
      BY <2>3 DEF CommittedDoc
    <3> QED
      BY <1>6, <3>1
  <2> QED
    BY <2>1, <2>2, <2>3
<1>7. \A d \in DocIds : documents'[d] = CommittedDoc(t, d)
  BY <1>5
<1> QED
  BY <1>4, <1>6, <1>7 DEF Lasts

LEMMA SubjectCallLasts ==
  ASSUME Bound, NEW h \in Handlers,
         \/ \E new \in UpdatedRows(call[h].row), key \in Keys \cup {None} :
              CommitUpdate(h, new, key)
         \/ CommitDeactivate(h)
  PROVE  Lasts
<1>1. PICK s \in SubjectIds, row \in SubjectRow :
        /\ s = call[h].sid /\ row = call[h].row /\ row.type # "absent"
        /\ Exists(s) /\ subject[s] \in SubjectRow
  BY CallTyped DEF CommitUpdate, CommitDeactivate
<1>2. UNCHANGED documents
  BY DEF CommitUpdate, CommitDeactivate
<1>3. PICK new \in SubjectRow :
        /\ new.type = row.type
        /\ subject' = [subject EXCEPT ![s] = FlushSubject(subject[s], row, new)]
  <2>1. ASSUME NEW new \in UpdatedRows(row), NEW key, CommitUpdate(h, new, key)
        PROVE  /\ new \in SubjectRow /\ new.type = row.type
               /\ subject' = [subject EXCEPT ![s] = FlushSubject(subject[s], row, new)]
    BY <1>1, <2>1 DEF CommitUpdate, UpdatedRows
  <2>2. ASSUME CommitDeactivate(h)
        PROVE  \E new \in SubjectRow :
                 /\ new.type = row.type
                 /\ subject' = [subject EXCEPT ![s] = FlushSubject(subject[s], row, new)]
    <3> DEFINE off == [row EXCEPT !.status = "inactive"]
    <3>1. off \in SubjectRow /\ off.type = row.type
      BY DEF SubjectRow, SubjectStatus
    <3>2. subject' = [subject EXCEPT ![s] = FlushSubject(subject[s], row, off)]
      BY <1>1, <2>2 DEF CommitDeactivate
    <3> HIDE DEF off
    <3> QED
      BY <3>1, <3>2
  <2> QED
    BY <1>1, <2>1, <2>2
<1>4. FlushSubject(subject[s], row, new).type # "absent"
  BY <1>1, <1>3, FlushesTyped DEF Exists
<1>5. \A o \in SubjectIds : Exists(o) => Exists(o)'
  BY <1>3, <1>4 DEF Exists, Bound, TypeOK, RegisterTypeOK
<1> QED
  BY <1>2, <1>5 DEF Lasts

LEMMA CreateLasts ==
  ASSUME Bound, NEW s \in SubjectIds, NEW type \in SubjectTypes, NEW path, NEW key,
         CreateSubject(s, type, path, key)
  PROVE  Lasts
<1>1. /\ subject' = [subject EXCEPT ![s] = [type |-> type, status |-> "active", path |-> path]]
      /\ UNCHANGED documents
  BY DEF CreateSubject
<1>2. \A o \in SubjectIds : Exists(o) => Exists(o)'
  BY <1>1 DEF Exists, SubjectTypes, Bound, TypeOK, RegisterTypeOK
<1> QED
  BY <1>1, <1>2 DEF Lasts

LEMMA DocumentCallsLast ==
  ASSUME Bound, NEW h \in Handlers,
         CommitDelete(h) \/ \E type \in ChosenTypes : CommitPatch(h, type)
  PROVE  Lasts
<1>1. PICK d \in DocIds : d = call[h].doc
  BY CallTyped DEF CommitPatch, CommitDelete
<1>2. UNCHANGED subject /\ documents \in [DocIds -> DocRow]
  BY DEF CommitPatch, CommitDelete, Bound, TypeOK, RegisterTypeOK
<1>3. CASE CommitDelete(h)
  <2>1. documents' = [documents EXCEPT ![d] = DeletedDoc]
    BY <1>1, <1>3 DEF CommitDelete
  <2>2. DeletedDoc.used /\ DeletedDoc.owner = None
    BY DEF DeletedDoc, AbsentDoc
  <2> HIDE DEF DeletedDoc
  <2> QED
    BY <1>2, <2>1, <2>2 DEF Lasts, Exists
<1>4. ASSUME NEW type \in ChosenTypes, CommitPatch(h, type) PROVE Lasts
  <2> DEFINE row == FlushDoc(documents[d], call[h].docRow, PatchedDoc(call[h].docRow, type))
  <2>1. documents' = [documents EXCEPT ![d] = row] /\ documents[d].owner # None
    BY <1>1, <1>4 DEF CommitPatch
  <2>2. row.used
    BY DEF FlushDoc
  <2> HIDE DEF row
  <2> QED
    BY <1>2, <2>1, <2>2 DEF Lasts, Exists
<1> QED
  BY <1>3, <1>4

(* A step that commits is a transaction, or one over a changed row, or one *)
(* that leaves every row as it was.                                        *)
LEMMA CommitMaps ==
  ASSUME IInv, [Next]_vars, Lasts, ~stale' => Register!Transaction,
         stale => stale'
  PROVE  [Register!Next]_(Register!vars)
<1>1. TypeOK /\ TypeOK' /\ RowsAreProper'
  <2>1. Bound /\ Bound' /\ RegisterGood'
    BY Parts, NextBound, NextRegister
  <2> QED
    BY <2>1 DEF Bound, RegisterGood
<1>2. stale \in BOOLEAN /\ stale' \in BOOLEAN
  BY <1>1 DEF TypeOK, RegisterTypeOK
<1>3. CASE stale'
  <2>1. stale' = TRUE
    BY <1>2, <1>3
  <2>2. \A s, o \in SubjectIds :
          /\ Register!Exists(s)' /\ Register!Exists(o)'
          /\ subject'[s].path # None /\ subject'[s].path = subject'[o].path
          => s = o
    BY <1>1 DEF RowsAreProper, Exists, Register!Exists
  <2>3. Register!CommitOver
    BY <2>1, <2>2 DEF Register!CommitOver, Lasts, Exists, Register!Exists,
       DocIds, Register!DocIds
  <2> QED
    BY <2>3 DEF Register!Next
<1>4. CASE ~stale'
  <2>1. stale' = stale
    BY <1>2, <1>4
  <2>2. CASE UNCHANGED Register!tables
    BY <2>1, <2>2 DEF Register!vars
  <2>3. CASE ~UNCHANGED Register!tables
    BY <1>4, <2>1, <2>3 DEF Register!Next
  <2> QED
    BY <2>2, <2>3
<1> QED
  BY <1>3, <1>4

(* Every step is one of SubjectRegister.                                   *)
LEMMA RegisterStep ==
  ASSUME IInv, [Next]_vars
  PROVE  [Register!Next]_(Register!vars)
<1>0. Bound /\ RegisterGood
  BY Parts
<1>1. CASE UNCHANGED <<register, stale>>
  BY <1>1 DEF register, Register!vars, Register!tables
<1>2. ASSUME NEW t \in Importers, CommitItem(t) PROVE [Register!Next]_(Register!vars)
  <2>1. stale => stale'
    BY <1>2 DEF CommitItem
  <2> QED
    BY <1>0, <1>2, <2>1, ImportLasts, ImportIsSerial, CommitMaps
<1>3. ASSUME NEW t \in Importers, ThreadStep(t), ~CommitItem(t)
      PROVE  UNCHANGED <<register, stale>>
  BY <1>3 DEF ThreadStep, Discover, DiscoveryFails, Resume, StartJob, SelectItems, TakeItem,
     ListFilesAndLookUp, WriteSubject, WriteDetails, DetailsConflict, ReadDocuments,
     DocumentsConflict, FailItem, TallyItems, FinishJob, RegisterUntouched
<1>4. CASE \/ \E t \in Importers, scope \in Scopes : Request(t, scope)
           \/ \E scope \in Scopes : Snapshot(scope)
           \/ Crash
           \/ UNCHANGED vars
  <2>1. UNCHANGED <<register, stale>>
    BY <1>4 DEF Request, Snapshot, Crash, vars, RegisterUntouched
  <2> QED
    BY <1>1, <2>1
<1>5. CASE OperatorStep
  <2>1. ASSUME NEW s \in SubjectIds, NEW type \in SubjectTypes, NEW path \in Folders \cup {None},
               NEW key \in IF type = "unknown" THEN {None} ELSE Keys,
               CreateSubject(s, type, path, key)
        PROVE  [Register!Next]_(Register!vars)
    <3>1. stale => stale'
      BY <2>1 DEF CreateSubject
    <3> QED
      BY <1>0, <2>1, <3>1, CreateLasts, CreateIsSerial, CommitMaps
  <2>2. ASSUME NEW h \in Handlers,
               \/ \E s \in SubjectIds, op \in {"update", "deactivate"} : ReadSubject(h, op, s)
               \/ \E d \in DocIds, op \in {"patch", "delete"} : ReadDocument(h, op, d)
               \/ ReadDetails(h)
        PROVE  UNCHANGED <<register, stale>>
    BY <2>2 DEF ReadSubject, ReadDocument, ReadDetails, Receive
  <2>3. ASSUME NEW h \in Handlers, NEW new \in UpdatedRows(call[h].row),
               NEW key \in Keys \cup {None}, CommitUpdate(h, new, key)
        PROVE  [Register!Next]_(Register!vars)
    <3>1. stale => stale'
      BY <2>3 DEF CommitUpdate, Reply
    <3> QED
      BY <1>0, <2>3, <3>1, SubjectCallLasts, UpdateIsSerial, CommitMaps
  <2>4. ASSUME NEW h \in Handlers, CommitDeactivate(h) PROVE [Register!Next]_(Register!vars)
    <3>1. stale => stale'
      BY <2>4 DEF CommitDeactivate, Reply
    <3> QED
      BY <1>0, <2>4, <3>1, SubjectCallLasts, DeactivateIsSerial, CommitMaps
  <2>5. ASSUME NEW h \in Handlers,
               CommitDelete(h) \/ \E type \in ChosenTypes : CommitPatch(h, type)
        PROVE  [Register!Next]_(Register!vars)
    <3>1. stale => stale'
      BY <2>5 DEF CommitDelete, CommitPatch, Reply
    <3> QED
      BY <1>0, <2>5, <3>1, DocumentCallsLast, DocumentCallsAreSerial, CommitMaps
  <2>6. ASSUME NEW h \in Handlers, CallFails(h) PROVE UNCHANGED register /\ stale' = (stale \/ FALSE)
    BY <2>6 DEF CallFails, Reply
  <2>7. ASSUME NEW h \in Handlers, CallFails(h) PROVE UNCHANGED <<register, stale>>
    <3>1. stale \in BOOLEAN
      BY <1>0 DEF Bound, TypeOK, RegisterTypeOK
    <3> QED
      BY <2>6, <2>7, <3>1
  <2> QED
    BY <1>1, <1>5, <2>1, <2>2, <2>3, <2>4, <2>5, <2>7 DEF OperatorStep
<1> QED
  BY <1>1, <1>2, <1>3, <1>4, <1>5 DEF Next

(* Initially one subject is at a folder, and a file has one document.      *)
LEMMA RegisterInit == Init => Register!Init
<1> SUFFICES ASSUME Init PROVE Register!Init
  OBVIOUS
<1>1. RowsAreProper /\ FiledUnlessStale /\ stale = FALSE
  BY InitialInvariant DEF IInv, Init, NobodyAtWork
<1>2. ASSUME NEW x \in Files PROVE Register!DocsOf(x) = DocsOf(x, documents)
  BY DEF Register!DocsOf, DocsOf, Register!DocIds, DocIds
<1>3. \A x \in Files : \A d, e \in Register!DocsOf(x) : d = e
  BY <1>1, <1>2 DEF FiledUnlessStale
<1>4. \A s, o \in SubjectIds :
        /\ Register!Exists(s) /\ Register!Exists(o)
        /\ subject[s].path # None /\ subject[s].path = subject[o].path
        => s = o
  BY <1>1 DEF RowsAreProper, Exists, Register!Exists
<1> QED
  BY <1>1, <1>3, <1>4 DEF Register!Init

(* Imports and operators' calls implement SubjectRegister: each reads at   *)
(* one moment and commits at another, after others have committed, and     *)
(* acts nevertheless as one transaction at one instant, unless it or an    *)
(* earlier one commits over a row changed since it was read.               *)
THEOREM SerialRefinement == Spec => CommitsAreSerial
<1>1. Init => Register!Init
  BY RegisterInit
<1>2. IInv /\ [Next]_vars => [Register!Next]_(Register!vars)
  BY RegisterStep
<1> QED
  BY <1>1, <1>2, ImportInvariant, PTL DEF Spec, CommitsAreSerial, Register!Spec

-----------------------------------------------------------------------------
(* What a COMPLETED job has imported.                                      *)

(* No step removes a subject.                                              *)
LEMMA SubjectsStay ==
  ASSUME IInv, [Next]_vars
  PROVE  \A s \in SubjectIds : Exists(s) => Exists(s)'
<1>0. Bound /\ RegisterGood
  BY Parts
<1>1. CASE UNCHANGED subject
  BY <1>1 DEF Exists
<1>2. ASSUME NEW t \in Importers, ThreadStep(t), ~CommitItem(t) PROVE UNCHANGED subject
  BY <1>2 DEF ThreadStep, Discover, DiscoveryFails, Resume, StartJob, SelectItems, TakeItem,
     ListFilesAndLookUp, WriteSubject, WriteDetails, DetailsConflict, ReadDocuments,
     DocumentsConflict, FailItem, TallyItems, FinishJob, RegisterUntouched, register
<1>3. CASE OperatorStep
  <2>1. CASE Lasts
    BY <2>1 DEF Lasts
  <2>2. ASSUME NEW h \in Handlers,
               \/ \E s \in SubjectIds, op \in {"update", "deactivate"} : ReadSubject(h, op, s)
               \/ \E d \in DocIds, op \in {"patch", "delete"} : ReadDocument(h, op, d)
               \/ ReadDetails(h) \/ CallFails(h)
        PROVE  UNCHANGED subject
    BY <2>2 DEF ReadSubject, ReadDocument, ReadDetails, CallFails, Receive, register
  <2> QED
    BY <1>0, <1>1, <1>3, <2>1, <2>2, CreateLasts, SubjectCallLasts, DocumentCallsLast
       DEF OperatorStep
<1>4. CASE \/ \E t \in Importers, scope \in Scopes : Request(t, scope)
           \/ \E scope \in Scopes : Snapshot(scope)
           \/ Crash \/ UNCHANGED vars
  BY <1>1, <1>4 DEF Request, Snapshot, Crash, vars, RegisterUntouched, register
<1> QED
  BY <1>0, <1>1, <1>2, <1>3, <1>4, ImportLasts DEF Next, Lasts

(* An item of a job that is no snapshot becomes COMPLETED by a commit of   *)
(* the import of its folder alone, and then keeps its subject.             *)
LEMMA CompletedByImport ==
  ASSUME IInv, [Next]_vars, NEW j \in Jobs, NEW f \in Folders,
         item'[j][f].status = "completed", ~job'[j].preview
  PROVE  \/ /\ ~job[j].preview /\ item[j][f].status = "completed"
            /\ item'[j][f].sid = item[j][f].sid
         \/ \E t \in Importers : /\ CommitItem(t) /\ item'[j][f].sid = open[t].sid
                                /\ thread[t].folder = f
<1>0. Bound /\ RegisterGood
  BY Parts
<1>1. /\ job \in [Jobs -> JobRow] /\ item \in [Jobs -> [Folders -> ItemRow]]
  BY <1>0 DEF Bound, TypeOK
<1> DEFINE Kept == /\ ~job[j].preview /\ item[j][f].status = "completed"
                   /\ item'[j][f].sid = item[j][f].sid
<1>2. ASSUME item' = item, job'[j].preview = job[j].preview PROVE Kept
  BY <1>2
<1>3. ASSUME NEW t \in Importers, Resume(t) \/ StartJob(t) \/ FinishJob(t) PROVE Kept
  <2>1. PICK k \in Jobs : k = thread[t].job
    <3>1. thread[t].pc \in {"resume", "start", "finish"}
      BY <1>3 DEF Resume, StartJob, FinishJob
    <3> QED
      BY <1>0, <3>1, ThreadTyped DEF ThreadIsBound
  <2>2. PICK row : job' = [job EXCEPT ![k] = row] /\ row.preview = job[k].preview
    <3>0. job[k] \in JobRow
      BY <1>1
    <3> DEFINE resumed == [job[k] EXCEPT !.status = "pending"]
               started == [job[k] EXCEPT !.status =
                             Column(job[k].status, thread[t].seen.status, "running")]
               finished == FlushJob(job[k], thread[t].seen, thread[t].tally)
    <3>1. /\ resumed.preview = job[k].preview /\ started.preview = job[k].preview
          /\ finished.preview = job[k].preview
      BY <3>0 DEF JobRow, FlushJob
    <3>2. \/ job' = [job EXCEPT ![k] = resumed]
          \/ job' = [job EXCEPT ![k] = started]
          \/ job' = [job EXCEPT ![k] = finished]
      BY <1>1, <1>3, <2>1 DEF Resume, StartJob, FinishJob
    <3> HIDE DEF resumed, started, finished
    <3> QED
      BY <3>1, <3>2
  <2>3. item' = item
    BY <1>3 DEF Resume, StartJob, FinishJob
  <2>4. job'[j].preview = job[j].preview
    BY <1>1, <2>2
  <2> QED
    BY <1>2, <2>3, <2>4
<1>4. ASSUME NEW t \in Importers, Discover(t) PROVE Kept
  <2>1. PICK found \in Discoverable(thread[t].scope), k \in Jobs :
          /\ job' = [job EXCEPT ![k] = [AbsentJob EXCEPT !.status = "running",
                                                         !.scope = thread[t].scope]]
          /\ item' = [item EXCEPT ![k] =
                        [g \in Folders |->
                           IF g \in found THEN [AbsentItem EXCEPT !.status = "pending"]
                                          ELSE AbsentItem]]
    BY <1>4 DEF Discover
  <2>2. j # k
    BY <1>1, <2>1 DEF AbsentItem
  <2> QED
    BY <1>1, <2>1, <2>2
<1>5. ASSUME NEW scope \in Scopes, Snapshot(scope) PROVE Kept
  <2>1. PICK k, row, items :
          /\ k \in Jobs /\ row.preview = TRUE
          /\ job' = [job EXCEPT ![k] = row] /\ item' = [item EXCEPT ![k] = items]
    BY <1>5 DEF Snapshot
  <2>2. j # k
    BY <1>1, <2>1
  <2> QED
    BY <1>1, <2>1, <2>2
<1>6. ASSUME NEW t \in Importers, FailItem(t) \/ \E g \in Folders : TakeItem(t, g) PROVE Kept
  <2>1. PICK k \in Jobs : k = thread[t].job
    <3>1. thread[t].pc \in {"head", "list", "fail"}
      BY <1>6 DEF FailItem, TakeItem
    <3> QED
      BY <1>0, <3>1, ThreadTyped DEF ThreadIsBound
  <2>2. PICK g, row : /\ item' = [item EXCEPT ![k][g] = row]
                      /\ row.status \in {"failed", "processing"}
                      /\ g \in Folders
    <3>1. CASE FailItem(t)
      <4>1. thread[t].folder \in Folders
        BY <1>0, <3>1, ThreadTyped DEF ThreadIsBound, FailItem, OnItem, ItemsOf
      <4>2. /\ item' = [item EXCEPT ![k][thread[t].folder] = FailedItem(item[k][thread[t].folder])]
            /\ FailedItem(item[k][thread[t].folder]).status = "failed"
        BY <1>1, <2>1, <3>1, <4>1 DEF FailItem, FailedItem, ItemRow
      <4> QED
        BY <4>1, <4>2
    <3>2. ASSUME NEW g \in Folders, TakeItem(t, g)
          PROVE  \E row : /\ item' = [item EXCEPT ![k][g] = row]
                          /\ row.status = "processing"
      <4> DEFINE row == [item[k][g] EXCEPT !.status = "processing"]
      <4>1. row.status = "processing"
        BY <1>1 DEF ItemRow
      <4>2. item' = [item EXCEPT ![k][g] = row]
        BY <2>1, <3>2, <1>1 DEF TakeItem
      <4> HIDE DEF row
      <4> QED
        BY <4>1, <4>2
    <3> QED
      BY <1>6, <3>1, <3>2
  <2>3. job' = job
    BY <1>6 DEF FailItem, TakeItem
  <2>4. j # k \/ f # g
    BY <1>1, <2>2
  <2>5. item'[j][f] = item[j][f]
    BY <1>1, <2>2, <2>4
  <2> QED
    BY <2>3, <2>5
<1>7. ASSUME NEW t \in Importers, CommitItem(t), ~Kept
      PROVE  item'[j][f].sid = open[t].sid /\ thread[t].folder = f
  <2>1. /\ ItemSet(thread[t].job, thread[t].folder,
                   [status |-> "completed", sid |-> open[t].sid])
        /\ thread[t].folder \in Folders /\ thread[t].job \in Jobs /\ job' = job
    BY <1>0, <1>7, CommitWrites, CommitFinds DEF ThreadIsBound, CommitItem
  <2>2. CASE j = thread[t].job /\ f = thread[t].folder
    BY <1>1, <2>1, <2>2 DEF ItemSet
  <2>3. CASE ~(j = thread[t].job /\ f = thread[t].folder)
    <3>1. item'[j][f] = item[j][f]
      BY <1>1, <2>1, <2>3 DEF ItemSet
    <3> QED
      BY <1>7, <2>1, <3>1
  <2> QED
    BY <2>2, <2>3
<1>8. ASSUME NEW t \in Importers,
             \/ \E scope \in Scopes : Request(t, scope)
             \/ DiscoveryFails(t) \/ SelectItems(t) \/ ListFilesAndLookUp(t)
             \/ WriteSubject(t) \/ WriteDetails(t) \/ DetailsConflict(t)
             \/ ReadDocuments(t) \/ DocumentsConflict(t) \/ TallyItems(t)
      PROVE  Kept
  BY <1>2, <1>8 DEF Request, DiscoveryFails, SelectItems, ListFilesAndLookUp, WriteSubject,
     WriteDetails, DetailsConflict, ReadDocuments, DocumentsConflict, TallyItems
<1>9. ASSUME (OperatorStep /\ UNCHANGED imports) \/ Crash \/ UNCHANGED vars PROVE Kept
  BY <1>2, <1>9 DEF Crash, imports, vars
<1> HIDE DEF Kept
<1>10. Kept \/ \E t \in Importers : CommitItem(t) /\ ~Kept
  BY <1>3, <1>4, <1>5, <1>6, <1>8, <1>9 DEF Next, ThreadStep
<1> QED
  BY <1>7, <1>10 DEF Kept

(* Every COMPLETED item of a job that is no snapshot is of a folder that   *)
(* has been imported.                                                      *)
LEMMA ItemsImportedStep ==
  ASSUME IInv, ImportsAlone, ItemsAreImported, [Next]_vars
  PROVE  ItemsAreImported'
<1>0. Bound /\ RegisterGood
  BY Parts
<1> SUFFICES ASSUME NEW j \in Jobs, NEW f \in Folders,
                    ~job'[j].preview, item'[j][f].status = "completed"
             PROVE  Imported(j, f)'
  BY DEF ItemsAreImported
<1>1. CASE /\ ~job[j].preview /\ item[j][f].status = "completed"
           /\ item'[j][f].sid = item[j][f].sid
  <2>1. Imported(j, f)
    BY <1>1 DEF ItemsAreImported
  <2>2. PICK s \in SubjectIds : s = item[j][f].sid /\ s # None
    <3>1. item[j][f] \in ItemRow
      BY <1>0 DEF Bound, TypeOK
    <3> QED
      BY <2>1, <3>1 DEF Imported, ItemRow
  <2>3. Exists(s)'
    BY <2>1, <2>2, SubjectsStay DEF Imported
  <2>4. calls' = 0 => subject'[s].path = f
    BY <2>1, <2>2, AloneKeeps DEF Imported
  <2> QED
    BY <1>1, <2>2, <2>3, <2>4 DEF Imported, Exists
<1>2. ASSUME NEW t \in Importers, CommitItem(t), item'[j][f].sid = open[t].sid,
             thread[t].folder = f
      PROVE  Imported(j, f)'
  <2>1. PICK s \in SubjectIds : s = open[t].sid
    BY <1>0, <1>2, CommitFinds
  <2>2. /\ Exists(s)'
        /\ subject'[s].path = IF open[t].fresh THEN f ELSE subject[s].path
    BY <1>0, <1>2, <2>1, CommitLeaves
  <2>3. s # None
    BY <1>0, <1>2, <2>1, CommitFinds DEF WriteIsBound, HasWritten
  <2>4. ASSUME calls' = 0, ~open[t].fresh PROVE subject[s].path = f
    <3>1. calls = 0
      BY <2>4, AloneKeeps
    <3>2. /\ thread[t].pc = "commit" /\ WriteIsBound(t) /\ thread[t].row.path = f
      BY <1>0, <1>2, <2>4, CommitFinds
    <3>3. thread[t].sid = s
      BY <2>1, <2>3, <2>4, <3>2 DEF WriteIsBound
    <3> QED
      BY <2>3, <3>1, <3>2, <3>3 DEF ImportsAlone, ReadsStillTrue, HasWritten
  <2> QED
    BY <1>2, <2>1, <2>2, <2>3, <2>4 DEF Imported, Exists
<1> QED
  BY <1>1, <1>2, CompletedByImport

(* A COMPLETED job has imported every folder it discovered into a subject, *)
(* and counts them all, unless two threads worked on it at once or it is   *)
(* the snapshot of a preview: the statuses come from the count of its own  *)
(* items, and an item is COMPLETED by the commit of its import alone.      *)
THEOREM ImportSettlesJobs == Spec => []CompletedJobsAreSettled
<1>1. Init => ItemsAreImported
  BY DEF Init, ItemsAreImported, AbsentItem
<1>2. IInv /\ ImportsAlone /\ ItemsAreImported /\ [Next]_vars => ItemsAreImported'
  BY ItemsImportedStep
<1>3. IInv /\ ItemsAreImported => CompletedJobsAreSettled
  BY DEF IInv, CompletedMeansDone, ItemsAreImported, CompletedJobsAreSettled, AllDone, ItemsOf
<1> QED
  BY <1>1, <1>2, <1>3, ImportInvariant, AloneInvariant, PTL DEF Spec
=============================================================================
