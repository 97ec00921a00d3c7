------------------------------ MODULE NasSync ------------------------------
(***************************************************************************)
(* The synchronisation of the NAS directory: jobs that read users, groups, *)
(* shares and ACLs from the NAS over SSH, retry when the NAS fails, and    *)
(* apply what they read to the database in one transaction                 *)
(* (backend/app/services/sync.py), followed by a sync_runs row in a        *)
(* transaction of its own (backend/app/jobs/sync.py, services/sync_runs.py)*)
(* A job is an API call, a run of scripts/live_sync.py or a cycle of       *)
(* scripts/scheduled_live_sync.py; nothing keeps two from overlapping.     *)
(*                                                                         *)
(* The transaction runs under READ COMMITTED: it sees what others have     *)
(* committed, a row it has written stays locked until it ends, and a       *)
(* unique constraint on the name refuses a row inserted meanwhile.         *)
(*                                                                         *)
(* Abstracted away: the text of the listings, what an ACL grants (module   *)
(* EffectivePermissions; the rows it fills are never updated) and the delay*)
(* between attempts.  Of a payload the names remain that it brings, looked *)
(* up in any order.  A row is locked when its upsert runs (the session may *)
(* send the UPDATE with a later flush), and parent_id is compared with the *)
(* committed one (the session may hold one read when it looked the row up).*)
(***************************************************************************)
EXTENDS Naturals, FiniteSets

CONSTANTS
  LiveJobs,     \* executions of run_live_sync_job
  PayloadJobs,  \* calls of POST /sync/apply
  Accounts,     \* names of NAS users and groups
  Shares,       \* names of shares and of their subfolders
  Above,        \* Shares -> SUBSET Shares, the paths that are proper prefixes
  None,         \* no name, no parent
  MaxAttempts,  \* settings.sync_live_max_attempts
  MaxCrashes    \* bound: jobs whose process dies

Jobs == LiveJobs \cup PayloadJobs
Names == Accounts \cup Shares

ASSUME NasAssumption ==
  /\ LiveJobs \cap PayloadJobs = {}
  /\ Accounts \cap Shares = {}
  /\ None \notin Names
  /\ MaxAttempts \in Nat \ {0}
  /\ MaxCrashes \in Nat

(* The prefixes of a path are prefixes of one another.                     *)
ASSUME PathAssumption ==
  /\ Above \in [Shares -> SUBSET Shares]
  /\ \A s \in Shares : s \notin Above[s]
  /\ \A s \in Shares : \A t \in Above[s] : Above[t] \subseteq Above[s]
  /\ \A s \in Shares : \A t, u \in Above[s] : t = u \/ t \in Above[u] \/ u \in Above[t]

VARIABLES
  job,        \* per job: control state and locals
  snapshots,  \* the committed snapshots
  nextId,     \* the sequence behind snapshots.id, which no rollback rewinds
  lastSeen,   \* per name: last_seen_snapshot_id of its row, 0 without a row
  parent,     \* per share: parent_id of its row
  runs,       \* the sync_runs table
  overlapped, \* have two jobs been in progress at the same time?
  crashes     \* jobs that died so far

vars == <<job, snapshots, nextId, lastSeen, parent, runs, overlapped, crashes>>

-----------------------------------------------------------------------------
Pcs == {"new", "connect", "read", "apply", "write", "place", "commit",
        "record", "giveup", "done", "failed", "aborted", "dead"}
Ended == {"done", "failed", "aborted", "dead"}
InTransaction == {"apply", "write", "place", "commit"}

JobRecord == [pc : Pcs,
              attempt : Nat,
              payload : SUBSET Names,      \* the rows it brings
              toRead : SUBSET Shares,      \* ACL commands still to run
              todo : SUBSET Names,         \* rows still to upsert
              row : Names \cup {None},     \* the row being upserted
              known : BOOLEAN,             \* did its SELECT find one?
              id : Nat,                    \* snapshot.id
              written : SUBSET Names,      \* rows inserted or updated
              moved : SUBSET Shares,       \* rows whose parent_id changes
              place : [Shares -> Shares \cup {None}]]  \* their new parent_id

NewJob == [pc |-> "new", attempt |-> 1, payload |-> {},
           toRead |-> {}, todo |-> {}, row |-> None, known |-> FALSE, id |-> 0,
           written |-> {}, moved |-> {}, place |-> [s \in Shares |-> None]]

SnapshotRecord == [id : Nat, job : Jobs, payload : SUBSET Names]
RunRecord == [job : Jobs, status : {"succeeded", "failed"}, attempts : Nat,
              snapshot : Nat]              \* 0 is NULL

Step(j, record) == job' = [job EXCEPT ![j] = record]

Finish_NoRollback(j, pc) == Step(j, [job[j] EXCEPT !.pc = pc])

(* The job ends; an open transaction is rolled back, its locks released.   *)
Finish(j, pc) == Step(j, [NewJob EXCEPT !.pc = pc])

InProgress(j) == job[j].pc \notin {"new"} \cup Ended

Starts(j) ==
  overlapped' = (overlapped \/ \E k \in Jobs \ {j} : InProgress(k))

tables == <<snapshots, lastSeen, parent, runs>>

-----------------------------------------------------------------------------
(* Reading the NAS.                                                        *)

StartLive(j) ==
  /\ j \in LiveJobs
  /\ job[j].pc = "new"
  /\ Step(j, [job[j] EXCEPT !.pc = "connect"])
  /\ Starts(j)
  /\ UNCHANGED <<tables, nextId, crashes>>

Listings_BlankLine == SUBSET (Accounts \cup {None})

(* What a passwd and a group listing may bring: accounts come and go.      *)
Listings == SUBSET Accounts

(* The operator pastes what the NAS printed, or part of it.                *)
SubmitPayload(j) ==
  /\ j \in PayloadJobs
  /\ job[j].pc = "new"
  /\ \E L \in Listings, S \in SUBSET Shares :
       Step(j, [job[j] EXCEPT !.pc = "read", !.payload = L \cup S])
  /\ Starts(j)
  /\ UNCHANGED <<tables, nextId, crashes>>

(* passwd, group and share listings arrived.                               *)
ListDirectory(j) ==
  /\ job[j].pc = "connect"
  /\ \E L \in Listings :
       Step(j, [job[j] EXCEPT !.pc = "read", !.payload = L, !.toRead = Shares])
  /\ UNCHANGED <<tables, nextId, overlapped, crashes>>

(* One of them did not: NasConnectorError, and another attempt if any left.*)

AfterNasError_GoesOn(record) ==
  IF record.attempt < MaxAttempts
  THEN [record EXCEPT !.attempt = @ + 1] ELSE [record EXCEPT !.pc = "record"]

AfterNasError(record) ==
  IF record.attempt < MaxAttempts
  THEN [record EXCEPT !.attempt = @ + 1] ELSE [record EXCEPT !.pc = "giveup"]

NasFails(j) ==
  /\ job[j].pc = "connect"
  /\ Step(j, AfterNasError(job[j]))
  /\ UNCHANGED <<tables, nextId, overlapped, crashes>>

(* A share that is gone, or whose ACL or enumeration fails, is left out.   *)
ReadAcl(j, s) ==
  /\ job[j].pc = "read"
  /\ s \in job[j].toRead
  /\ \E answer \in {{s}, {}} :
       Step(j, [job[j] EXCEPT !.toRead = @ \ {s}, !.payload = @ \cup answer])
  /\ UNCHANGED <<tables, nextId, overlapped, crashes>>

-----------------------------------------------------------------------------
(* Applying the payload: one transaction.                                  *)

OpenSnapshot(j) ==
  /\ job[j].pc = "read"
  /\ job[j].toRead = {}
  /\ nextId' = nextId + 1
  /\ Step(j, [job[j] EXCEPT !.pc = "apply", !.id = nextId + 1,
                            !.todo = job[j].payload])
  /\ UNCHANGED <<tables, overlapped, crashes>>

LookUp(j, n) ==
  /\ job[j].pc = "apply"
  /\ n \in job[j].todo
  /\ Step(j, [job[j] EXCEPT !.pc = "write", !.row = n,
                            !.known = lastSeen[n] # 0])
  /\ UNCHANGED <<tables, nextId, overlapped, crashes>>

Locked(k) == job[k].written \cup (IF job[k].pc = "commit" THEN job[k].moved ELSE {})

(* The rows job j is about to write.                                       *)
Wanted(j) == IF job[j].pc = "write" THEN {job[j].row}
             ELSE IF job[j].pc = "place" THEN job[j].moved ELSE {}

WaitsFor(j, k) == j # k /\ Wanted(j) \cap Locked(k) # {}

HasLocks(j) == \A k \in Jobs : ~WaitsFor(j, k)

(* An INSERT of a name that another job has committed since the SELECT.    *)
Duplicate(j) == ~job[j].known /\ lastSeen[job[j].row] # 0

(* A commit after every row instead of one for the transaction.            *)
Upsert_CommitsEach(j) ==
  /\ job[j].pc = "write"
  /\ HasLocks(j)
  /\ ~Duplicate(j)
  /\ Step(j, [job[j] EXCEPT !.pc = "apply", !.todo = @ \ {job[j].row},
                            !.row = None, !.known = FALSE])
  /\ lastSeen' = [lastSeen EXCEPT ![job[j].row] = job[j].id]
  /\ UNCHANGED <<snapshots, parent, runs, nextId, overlapped, crashes>>

Upsert(j) ==
  /\ job[j].pc = "write"
  /\ HasLocks(j)
  /\ ~Duplicate(j)
  /\ Step(j, [job[j] EXCEPT !.pc = "apply", !.todo = @ \ {job[j].row},
                            !.written = @ \cup {job[j].row},
                            !.row = None, !.known = FALSE])
  /\ UNCHANGED <<tables, nextId, overlapped, crashes>>

(* An exception of the database is no NasConnectorError: no retry, no run. *)
RefuseDuplicate(j) ==
  /\ job[j].pc = "write"
  /\ HasLocks(j)
  /\ Duplicate(j)
  /\ Finish(j, "aborted")
  /\ UNCHANGED <<tables, nextId, overlapped, crashes>>

(* The database picks a victim among jobs that wait for one another.       *)
BreakDeadlock(j) ==
  /\ \E S \in SUBSET Jobs :
       /\ j \in S
       /\ \A k \in S : \E l, m \in S : WaitsFor(k, l) /\ WaitsFor(m, k)
  /\ Finish(j, "aborted")
  /\ UNCHANGED <<tables, nextId, overlapped, crashes>>

(* t is the longest of the paths of V above s.                             *)
Deepest(t, s, V) ==
  t \in Above[s] \cap V /\ (Above[s] \cap V) \ {t} \subseteq Above[t]

ParentIn(s, V) ==
  IF \E t \in Shares : Deepest(t, s, V)
  THEN CHOOSE t \in Shares : Deepest(t, s, V) ELSE None

KnownShares == {s \in Shares : lastSeen[s] # 0}

(* The share rows job j sees: the committed ones and its own.              *)
SeenShares(j) == KnownShares \cup (job[j].written \cap Shares)

PlanParents(j) ==
  LET seen == SeenShares(j)
  IN /\ job[j].pc = "apply"
     /\ job[j].todo = {}
     /\ Step(j, [job[j] EXCEPT
                   !.pc = "place",
                   !.moved = {s \in seen : ParentIn(s, seen) # parent[s]},
                   !.place = [s \in Shares |-> ParentIn(s, seen)]])
     /\ UNCHANGED <<tables, nextId, overlapped, crashes>>

WriteParents(j) ==
  /\ job[j].pc = "place"
  /\ HasLocks(j)
  /\ Step(j, [job[j] EXCEPT !.pc = "commit"])
  /\ UNCHANGED <<tables, nextId, overlapped, crashes>>

SeenBy_NewRowsOnly(record, n, seen) ==
  IF n \in record.written /\ seen = 0 THEN record.id ELSE seen

SeenBy_NewestId(record, n, seen) == IF n \in record.written THEN nextId ELSE seen

SeenBy(record, n, seen) == IF n \in record.written THEN record.id ELSE seen

PlacedBy_OwnRows(record, s, old) ==
  IF s \in record.moved \cap record.written THEN record.place[s] ELSE old

PlacedBy(record, s, old) == IF s \in record.moved THEN record.place[s] ELSE old

Commit(j) ==
  LET me == job[j]
  IN /\ me.pc = "commit"
     /\ lastSeen' = [n \in Names |-> SeenBy(me, n, lastSeen[n])]
     /\ parent' = [s \in Shares |-> PlacedBy(me, s, parent[s])]
     /\ snapshots' = snapshots \cup {[id |-> me.id, job |-> j, payload |-> me.payload]}
     /\ Step(j, [NewJob EXCEPT !.pc = "record", !.attempt = me.attempt, !.id = me.id])
     /\ UNCHANGED <<nextId, runs, overlapped, crashes>>

(* A value too long for its column: source_summary holds 255 characters.   *)
RefuseValue(j) ==
  /\ job[j].pc = "commit"
  /\ Finish(j, "aborted")
  /\ UNCHANGED <<tables, nextId, overlapped, crashes>>

-----------------------------------------------------------------------------
(* The sync_runs row.                                                      *)

RecordSuccess(j) ==
  /\ job[j].pc = "record"
  /\ runs' = runs \cup {[job |-> j, status |-> "succeeded",
                         attempts |-> job[j].attempt, snapshot |-> job[j].id]}
  /\ Finish(j, "done")
  /\ UNCHANGED <<snapshots, lastSeen, parent, nextId, overlapped, crashes>>

RecordFailure(j) ==
  /\ job[j].pc = "giveup"
  /\ runs' = runs \cup {[job |-> j, status |-> "failed",
                         attempts |-> MaxAttempts, snapshot |-> 0]}
  /\ Finish(j, "failed")
  /\ UNCHANGED <<snapshots, lastSeen, parent, nextId, overlapped, crashes>>

-----------------------------------------------------------------------------
Crash(j) ==
  /\ InProgress(j)
  /\ crashes < MaxCrashes
  /\ crashes' = crashes + 1
  /\ Finish(j, "dead")
  /\ UNCHANGED <<tables, nextId, overlapped>>

Init ==
  /\ job = [j \in Jobs |-> NewJob]
  /\ snapshots = {}
  /\ nextId = 0
  /\ lastSeen = [n \in Names |-> 0]
  /\ parent = [s \in Shares |-> None]
  /\ runs = {}
  /\ overlapped = FALSE
  /\ crashes = 0

Progress(j) ==
  \/ ListDirectory(j)
  \/ NasFails(j)
  \/ \E s \in Shares : ReadAcl(j, s)
  \/ OpenSnapshot(j)
  \/ \E n \in Names : LookUp(j, n)
  \/ Upsert(j)
  \/ RefuseDuplicate(j)
  \/ BreakDeadlock(j)
  \/ PlanParents(j)
  \/ WriteParents(j)
  \/ Commit(j)
  \/ RefuseValue(j)
  \/ RecordSuccess(j)
  \/ RecordFailure(j)

Next == \E j \in Jobs : StartLive(j) \/ SubmitPayload(j) \/ Progress(j) \/ Crash(j)

Spec == Init /\ [][Next]_vars

(* A job that has begun keeps running: it is a thread or a process, and    *)
(* the database resolves deadlocks.  Assumed of the NAS: every command     *)
(* ends or its connection fails (recv_exit_status waits without timeout).  *)
FairSpec == Spec /\ \A j \in Jobs : WF_vars(Progress(j))

-----------------------------------------------------------------------------
(* Jobs, tables and the sequence of snapshot ids are of their types.       *)
TypeOK ==
  /\ job \in [Jobs -> JobRecord]
  /\ snapshots \subseteq SnapshotRecord
  /\ nextId \in Nat
  /\ lastSeen \in [Names -> Nat]
  /\ parent \in [Shares -> Shares \cup {None}]
  /\ runs \subseteq RunRecord
  /\ overlapped \in BOOLEAN
  /\ crashes \in Nat

(* However jobs overlap, abort and die, last_seen_snapshot_id (which is no *)
(* foreign key) names a committed snapshot whose payload had that name.    *)
LastSeenIsTrue ==
  \A n \in Names :
    lastSeen[n] # 0 =>
      \E x \in snapshots : x.id = lastSeen[n] /\ n \in x.payload

(* The audit trail is truthful: a "succeeded" run names the snapshot its   *)
(* job committed, a "failed" one used all attempts and its job changed     *)
(* nothing, and neither a retry nor anything else makes one job commit two *)
(* snapshots or record two runs.                                           *)
RunsTellTheTruth ==
  /\ \A r \in runs :
       IF r.status = "succeeded"
       THEN r.attempts <= MaxAttempts
            /\ \E x \in snapshots : x.id = r.snapshot /\ x.job = r.job
       ELSE r.attempts = MaxAttempts /\ \A x \in snapshots : x.job # r.job
  /\ \A x, y \in snapshots : x.job = y.job \/ x.id = y.id => x = y
  /\ \A r, q \in runs : r.job = q.job => r = q

(* As long as no two jobs overlapped, the rows last seen in the newest     *)
(* snapshot are exactly those its payload had: a row with an older one has *)
(* left the NAS, or could not be read.                                     *)
NewestSnapshotOwnsItsRows ==
  overlapped \/ \A x \in snapshots :
    (\A y \in snapshots : y.id <= x.id) =>
      \A n \in Names : lastSeen[n] = x.id <=> n \in x.payload

(* As long as no two jobs overlapped, every share hangs under the deepest  *)
(* known folder that contains it, folders discovered later included.       *)
ParentsAreInferred ==
  overlapped \/ \A s \in KnownShares : parent[s] = ParentIn(s, KnownShares)

(* A job that has begun ends, whatever the NAS answers and however the     *)
(* transactions wait for one another.                                      *)
JobsEnd == \A j \in Jobs : InProgress(j) ~> job[j].pc \in Ended

-----------------------------------------------------------------------------
(* The inductive invariant behind the properties above.                    *)

(* No two snapshots, committed or being written, share an id.              *)
IdsAreIssued ==
  /\ \A x \in snapshots : x.id \in 1..nextId
  /\ \A j \in Jobs :
       job[j].pc \in InTransaction =>
         /\ job[j].id \in 1..nextId
         /\ \A x \in snapshots : x.id # job[j].id
         /\ \A k \in Jobs : job[k].pc \in InTransaction /\ job[k].id = job[j].id => k = j

(* What the tables say of a job agrees with where it stands.               *)
TablesFollowJobs ==
  /\ \A x \in snapshots : job[x.job].pc \in {"record", "done", "dead"}
  /\ \A r \in runs :
       job[r.job].pc = IF r.status = "succeeded" THEN "done" ELSE "failed"
  /\ \A j \in Jobs :
       job[j].pc = "record" =>
         \E x \in snapshots : x.id = job[j].id /\ x.job = j
  /\ \A j \in Jobs : job[j].attempt <= MaxAttempts

(* A job has written, or has still to write, each row of its payload.      *)
WritesCoverPayload ==
  \A j \in Jobs :
    /\ job[j].pc \in {"apply", "write"} =>
         job[j].todo \cup job[j].written = job[j].payload
    /\ job[j].pc = "write" => job[j].row \in job[j].todo
    /\ job[j].pc \notin InTransaction => job[j].written = {}
    /\ job[j].pc \in {"place", "commit"} =>
         job[j].written = job[j].payload

(* Without overlap one job runs at a time; the tables it read are still    *)
(* what they were, and its snapshot is the newest.                         *)
AloneIsUndisturbed ==
  overlapped \/
    /\ \A j, k \in Jobs : InProgress(j) /\ InProgress(k) => j = k
    /\ \A j \in Jobs :
         /\ job[j].pc \in InTransaction => job[j].id = nextId
         /\ job[j].pc \in {"place", "commit"} =>
              /\ job[j].moved =
                   {s \in SeenShares(j) : ParentIn(s, SeenShares(j)) # parent[s]}
              /\ job[j].place = [s \in Shares |-> ParentIn(s, SeenShares(j))]

(* What every step of a sync job keeps, whatever the others do.            *)
IInv ==
  /\ TypeOK
  /\ IdsAreIssued
  /\ TablesFollowJobs
  /\ WritesCoverPayload
  /\ AloneIsUndisturbed
  /\ LastSeenIsTrue
  /\ RunsTellTheTruth
  /\ NewestSnapshotOwnsItsRows
  /\ ParentsAreInferred

-----------------------------------------------------------------------------
(* The jobs as one way to apply listings to a directory: what a job does   *)
(* between its first SELECT and its commit takes effect at the commit.     *)

StageOf(pc) ==
  IF pc = "new" THEN "waiting"
  ELSE IF pc = "record" THEN "applied"
  ELSE IF pc \in Ended THEN "over" ELSE "running"

Directory == INSTANCE DirectorySnapshots WITH
               stage <- [j \in Jobs |-> StageOf(job[j].pc)],
               issued <- nextId

(* Whatever retries, locks, refused rows, deadlocks and deaths do: a job   *)
(* applies one listing whole, rows and parents at one instant, or nothing; *)
(* no id is used twice; sync_runs says only what happened.                 *)
SyncsAreAtomic == Directory!Spec

(* The parents a job is about to write were inferred from the rows it has  *)
(* written and some that others had committed; the latter stay.            *)
PlansFollowTables ==
  \A j \in Jobs :
    job[j].pc \in {"place", "commit"} =>
      \E V \in SUBSET Shares :
        /\ job[j].written \cap Shares \subseteq V
        /\ V \subseteq SeenShares(j)
        /\ job[j].moved \subseteq V
        /\ job[j].place = [s \in Shares |-> ParentIn(s, V)]

(* A job's first attempt has the number 1.                                 *)
AttemptsAreCounted == \A j \in Jobs : job[j].attempt >= 1

(* However jobs overlap, a share hangs under a folder that contains it and *)
(* has a row of its own: parent_id never dangles and never makes a cycle.  *)
ParentsContainTheirs ==
  \A s \in Shares :
    parent[s] # None => parent[s] \in Above[s] /\ {s, parent[s]} \subseteq KnownShares

-----------------------------------------------------------------------------
(* DEPLOYMENT.md: every sync that was applied is registered in sync_runs;  *)
(* the row may be missing only while its job is still about to write it.   *)
AppliedSyncsAreRegistered ==
  \A x \in snapshots :
    job[x.job].pc = "record" \/ \E r \in runs : r.snapshot = x.id
=============================================================================
