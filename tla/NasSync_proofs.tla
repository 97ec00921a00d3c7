--------------------------- MODULE NasSync_proofs ---------------------------
(* Proofs about NasSync, for every set of jobs, accounts and nested shares.*)
(* Most steps move one job and leave the tables alone: QuietStep says once *)
(* what such a step must respect.  The others are Commit and the two       *)
(* writers of sync_runs.                                                   *)
EXTENDS NasSync, TLAPS

USE NasAssumption

(* What a step that replaces the record of one job does to job.            *)
LEMMA StepFacts ==
  ASSUME NEW j \in Jobs, NEW rec, job \in [Jobs -> JobRecord], Step(j, rec)
  PROVE  /\ job'[j] = rec
         /\ \A k \in Jobs \ {j} : job'[k] = job[k]
         /\ rec \in JobRecord => job' \in [Jobs -> JobRecord]
  BY DEF Step

LEMMA ParentInType == \A s \in Shares : \A V : ParentIn(s, V) \in Shares \cup {None}
  <1> SUFFICES ASSUME NEW s \in Shares, NEW V
               PROVE  ParentIn(s, V) \in Shares \cup {None}
    OBVIOUS
  <1>1. CASE \E t \in Shares : Deepest(t, s, V)
    <2>1. (CHOOSE t \in Shares : Deepest(t, s, V)) \in Shares
      BY <1>1
    <2> QED
      BY <1>1, <2>1 DEF ParentIn
  <1>2. CASE ~\E t \in Shares : Deepest(t, s, V)
    BY <1>2 DEF ParentIn
  <1> QED
    BY <1>1, <1>2

LEMMA InitInv == Init => IInv
  <1> SUFFICES ASSUME Init PROVE IInv
    OBVIOUS
  <1>1. NewJob \in JobRecord /\ NewJob.pc = "new" /\ NewJob.attempt = 1
    BY DEF NewJob, JobRecord, Pcs
  <1>2. TypeOK
    BY <1>1 DEF Init, TypeOK
  <1>3. \A j \in Jobs : job[j] = NewJob
    BY DEF Init
  <1>4. IdsAreIssued
    BY <1>1, <1>3 DEF Init, IdsAreIssued, InTransaction
  <1>5. TablesFollowJobs
    BY <1>1, <1>3 DEF Init, TablesFollowJobs
  <1>6. WritesCoverPayload
    <2>1. NewJob.written = {}
      BY DEF NewJob
    <2> QED
      BY <1>1, <1>3, <2>1 DEF WritesCoverPayload
  <1>7. AloneIsUndisturbed
    BY <1>1, <1>3 DEF AloneIsUndisturbed, InProgress, InTransaction
  <1>8. LastSeenIsTrue /\ RunsTellTheTruth /\ NewestSnapshotOwnsItsRows
    BY DEF Init, LastSeenIsTrue, RunsTellTheTruth, NewestSnapshotOwnsItsRows
  <1>9. ParentsAreInferred
    BY DEF Init, ParentsAreInferred, KnownShares, Names
  <1> QED
    BY <1>2, <1>4, <1>5, <1>6, <1>7, <1>8, <1>9 DEF IInv

-----------------------------------------------------------------------------
(* What the invariant asks of the record of one job, and of its snapshot   *)
(* id when it begins to apply.                                             *)
Fits(j, rec) ==
  /\ rec \in JobRecord
  /\ rec.attempt <= MaxAttempts
  /\ rec.pc \in {"apply", "write"} => rec.todo \cup rec.written = rec.payload
  /\ rec.pc = "write" => rec.row \in rec.todo
  /\ rec.pc \notin InTransaction => rec.written = {}
  /\ rec.pc \in {"place", "commit"} => rec.written = rec.payload
  /\ job[j].pc \notin Ended
  /\ rec.pc # "record"
  /\ job[j].pc = "record" => rec.pc = "dead"

KeepsId(j, rec) ==
  /\ nextId' = nextId
  /\ rec.pc \in InTransaction => job[j].pc \in InTransaction /\ rec.id = job[j].id

TakesId(j, rec) ==
  /\ nextId' = nextId + 1
  /\ rec.pc \in InTransaction /\ rec.id = nextId + 1
  /\ job[j].pc = "read"

(* The parents a job is about to write are those it would infer now, or    *)
(* were planned before.                                                    *)
KeepsPlan(j, rec) ==
  rec.pc \in {"place", "commit"} =>
    LET seen == KnownShares \cup (rec.written \cap Shares)
    IN \/ /\ rec.moved = {s \in seen : ParentIn(s, seen) # parent[s]}
          /\ rec.place = [s \in Shares |-> ParentIn(s, seen)]
       \/ /\ job[j].pc = "place"
          /\ rec.moved = job[j].moved /\ rec.place = job[j].place
          /\ rec.written = job[j].written

KeepsOverlap(j, rec) ==
  \/ overlapped' = overlapped /\ (rec.pc \in Ended \/ InProgress(j))
  \/ Starts(j) /\ rec.pc \notin {"place", "commit"} \cup InTransaction

LEMMA QuietStep ==
  ASSUME IInv, NEW j \in Jobs, NEW rec, Step(j, rec),
         UNCHANGED tables, crashes' \in Nat,
         Fits(j, rec), KeepsId(j, rec) \/ TakesId(j, rec),
         KeepsPlan(j, rec), KeepsOverlap(j, rec)
  PROVE  IInv'
  <1> USE DEF IInv
  <1>1. /\ job'[j] = rec /\ rec \in JobRecord
        /\ \A k \in Jobs \ {j} : job'[k] = job[k]
        /\ job' \in [Jobs -> JobRecord]
    BY StepFacts DEF TypeOK, Fits
  <1>2. /\ snapshots' = snapshots /\ lastSeen' = lastSeen
        /\ parent' = parent /\ runs' = runs
    BY DEF tables
  <1>3. overlapped' \in BOOLEAN /\ (overlapped => overlapped')
    BY DEF KeepsOverlap, Starts, TypeOK
  <1>4. nextId' \in Nat /\ nextId' >= nextId
    BY DEF KeepsId, TakesId, TypeOK
  <1>5. TypeOK'
    BY <1>1, <1>2, <1>3, <1>4 DEF TypeOK
  <1>6. IdsAreIssued'
    <2>1. \A x \in snapshots : x.id \in 1..nextId'
      <3>1. \A x \in snapshots : x.id \in 1..nextId
        BY DEF IdsAreIssued
      <3> QED
        BY <3>1, <1>4 DEF TypeOK
    <2>2. ASSUME NEW k \in Jobs, job'[k].pc \in InTransaction
          PROVE  /\ job'[k].id \in 1..nextId'
                 /\ \A x \in snapshots : x.id # job'[k].id
                 /\ \A l \in Jobs : job'[l].pc \in InTransaction
                                      /\ job'[l].id = job'[k].id => l = k
      <3>1. CASE KeepsId(j, rec)
        <4>1. \A l \in Jobs : job'[l].pc \in InTransaction =>
                job[l].pc \in InTransaction /\ job'[l].id = job[l].id
          BY <1>1, <3>1 DEF KeepsId
        <4> QED
          BY <2>2, <3>1, <4>1 DEF IdsAreIssued, KeepsId
      <3>2. CASE TakesId(j, rec)
        <4>1. \A l \in Jobs \ {j} : job'[l].pc \in InTransaction =>
                job'[l].id \in 1..nextId /\ job'[l].id # nextId + 1
          BY <1>1 DEF IdsAreIssued, TypeOK
        <4>2. job'[j].id = nextId + 1 /\ nextId' = nextId + 1
          BY <1>1, <3>2 DEF TakesId
        <4>3. \A x \in snapshots : x.id # nextId + 1
          BY DEF IdsAreIssued, TypeOK
        <4>4. CASE k = j
          BY <4>1, <4>2, <4>3, <4>4 DEF TypeOK
        <4>5. CASE k # j
          <5>1. job'[k] = job[k] /\ job[k].pc \in InTransaction
            BY <1>1, <2>2, <4>5
          <5>2. job[k].id \in 1..nextId /\ \A x \in snapshots : x.id # job[k].id
            BY <5>1 DEF IdsAreIssued
          <5>3. \A l \in Jobs \ {j} : job'[l].pc \in InTransaction
                                      /\ job'[l].id = job[k].id => l = k
            BY <1>1, <5>1 DEF IdsAreIssued
          <5>4. job'[j].id # job[k].id
            BY <5>2, <4>2 DEF TypeOK
          <5> QED
            BY <4>2, <5>1, <5>2, <5>3, <5>4 DEF TypeOK
        <4> QED
          BY <4>4, <4>5
      <3> QED
        BY <3>1, <3>2
    <2> QED
      BY <1>2, <2>1, <2>2 DEF IdsAreIssued
  <1>7. TablesFollowJobs'
    <2>1. ASSUME NEW x \in snapshots PROVE job'[x.job].pc \in {"record", "done", "dead"}
      <3>1. x.job \in Jobs /\ job[x.job].pc \in {"record", "done", "dead"}
        BY DEF TablesFollowJobs, TypeOK, SnapshotRecord
      <3>2. x.job = j => rec.pc = "dead"
        BY <3>1 DEF Fits, Ended
      <3> QED
        BY <1>1, <3>1, <3>2
    <2>2. ASSUME NEW r \in runs
          PROVE  job'[r.job].pc = IF r.status = "succeeded" THEN "done" ELSE "failed"
      <3>1. /\ r.job \in Jobs
            /\ job[r.job].pc = IF r.status = "succeeded" THEN "done" ELSE "failed"
        BY DEF TablesFollowJobs, TypeOK, RunRecord
      <3>2. r.job # j
        BY <3>1 DEF Fits, Ended
      <3> QED
        BY <1>1, <3>1, <3>2
    <2>3. ASSUME NEW k \in Jobs
          PROVE  /\ job'[k].pc = "record" =>
                      \E x \in snapshots : x.id = job'[k].id /\ x.job = k
                 /\ job'[k].attempt <= MaxAttempts
      BY <1>1 DEF TablesFollowJobs, Fits
    <2> QED
      BY <1>2, <2>1, <2>2, <2>3 DEF TablesFollowJobs
  <1>8. WritesCoverPayload'
    BY <1>1 DEF WritesCoverPayload, Fits
  <1>9. AloneIsUndisturbed'
    <2> SUFFICES ASSUME ~overlapped' PROVE AloneIsUndisturbed'
      BY DEF AloneIsUndisturbed
    <2>1. \A k, l \in Jobs : InProgress(k)' /\ InProgress(l)' => k = l
      <3>1. CASE overlapped' = overlapped /\ (rec.pc \in Ended \/ InProgress(j))
        <4>1. \A k \in Jobs : InProgress(k)' => InProgress(k)
          BY <1>1, <3>1 DEF InProgress
        <4> QED
          BY <3>1, <4>1 DEF AloneIsUndisturbed
      <3>2. CASE Starts(j)
        <4>1. \A k \in Jobs \ {j} : ~InProgress(k)
          BY <3>2 DEF Starts
        <4>2. \A k \in Jobs \ {j} : ~InProgress(k)'
          BY <1>1, <4>1 DEF InProgress
        <4> QED
          BY <4>2
      <3> QED
        BY <3>1, <3>2 DEF KeepsOverlap
    <2>2. ASSUME NEW k \in Jobs, job'[k].pc \in InTransaction
          PROVE  job'[k].id = nextId'
      <3>1. CASE KeepsId(j, rec)
        BY <1>1, <1>3, <2>2, <3>1 DEF AloneIsUndisturbed, KeepsId
      <3>2. CASE TakesId(j, rec)
        <4>1. InProgress(j)' /\ InProgress(k)'
          BY <1>1, <2>2, <3>2 DEF TakesId, InProgress, InTransaction, Ended
        <4> QED
          BY <1>1, <2>1, <3>2, <4>1 DEF TakesId
      <3> QED
        BY <3>1, <3>2
    <2>3. ASSUME NEW k \in Jobs, job'[k].pc \in {"place", "commit"}
          PROVE  /\ job'[k].moved = {s \in SeenShares(k)' : ParentIn(s, SeenShares(k)') # parent[s]}
                 /\ job'[k].place = [s \in Shares |-> ParentIn(s, SeenShares(k)')]
      <3>1. KnownShares' = KnownShares
        BY <1>2 DEF KnownShares
      <3>2. CASE k # j
        <4>1. job'[k] = job[k]
          BY <1>1, <3>2
        <4>2. SeenShares(k)' = SeenShares(k)
          BY <3>1, <4>1 DEF SeenShares
        <4> QED
          BY <1>3, <2>3, <4>1, <4>2 DEF AloneIsUndisturbed
      <3>3. CASE k = j
        <4>1. SeenShares(j)' = KnownShares \cup (rec.written \cap Shares)
          BY <1>1, <3>1 DEF SeenShares
        <4>2. CASE /\ job[j].pc = "place"
                   /\ rec.moved = job[j].moved /\ rec.place = job[j].place
                   /\ rec.written = job[j].written
          <5>1. SeenShares(j)' = SeenShares(j)
            BY <4>1, <4>2 DEF SeenShares
          <5> QED
            BY <1>1, <1>3, <3>3, <4>2, <5>1 DEF AloneIsUndisturbed
        <4> QED
          BY <1>1, <2>3, <3>3, <4>1, <4>2 DEF KeepsPlan
      <3> QED
        BY <3>2, <3>3
    <2> QED
      BY <1>2, <2>1, <2>2, <2>3 DEF AloneIsUndisturbed
  <1>10. LastSeenIsTrue' /\ RunsTellTheTruth'
    BY <1>2 DEF LastSeenIsTrue, RunsTellTheTruth
  <1>11. NewestSnapshotOwnsItsRows'
    BY <1>2, <1>3 DEF NewestSnapshotOwnsItsRows
  <1>12. ParentsAreInferred'
    <2>1. KnownShares' = KnownShares
      BY <1>2 DEF KnownShares
    <2> QED
      BY <1>2, <1>3, <2>1 DEF ParentsAreInferred
  <1> QED
    BY <1>5, <1>6, <1>7, <1>8, <1>9, <1>10, <1>11, <1>12
-----------------------------------------------------------------------------
(* The jobs that read the NAS, and those that only move inside their       *)
(* transaction.                                                            *)

LEMMA RecordFacts ==
  ASSUME IInv, NEW j \in Jobs
  PROVE  /\ job[j] \in JobRecord
         /\ job[j].attempt \in Nat /\ job[j].attempt <= MaxAttempts
         /\ job[j].id \in Nat
         /\ job[j].payload \subseteq Names /\ job[j].todo \subseteq Names
         /\ job[j].written \subseteq Names
         /\ job[j].pc \notin InTransaction => job[j].written = {}
  BY DEF IInv, TypeOK, TablesFollowJobs, WritesCoverPayload, JobRecord

LEMMA StartingInv ==
  ASSUME IInv, NEW j \in Jobs, StartLive(j) \/ SubmitPayload(j)
  PROVE  IInv'
  <1> DEFINE Begun(S) == [job[j] EXCEPT !.pc = "read", !.payload = S]
  <1>1. CASE StartLive(j)
    <2> DEFINE rec == [job[j] EXCEPT !.pc = "connect"]
    <2>1. Step(j, rec) /\ Starts(j) /\ UNCHANGED tables /\ UNCHANGED nextId
          /\ UNCHANGED crashes /\ job[j].pc = "new"
      BY <1>1 DEF StartLive
    <2>2. Fits(j, rec) /\ rec.pc = "connect"
      <3>1. rec \in JobRecord /\ rec.pc = "connect" /\ rec.attempt <= MaxAttempts
            /\ rec.written = {}
        BY <2>1, RecordFacts DEF JobRecord, Pcs, InTransaction
      <3> HIDE DEF rec
      <3> QED
        BY <2>1, <3>1 DEF Fits, Ended
    <2> HIDE DEF rec
    <2>3. KeepsId(j, rec) /\ KeepsPlan(j, rec) /\ KeepsOverlap(j, rec)
      BY <2>1, <2>2 DEF KeepsId, KeepsPlan, KeepsOverlap, InTransaction
    <2>4. crashes' \in Nat
      BY <2>1 DEF IInv, TypeOK
    <2> QED
      BY <2>1, <2>2, <2>3, <2>4, QuietStep
  <1>2. CASE SubmitPayload(j)
    <2>1. PICK S \in SUBSET Names : Step(j, Begun(S))
      BY <1>2 DEF SubmitPayload, Listings, Names
    <2> DEFINE rec == Begun(S)
    <2>2. Step(j, rec) /\ Starts(j) /\ UNCHANGED tables /\ UNCHANGED nextId
          /\ UNCHANGED crashes /\ job[j].pc = "new"
      BY <1>2, <2>1 DEF SubmitPayload
    <2>3. Fits(j, rec) /\ rec.pc = "read"
      <3>1. rec \in JobRecord
        <4>1. job[j] \in JobRecord
          BY RecordFacts
        <4> QED
          BY <4>1 DEF JobRecord, Pcs
      <3>2. rec.pc = "read" /\ rec.attempt <= MaxAttempts /\ rec.written = {}
        BY <2>2, RecordFacts DEF JobRecord, InTransaction
      <3> HIDE DEF rec
      <3> QED
        BY <2>2, <3>1, <3>2 DEF Fits, Ended
    <2> HIDE DEF rec
    <2>4. KeepsId(j, rec) /\ KeepsPlan(j, rec) /\ KeepsOverlap(j, rec)
      BY <2>2, <2>3 DEF KeepsId, KeepsPlan, KeepsOverlap, InTransaction
    <2>5. crashes' \in Nat
      BY <2>2 DEF IInv, TypeOK
    <2> QED
      BY <2>2, <2>3, <2>4, <2>5, QuietStep
  <1> QED
    BY <1>1, <1>2

LEMMA ReadingInv ==
  ASSUME IInv, NEW j \in Jobs,
         ListDirectory(j) \/ NasFails(j) \/ \E s \in Shares : ReadAcl(j, s)
  PROVE  IInv'
  <1> USE DEF InTransaction
  <1>1. PICK rec : /\ Step(j, rec) /\ rec \in JobRecord /\ rec.written = {}
                   /\ rec.pc \in {"connect", "read", "giveup"}
                   /\ rec.attempt <= MaxAttempts
                   /\ job[j].pc \in {"connect", "read"}
                   /\ UNCHANGED <<tables, nextId, overlapped, crashes>>
    <2>1. CASE ListDirectory(j)
      <3>4. PICK L \in Listings :
              Step(j, [job[j] EXCEPT !.pc = "read", !.payload = L, !.toRead = Shares])
        BY <2>1 DEF ListDirectory
      <3> DEFINE r == [job[j] EXCEPT !.pc = "read", !.payload = L, !.toRead = Shares]
      <3>1. r \in JobRecord
        <4>1. job[j] \in JobRecord /\ L \in SUBSET Names
          BY RecordFacts DEF Listings, Names
        <4> QED
          BY <4>1 DEF JobRecord, Pcs
      <3>3. r.pc = "read" /\ r.attempt <= MaxAttempts /\ r.written = {}
        BY <2>1, RecordFacts DEF ListDirectory, JobRecord
      <3>2. Step(j, r)
        BY <3>4
      <3> HIDE DEF r
      <3> QED
        BY <2>1, <3>1, <3>2, <3>3 DEF ListDirectory
    <2>2. CASE NasFails(j)
      <3> DEFINE r == AfterNasError(job[j])
      <3>1. CASE job[j].attempt < MaxAttempts
        <4>1. r = [job[j] EXCEPT !.attempt = @ + 1]
          BY <3>1 DEF AfterNasError
        <4>2. r \in JobRecord /\ r.pc = job[j].pc /\ r.attempt <= MaxAttempts
              /\ r.written = {}
          BY <2>2, <3>1, <4>1, RecordFacts DEF NasFails, JobRecord
        <4>3. Step(j, r)
          BY <2>2 DEF NasFails
        <4> HIDE DEF r
        <4> QED
          BY <2>2, <4>2, <4>3 DEF NasFails
      <3>2. CASE ~(job[j].attempt < MaxAttempts)
        <4>1. r = [job[j] EXCEPT !.pc = "giveup"]
          BY <3>2 DEF AfterNasError
        <4>2. r \in JobRecord /\ r.pc = "giveup" /\ r.attempt <= MaxAttempts
              /\ r.written = {}
          BY <2>2, <4>1, RecordFacts DEF NasFails, JobRecord, Pcs
        <4>3. Step(j, r)
          BY <2>2 DEF NasFails
        <4> HIDE DEF r
        <4> QED
          BY <2>2, <4>2, <4>3 DEF NasFails
      <3> QED
        BY <3>1, <3>2
    <2>3. CASE \E s \in Shares : ReadAcl(j, s)
      <3>1. PICK s \in Shares : ReadAcl(j, s)
        BY <2>3
      <3>2. PICK answer \in {{s}, {}} :
              Step(j, [job[j] EXCEPT !.toRead = @ \ {s}, !.payload = @ \cup answer])
        BY <3>1 DEF ReadAcl
      <3> DEFINE r == [job[j] EXCEPT !.toRead = @ \ {s}, !.payload = @ \cup answer]
      <3>3. r \in JobRecord
        <4>1. job[j] \in JobRecord /\ answer \subseteq Shares
          BY <3>2, RecordFacts
        <4>2. job[j].toRead \ {s} \in SUBSET Shares
          BY <4>1 DEF JobRecord
        <4>3. job[j].payload \cup answer \in SUBSET Names
          BY <4>1 DEF JobRecord, Names
        <4> QED
          BY <4>1, <4>2, <4>3 DEF JobRecord
      <3>4. r.pc = job[j].pc /\ r.attempt <= MaxAttempts /\ r.written = {}
        BY <3>1, RecordFacts DEF ReadAcl, JobRecord, InTransaction
      <3> HIDE DEF r
      <3> QED
        BY <3>1, <3>2, <3>3, <3>4 DEF ReadAcl, r
    <2> QED
      BY <2>1, <2>2, <2>3
  <1>2. Fits(j, rec)
    BY <1>1 DEF Fits, Ended
  <1>3. KeepsId(j, rec) /\ KeepsPlan(j, rec) /\ KeepsOverlap(j, rec)
    BY <1>1 DEF KeepsId, KeepsPlan, KeepsOverlap, InTransaction, InProgress, Ended
  <1>4. crashes' \in Nat
    BY <1>1 DEF IInv, TypeOK
  <1> QED
    BY <1>1, <1>2, <1>3, <1>4, QuietStep

LEMMA EndingInv ==
  ASSUME IInv, NEW j \in Jobs,
         RefuseDuplicate(j) \/ RefuseValue(j) \/ BreakDeadlock(j) \/ Crash(j)
  PROVE  IInv'
  <1>1. PICK pc \in {"aborted", "dead"} :
           /\ Finish(j, pc) /\ UNCHANGED <<tables, nextId, overlapped>>
           /\ InProgress(j) /\ crashes' \in Nat
           /\ job[j].pc = "record" => pc = "dead"
    <2>1. CASE RefuseDuplicate(j)
      BY <2>1 DEF RefuseDuplicate, InProgress, Ended, IInv, TypeOK
    <2>2. CASE BreakDeadlock(j)
      <3>1. job[j].pc \in {"write", "place"}
        BY <2>2 DEF BreakDeadlock, WaitsFor, Wanted
      <3> QED
        BY <2>2, <3>1 DEF BreakDeadlock, InProgress, Ended, IInv, TypeOK
    <2>3. CASE Crash(j)
      BY <2>3 DEF Crash, IInv, TypeOK
    <2>4. CASE RefuseValue(j)
      BY <2>4 DEF RefuseValue, InProgress, Ended, IInv, TypeOK
    <2> QED
      BY <2>1, <2>2, <2>3, <2>4
  <1> DEFINE rec == [NewJob EXCEPT !.pc = pc]
  <1>2. /\ rec \in JobRecord /\ rec.pc = pc /\ rec.attempt = 1
        /\ rec.written = {}
    BY DEF NewJob, JobRecord, Pcs
  <1>3. Step(j, rec)
    BY <1>1 DEF Finish
  <1> HIDE DEF rec
  <1>4. Fits(j, rec)
    BY <1>1, <1>2 DEF Fits, InProgress
  <1>5. KeepsId(j, rec) /\ KeepsPlan(j, rec) /\ KeepsOverlap(j, rec)
    BY <1>1, <1>2 DEF KeepsId, KeepsPlan, KeepsOverlap, InTransaction, Ended
  <1> QED
    BY <1>1, <1>3, <1>4, <1>5, QuietStep

LEMMA OpenSnapshotInv ==
  ASSUME IInv, NEW j \in Jobs, OpenSnapshot(j)
  PROVE  IInv'
  <1> DEFINE rec == [job[j] EXCEPT !.pc = "apply", !.id = nextId + 1,
                                   !.todo = job[j].payload]
  <1>1. /\ nextId \in Nat /\ job[j].pc = "read" /\ Step(j, rec)
        /\ nextId' = nextId + 1 /\ UNCHANGED <<tables, overlapped, crashes>>
        /\ crashes' \in Nat
    BY DEF OpenSnapshot, IInv, TypeOK
  <1>2. job[j].payload \subseteq Names
    BY RecordFacts DEF Names
  <1>3. rec \in JobRecord
    <2>1. job[j] \in JobRecord /\ nextId + 1 \in Nat
      BY <1>1, RecordFacts
    <2> QED
      BY <1>2, <2>1 DEF JobRecord, Pcs
  <1>6. /\ rec.pc = "apply" /\ rec.id = nextId + 1
        /\ rec.attempt <= MaxAttempts
        /\ rec.todo = rec.payload /\ rec.written = {}
    BY <1>1, RecordFacts DEF JobRecord, InTransaction
  <1> HIDE DEF rec
  <1>4. Fits(j, rec)
    BY <1>1, <1>3, <1>6 DEF Fits, InTransaction, Ended
  <1>5. TakesId(j, rec) /\ KeepsPlan(j, rec) /\ KeepsOverlap(j, rec)
    BY <1>1, <1>6 DEF TakesId, KeepsPlan, KeepsOverlap, InTransaction, InProgress, Ended
  <1> QED
    BY <1>1, <1>4, <1>5, QuietStep

LEMMA UpsertingInv ==
  ASSUME IInv, NEW j \in Jobs, Upsert(j) \/ \E n \in Names : LookUp(j, n)
  PROVE  IInv'
  <1>1. PICK rec : /\ Step(j, rec) /\ rec \in JobRecord /\ rec.id = job[j].id
                   /\ rec.pc \in {"apply", "write"}
                   /\ rec.attempt <= MaxAttempts
                   /\ rec.todo \cup rec.written = rec.payload
                   /\ rec.pc = "write" => rec.row \in rec.todo
                   /\ job[j].pc \in {"apply", "write"}
                   /\ UNCHANGED <<tables, nextId, overlapped, crashes>>
    <2>1. CASE Upsert(j)
      <3> DEFINE r == [job[j] EXCEPT !.pc = "apply", !.todo = @ \ {job[j].row},
                                     !.written = @ \cup {job[j].row},
                                     !.row = None, !.known = FALSE]
      <3>1. /\ job[j].row \in job[j].todo
            /\ job[j].todo \cup job[j].written = job[j].payload
        BY <2>1 DEF Upsert, IInv, WritesCoverPayload
      <3>2. r \in JobRecord
        <4>1. job[j] \in JobRecord
          BY RecordFacts
        <4>2. job[j].todo \ {job[j].row} \in SUBSET Names
          BY <4>1 DEF JobRecord
        <4>3. job[j].written \cup {job[j].row} \in SUBSET Names
          BY <3>1, <4>1 DEF JobRecord
        <4> QED
          BY <4>1, <4>2, <4>3 DEF JobRecord, Pcs
      <3>4. /\ r.id = job[j].id /\ r.pc = "apply"
            /\ r.attempt <= MaxAttempts /\ r.payload = job[j].payload
            /\ r.todo = job[j].todo \ {job[j].row}
            /\ r.written = job[j].written \cup {job[j].row}
        BY RecordFacts DEF JobRecord
      <3>3. Step(j, r)
        BY <2>1 DEF Upsert
      <3> HIDE DEF r
      <3> QED
        BY <2>1, <3>1, <3>2, <3>3, <3>4 DEF Upsert
    <2>2. CASE \E n \in Names : LookUp(j, n)
      <3>1. PICK n \in Names : LookUp(j, n)
        BY <2>2
      <3> DEFINE r == [job[j] EXCEPT !.pc = "write", !.row = n,
                                     !.known = lastSeen[n] # 0]
      <3>2. job[j].todo \cup job[j].written = job[j].payload
        BY <3>1 DEF LookUp, IInv, WritesCoverPayload
      <3>3. r \in JobRecord
        <4>1. job[j] \in JobRecord
          BY RecordFacts
        <4> QED
          BY <4>1 DEF JobRecord, Pcs
      <3>5. /\ r.id = job[j].id /\ r.pc = "write" /\ r.row = n
            /\ r.attempt <= MaxAttempts /\ r.payload = job[j].payload
            /\ r.todo = job[j].todo /\ r.written = job[j].written
        BY RecordFacts DEF JobRecord
      <3>4. Step(j, r)
        BY <3>1 DEF LookUp
      <3> HIDE DEF r
      <3> QED
        BY <3>1, <3>2, <3>3, <3>4, <3>5 DEF LookUp
    <2> QED
      BY <2>1, <2>2
  <1>2. Fits(j, rec)
    BY <1>1 DEF Fits, InTransaction, Ended
  <1>3. KeepsId(j, rec) /\ KeepsPlan(j, rec) /\ KeepsOverlap(j, rec)
    BY <1>1 DEF KeepsId, KeepsPlan, KeepsOverlap, InTransaction, InProgress, Ended
  <1>4. crashes' \in Nat
    BY <1>1 DEF IInv, TypeOK
  <1> QED
    BY <1>1, <1>2, <1>3, <1>4, QuietStep

LEMMA PlacingInv ==
  ASSUME IInv, NEW j \in Jobs, PlanParents(j) \/ WriteParents(j)
  PROVE  IInv'
  <1>1. CASE PlanParents(j)
    <2> DEFINE seen == SeenShares(j)
               moved == {s \in seen : ParentIn(s, seen) # parent[s]}
               place == [s \in Shares |-> ParentIn(s, seen)]
               rec == [job[j] EXCEPT !.pc = "place", !.moved = moved, !.place = place]
    <2>1. /\ Step(j, rec) /\ job[j].pc = "apply" /\ job[j].todo = {}
          /\ UNCHANGED <<tables, nextId, overlapped, crashes>>
          /\ crashes' \in Nat
      BY <1>1 DEF PlanParents, IInv, TypeOK
    <2>2. moved \subseteq Shares
      BY DEF SeenShares, KnownShares
    <2>3. place \in [Shares -> Shares \cup {None}]
      BY ParentInType
    <2>4. job[j].written = job[j].payload
      BY <2>1 DEF IInv, WritesCoverPayload
    <2> HIDE DEF moved, place
    <2>5. rec \in JobRecord
      <3>1. job[j] \in JobRecord
        BY RecordFacts
      <3> QED
        BY <2>2, <2>3, <3>1 DEF JobRecord, Pcs
    <2>9. /\ rec.pc = "place" /\ rec.id = job[j].id
          /\ rec.attempt <= MaxAttempts /\ rec.payload = job[j].payload
          /\ rec.written = job[j].written /\ rec.moved = moved /\ rec.place = place
      BY RecordFacts DEF JobRecord
    <2> HIDE DEF rec
    <2>6. Fits(j, rec)
      BY <2>1, <2>4, <2>5, <2>9 DEF Fits, InTransaction, Ended
    <2>7. KeepsPlan(j, rec)
      BY <2>9 DEF KeepsPlan, SeenShares, moved, place
    <2>8. KeepsId(j, rec) /\ KeepsOverlap(j, rec)
      BY <2>1, <2>9 DEF KeepsId, KeepsOverlap, InTransaction, InProgress, Ended
    <2> QED
      BY <2>1, <2>6, <2>7, <2>8, QuietStep
  <1>2. CASE WriteParents(j)
    <2> DEFINE rec == [job[j] EXCEPT !.pc = "commit"]
    <2>1. /\ Step(j, rec) /\ job[j].pc = "place"
          /\ UNCHANGED <<tables, nextId, overlapped, crashes>>
          /\ crashes' \in Nat
      BY <1>2 DEF WriteParents, IInv, TypeOK
    <2>2. job[j].written = job[j].payload
      BY <2>1 DEF IInv, WritesCoverPayload
    <2>3. /\ rec \in JobRecord /\ rec.pc = "commit" /\ rec.id = job[j].id
          /\ rec.attempt <= MaxAttempts /\ rec.payload = job[j].payload
          /\ rec.written = job[j].written /\ rec.moved = job[j].moved
          /\ rec.place = job[j].place
      BY RecordFacts DEF JobRecord, Pcs
    <2> HIDE DEF rec
    <2>4. Fits(j, rec)
      BY <2>1, <2>2, <2>3 DEF Fits, InTransaction, Ended
    <2>5. KeepsId(j, rec) /\ KeepsPlan(j, rec) /\ KeepsOverlap(j, rec)
      BY <2>1, <2>3 DEF KeepsId, KeepsPlan, KeepsOverlap, InTransaction, InProgress, Ended
    <2> QED
      BY <2>1, <2>4, <2>5, QuietStep
  <1> QED
    BY <1>1, <1>2

-----------------------------------------------------------------------------
(* The commit, which makes a snapshot the newest one.                      *)
LEMMA CommitInv ==
  ASSUME IInv, NEW j \in Jobs, Commit(j)
  PROVE  IInv'
  <1> USE DEF IInv
  <1> DEFINE me == job[j]
             x0 == [id |-> me.id, job |-> j, payload |-> me.payload]
             rec == [NewJob EXCEPT !.pc = "record", !.attempt = me.attempt,
                                   !.id = me.id]
  <1>1. /\ me.pc = "commit" /\ Step(j, rec) /\ snapshots' = snapshots \cup {x0}
        /\ lastSeen' = [n \in Names |-> SeenBy(me, n, lastSeen[n])]
        /\ parent' = [s \in Shares |-> PlacedBy(me, s, parent[s])]
        /\ UNCHANGED <<nextId, runs, overlapped, crashes>>
    BY DEF Commit
  <1>2. /\ me \in JobRecord /\ me.id \in Nat /\ me.payload \subseteq Names
        /\ me.written \subseteq Names /\ me.attempt \in Nat /\ me.attempt <= MaxAttempts
    BY RecordFacts
  <1>3. rec \in JobRecord
    BY <1>2 DEF NewJob, JobRecord, Pcs
  <1>4. /\ rec.pc = "record" /\ rec.id = me.id /\ rec.attempt = me.attempt
        /\ rec.written = {}
    BY DEF NewJob
  <1>5. x0 \in SnapshotRecord /\ x0.id = me.id /\ x0.job = j /\ x0.payload = me.payload
    BY <1>2 DEF SnapshotRecord
  <1>6. /\ me.id \in 1..nextId /\ \A x \in snapshots : x.id # me.id
        /\ \A k \in Jobs : job[k].pc \in InTransaction /\ job[k].id = me.id => k = j
    BY <1>1 DEF IdsAreIssued, InTransaction
  <1>7. me.written = me.payload
    BY <1>1 DEF WritesCoverPayload
  <1>8. nextId \in Nat /\ lastSeen \in [Names -> Nat]
        /\ parent \in [Shares -> Shares \cup {None}] /\ Shares \subseteq Names
    BY DEF TypeOK, Names
  <1> HIDE DEF rec, x0
  <1>9. /\ job'[j] = rec
        /\ \A k \in Jobs \ {j} : job'[k] = job[k]
        /\ job' \in [Jobs -> JobRecord]
    BY <1>1, <1>3, StepFacts DEF TypeOK
  <1>10. \A x \in snapshots : x.job # j
    BY <1>1 DEF TablesFollowJobs
  <1>11. \A r \in runs : r.job # j
    BY <1>1 DEF TablesFollowJobs
  <1>12. /\ \A n \in Names : lastSeen'[n] = IF n \in me.written THEN me.id ELSE lastSeen[n]
         /\ \A s \in Shares : parent'[s] = IF s \in me.moved THEN me.place[s] ELSE parent[s]
    BY <1>1 DEF SeenBy, PlacedBy
  <1>13. ~overlapped => \A k \in Jobs : InProgress(k) => k = j
    BY <1>1 DEF AloneIsUndisturbed, InProgress, Ended
  <1>14. TypeOK'
    <2>1. lastSeen' \in [Names -> Nat]
      BY <1>1, <1>2, <1>8 DEF SeenBy
    <2>2. parent' \in [Shares -> Shares \cup {None}]
      <3>1. me.place \in [Shares -> Shares \cup {None}]
        BY <1>2 DEF JobRecord
      <3> QED
        BY <1>1, <1>8, <3>1 DEF PlacedBy
    <2> QED
      BY <1>1, <1>5, <1>9, <2>1, <2>2 DEF TypeOK
  <1>15. IdsAreIssued'
    <2>1. \A x \in snapshots' : x.id \in 1..nextId'
      BY <1>1, <1>5, <1>6 DEF IdsAreIssued
    <2>2. ASSUME NEW k \in Jobs, job'[k].pc \in InTransaction
          PROVE  /\ job'[k].id \in 1..nextId'
                 /\ \A x \in snapshots' : x.id # job'[k].id
                 /\ \A l \in Jobs : job'[l].pc \in InTransaction
                                      /\ job'[l].id = job'[k].id => l = k
      <3>1. k # j /\ job'[k] = job[k] /\ job[k].pc \in InTransaction
        BY <1>4, <1>9, <2>2 DEF InTransaction
      <3>2. \A x \in snapshots' : x.id # job'[k].id
        BY <1>1, <1>5, <1>6, <3>1 DEF IdsAreIssued
      <3>3. \A l \in Jobs : job'[l].pc \in InTransaction => l # j /\ job'[l] = job[l]
        BY <1>4, <1>9 DEF InTransaction
      <3> QED
        BY <1>1, <3>1, <3>2, <3>3 DEF IdsAreIssued
    <2> QED
      BY <2>1, <2>2 DEF IdsAreIssued
  <1>16. TablesFollowJobs'
    <2>1. ASSUME NEW x \in snapshots' PROVE job'[x.job].pc \in {"record", "done", "dead"}
      <3>1. CASE x = x0
        BY <1>4, <1>5, <1>9, <3>1
      <3>2. CASE x \in snapshots
        <4>1. x.job \in Jobs \ {j}
          BY <1>10, <3>2 DEF TypeOK, SnapshotRecord
        <4> QED
          BY <1>9, <3>2, <4>1 DEF TablesFollowJobs
      <3> QED
        BY <1>1, <3>1, <3>2
    <2>2. ASSUME NEW r \in runs
          PROVE  job'[r.job].pc = IF r.status = "succeeded" THEN "done" ELSE "failed"
      <3>1. r.job \in Jobs \ {j}
        BY <1>11 DEF TypeOK, RunRecord
      <3> QED
        BY <1>9, <3>1 DEF TablesFollowJobs
    <2>3. ASSUME NEW k \in Jobs
          PROVE  /\ job'[k].pc = "record" =>
                      \E x \in snapshots' : x.id = job'[k].id /\ x.job = k
                 /\ job'[k].attempt <= MaxAttempts
      <3>1. CASE k = j
        BY <1>1, <1>2, <1>4, <1>5, <1>9, <3>1
      <3>2. CASE k # j
        BY <1>1, <1>9, <3>2 DEF TablesFollowJobs
      <3> QED
        BY <3>1, <3>2
    <2> QED
      BY <1>1, <2>1, <2>2, <2>3 DEF TablesFollowJobs
  <1>17. WritesCoverPayload'
    BY <1>4, <1>9 DEF WritesCoverPayload
  <1>18. AloneIsUndisturbed'
    <2> SUFFICES ASSUME ~overlapped PROVE AloneIsUndisturbed'
      BY <1>1 DEF AloneIsUndisturbed
    <2>1. \A k \in Jobs : InProgress(k)' => k = j
      BY <1>9, <1>13 DEF InProgress
    <2>2. \A k \in Jobs : job'[k].pc \notin InTransaction
      BY <1>4, <1>9, <2>1 DEF InProgress, InTransaction, Ended
    <2> QED
      BY <2>1, <2>2 DEF AloneIsUndisturbed, InTransaction
  <1>19. LastSeenIsTrue'
    <2> SUFFICES ASSUME NEW n \in Names, lastSeen'[n] # 0
                 PROVE  \E x \in snapshots' : x.id = lastSeen'[n] /\ n \in x.payload
      BY DEF LastSeenIsTrue
    <2>1. CASE n \in me.written
      BY <1>1, <1>5, <1>7, <1>12, <2>1
    <2>2. CASE n \notin me.written
      BY <1>1, <1>12, <2>2 DEF LastSeenIsTrue
    <2> QED
      BY <2>1, <2>2
  <1>20. RunsTellTheTruth'
    <2>1. ASSUME NEW r \in runs
          PROVE  IF r.status = "succeeded"
                 THEN r.attempts <= MaxAttempts
                      /\ \E x \in snapshots' : x.id = r.snapshot /\ x.job = r.job
                 ELSE r.attempts = MaxAttempts /\ \A x \in snapshots' : x.job # r.job
      BY <1>1, <1>5, <1>11 DEF RunsTellTheTruth
    <2>2. \A x, y \in snapshots' : x.job = y.job \/ x.id = y.id => x = y
      BY <1>1, <1>5, <1>6, <1>10 DEF RunsTellTheTruth
    <2> QED
      BY <1>1, <2>1, <2>2 DEF RunsTellTheTruth
  <1>21. NewestSnapshotOwnsItsRows'
    <2> SUFFICES ASSUME ~overlapped, NEW x \in snapshots',
                        \A y \in snapshots' : y.id <= x.id, NEW n \in Names
                 PROVE  lastSeen'[n] = x.id <=> n \in x.payload
      BY <1>1 DEF NewestSnapshotOwnsItsRows
    <2>1. me.id = nextId
      BY <1>1 DEF AloneIsUndisturbed, InTransaction
    <2>2. \A y \in snapshots : y.id \in Nat /\ y.id < me.id
      BY <1>6, <1>8, <2>1 DEF IdsAreIssued
    <2>3. x = x0
      <3>1. me.id <= x.id
        BY <1>1, <1>5
      <3> QED
        BY <1>1, <1>2, <2>2, <3>1
    <2>4. lastSeen[n] # me.id
      <3>1. me.id # 0
        BY <1>6, <1>8
      <3> QED
        BY <1>6, <3>1 DEF LastSeenIsTrue
    <2> QED
      BY <1>5, <1>7, <1>12, <2>3, <2>4
  <1>22. ParentsAreInferred'
    <2> SUFFICES ASSUME ~overlapped, NEW s \in KnownShares'
                 PROVE  parent'[s] = ParentIn(s, KnownShares')
      BY <1>1 DEF ParentsAreInferred
    <2>1. KnownShares' = SeenShares(j)
      <3>1. me.id # 0
        BY <1>6, <1>8
      <3> QED
        BY <1>8, <1>12, <3>1 DEF KnownShares, SeenShares
    <2>2. /\ me.moved = {t \in SeenShares(j) : ParentIn(t, SeenShares(j)) # parent[t]}
          /\ me.place = [t \in Shares |-> ParentIn(t, SeenShares(j))]
      BY <1>1 DEF AloneIsUndisturbed
    <2>3. s \in Shares /\ s \in SeenShares(j)
      BY <2>1 DEF KnownShares
    <2> QED
      BY <1>12, <2>1, <2>2, <2>3
  <1> QED
    BY <1>14, <1>15, <1>16, <1>17, <1>18, <1>19, <1>20, <1>21, <1>22

-----------------------------------------------------------------------------
(* The two writers of sync_runs, and the steps that change nothing.        *)
LEMMA RecordingInv ==
  ASSUME IInv, NEW j \in Jobs, RecordSuccess(j) \/ RecordFailure(j)
  PROVE  IInv'
  <1> USE DEF IInv
  <1>1. PICK pc \in {"done", "failed"}, r \in RunRecord :
          /\ Finish(j, pc) /\ runs' = runs \cup {r} /\ r.job = j
          /\ UNCHANGED <<snapshots, lastSeen, parent, nextId, overlapped, crashes>>
          /\ job[j].pc \in {"record", "giveup"}
          /\ pc = "done" => /\ r.status = "succeeded" /\ r.attempts <= MaxAttempts
                            /\ \E x \in snapshots : x.id = r.snapshot /\ x.job = j
          /\ pc = "failed" => /\ r.status = "failed" /\ r.attempts = MaxAttempts
                              /\ \A x \in snapshots : x.job # j
          /\ job[j].pc = "record" => pc = "done"
    <2>1. CASE RecordSuccess(j)
      <3> DEFINE q == [job |-> j, status |-> "succeeded",
                       attempts |-> job[j].attempt, snapshot |-> job[j].id]
      <3>1. /\ q \in RunRecord /\ q.job = j /\ q.status = "succeeded"
            /\ q.attempts <= MaxAttempts /\ q.snapshot = job[j].id
        BY RecordFacts DEF RunRecord
      <3>2. runs' = runs \cup {q}
        BY <2>1 DEF RecordSuccess
      <3>3. \E x \in snapshots : x.id = job[j].id /\ x.job = j
        BY <2>1 DEF RecordSuccess, TablesFollowJobs
      <3> HIDE DEF q
      <3> QED
        BY <2>1, <3>1, <3>2, <3>3 DEF RecordSuccess
    <2>2. CASE RecordFailure(j)
      <3> DEFINE q == [job |-> j, status |-> "failed",
                       attempts |-> MaxAttempts, snapshot |-> 0]
      <3>1. /\ q \in RunRecord /\ q.job = j /\ q.status = "failed"
            /\ q.attempts = MaxAttempts
        BY DEF RunRecord
      <3>2. runs' = runs \cup {q}
        BY <2>2 DEF RecordFailure
      <3>3. \A x \in snapshots : x.job # j
        BY <2>2 DEF RecordFailure, TablesFollowJobs
      <3> HIDE DEF q
      <3> QED
        BY <2>2, <3>1, <3>2, <3>3 DEF RecordFailure
    <2> QED
      BY <2>1, <2>2
  <1> DEFINE rec == [NewJob EXCEPT !.pc = pc]
  <1>2. /\ rec \in JobRecord /\ rec.pc = pc /\ rec.attempt = 1
        /\ rec.written = {}
    BY DEF NewJob, JobRecord, Pcs
  <1>3. Step(j, rec)
    BY <1>1 DEF Finish
  <1> HIDE DEF rec
  <1>4. /\ job'[j] = rec
        /\ \A k \in Jobs \ {j} : job'[k] = job[k]
        /\ job' \in [Jobs -> JobRecord]
    BY <1>2, <1>3, StepFacts DEF TypeOK
  <1>5. \A q \in runs : q.job # j
    BY <1>1 DEF TablesFollowJobs
  <1>6. \A k \in Jobs : job'[k].pc \in InTransaction => k # j /\ job'[k] = job[k]
    BY <1>1, <1>2, <1>4 DEF InTransaction
  <1>7. TypeOK'
    BY <1>1, <1>4 DEF TypeOK
  <1>8. IdsAreIssued'
    BY <1>1, <1>6 DEF IdsAreIssued
  <1>9. TablesFollowJobs'
    <2>1. ASSUME NEW x \in snapshots PROVE job'[x.job].pc \in {"record", "done", "dead"}
      <3>1. x.job \in Jobs /\ job[x.job].pc \in {"record", "done", "dead"}
        BY DEF TablesFollowJobs, TypeOK, SnapshotRecord
      <3> QED
        BY <1>1, <1>2, <1>4, <3>1
    <2>2. ASSUME NEW q \in runs'
          PROVE  job'[q.job].pc = IF q.status = "succeeded" THEN "done" ELSE "failed"
      <3>1. CASE q = r
        BY <1>1, <1>2, <1>4, <3>1
      <3>2. CASE q \in runs
        <4>1. q.job \in Jobs \ {j}
          BY <1>5, <3>2 DEF TypeOK, RunRecord
        <4> QED
          BY <1>4, <3>2, <4>1 DEF TablesFollowJobs
      <3> QED
        BY <1>1, <3>1, <3>2
    <2>3. ASSUME NEW k \in Jobs
          PROVE  /\ job'[k].pc = "record" =>
                      \E x \in snapshots : x.id = job'[k].id /\ x.job = k
                 /\ job'[k].attempt <= MaxAttempts
      BY <1>1, <1>2, <1>4 DEF TablesFollowJobs
    <2> QED
      BY <1>1, <2>1, <2>2, <2>3 DEF TablesFollowJobs
  <1>10. WritesCoverPayload'
    BY <1>1, <1>2, <1>4 DEF WritesCoverPayload
  <1>11. AloneIsUndisturbed'
    <2>1. KnownShares' = KnownShares
      BY <1>1 DEF KnownShares
    <2>2. \A k \in Jobs : k # j => SeenShares(k)' = SeenShares(k)
      BY <1>4, <2>1 DEF SeenShares
    <2>3. \A k \in Jobs : InProgress(k)' => InProgress(k)
      BY <1>1, <1>2, <1>4 DEF InProgress, Ended
    <2>4. \A k \in Jobs : job'[k].pc \in {"place", "commit"} => k # j
      BY <1>6 DEF InTransaction
    <2>5. ASSUME ~overlapped, NEW k \in Jobs, job'[k].pc \in InTransaction
          PROVE  job'[k].id = nextId'
      BY <1>1, <1>6, <2>5 DEF AloneIsUndisturbed
    <2>6. ASSUME ~overlapped, NEW k \in Jobs, job'[k].pc \in {"place", "commit"}
          PROVE  /\ job'[k].moved = {s \in SeenShares(k)' : ParentIn(s, SeenShares(k)') # parent'[s]}
                 /\ job'[k].place = [s \in Shares |-> ParentIn(s, SeenShares(k)')]
      <3>1. job'[k] = job[k] /\ SeenShares(k)' = SeenShares(k)
        BY <1>4, <2>2, <2>4, <2>6
      <3> QED
        BY <1>1, <2>6, <3>1 DEF AloneIsUndisturbed
    <2>7. ~overlapped => \A k, l \in Jobs : InProgress(k)' /\ InProgress(l)' => k = l
      BY <2>3 DEF AloneIsUndisturbed
    <2> QED
      BY <1>1, <2>5, <2>6, <2>7 DEF AloneIsUndisturbed
  <1>12. LastSeenIsTrue' /\ NewestSnapshotOwnsItsRows'
    BY <1>1 DEF LastSeenIsTrue, NewestSnapshotOwnsItsRows
  <1>13. ParentsAreInferred'
    BY <1>1 DEF ParentsAreInferred, KnownShares
  <1>14. RunsTellTheTruth'
    <2>1. ASSUME NEW q \in runs'
          PROVE  IF q.status = "succeeded"
                 THEN q.attempts <= MaxAttempts
                      /\ \E x \in snapshots : x.id = q.snapshot /\ x.job = q.job
                 ELSE q.attempts = MaxAttempts /\ \A x \in snapshots : x.job # q.job
      BY <1>1 DEF RunsTellTheTruth
    <2>2. \A p, q \in runs' : p.job = q.job => p = q
      BY <1>1, <1>5 DEF RunsTellTheTruth
    <2> QED
      BY <1>1, <2>1, <2>2 DEF RunsTellTheTruth
  <1> QED
    BY <1>7, <1>8, <1>9, <1>10, <1>11, <1>12, <1>13, <1>14

LEMMA StutterInv ==
  ASSUME IInv, UNCHANGED vars PROVE IInv'
  <1> USE DEF IInv
  <1>1. /\ job' = job /\ snapshots' = snapshots /\ nextId' = nextId
        /\ lastSeen' = lastSeen /\ parent' = parent /\ runs' = runs
        /\ overlapped' = overlapped /\ crashes' = crashes
    BY DEF vars
  <1>2. TypeOK' /\ IdsAreIssued'
    BY <1>1 DEF TypeOK, IdsAreIssued
  <1>3. TablesFollowJobs' /\ WritesCoverPayload'
    BY <1>1 DEF TablesFollowJobs, WritesCoverPayload
  <1>4. AloneIsUndisturbed'
    BY <1>1 DEF AloneIsUndisturbed, KnownShares, SeenShares, InProgress
  <1>5. LastSeenIsTrue' /\ RunsTellTheTruth'
    BY <1>1 DEF LastSeenIsTrue, RunsTellTheTruth
  <1>6. NewestSnapshotOwnsItsRows' /\ ParentsAreInferred'
    BY <1>1 DEF NewestSnapshotOwnsItsRows, ParentsAreInferred, KnownShares
  <1> QED
    BY <1>2, <1>3, <1>4, <1>5, <1>6

LEMMA NextInv == IInv /\ [Next]_vars => IInv'
  <1> SUFFICES ASSUME IInv, [Next]_vars PROVE IInv'
    OBVIOUS
  <1>1. ASSUME NEW j \in Jobs, StartLive(j) \/ SubmitPayload(j) PROVE IInv'
    BY <1>1, StartingInv
  <1>2. ASSUME NEW j \in Jobs, Progress(j) PROVE IInv'
    BY <1>2, ReadingInv, OpenSnapshotInv, UpsertingInv, EndingInv, PlacingInv,
       CommitInv, RecordingInv DEF Progress
  <1>3. ASSUME NEW j \in Jobs, Crash(j) PROVE IInv'
    BY <1>3, EndingInv
  <1> QED
    BY <1>1, <1>2, <1>3, StutterInv DEF Next

(* The inductive invariant holds of every run of the jobs, for any number  *)
(* of jobs, accounts and shares and any nesting of the shares' folders.    *)
THEOREM SyncInvariant == Spec => []IInv
  <1> QED
    BY InitInv, NextInv, PTL DEF Spec

(* Jobs, tables and counters keep their types.                             *)
THEOREM SyncTypes == Spec => []TypeOK
  <1>1. IInv => TypeOK
    BY DEF IInv
  <1> QED
    BY <1>1, SyncInvariant, PTL

(* A row's last_seen_snapshot_id names a committed snapshot that had it,   *)
(* whatever jobs overlapped, were refused, deadlocked or died.             *)
THEOREM LastSeenHolds == Spec => []LastSeenIsTrue
  <1>1. IInv => LastSeenIsTrue
    BY DEF IInv
  <1> QED
    BY <1>1, SyncInvariant, PTL

(* A sync_runs row agrees with what its job did to the tables, and no job  *)
(* commits two snapshots or records two runs.                              *)
THEOREM RunsHold == Spec => []RunsTellTheTruth
  <1>1. IInv => RunsTellTheTruth
    BY DEF IInv
  <1> QED
    BY <1>1, SyncInvariant, PTL

(* Without overlap, the newest snapshot is the last one of exactly the     *)
(* rows its payload had.                                                   *)
THEOREM NewestOwns == Spec => []NewestSnapshotOwnsItsRows
  <1>1. IInv => NewestSnapshotOwnsItsRows
    BY DEF IInv
  <1> QED
    BY <1>1, SyncInvariant, PTL

(* Without overlap, every share row has the parent that its path and the   *)
(* rows known now give it.                                                 *)
THEOREM ParentsHold == Spec => []ParentsAreInferred
  <1>1. IInv => ParentsAreInferred
    BY DEF IInv
  <1> QED
    BY <1>1, SyncInvariant, PTL

-----------------------------------------------------------------------------
(* The jobs as an implementation of DirectorySnapshots.                    *)

(* Where a step leaves the job that takes it.                              *)
LEMMA StepTarget ==
  ASSUME IInv, NEW j \in Jobs, StartLive(j) \/ SubmitPayload(j) \/ Progress(j) \/ Crash(j)
  PROVE  \E rec \in JobRecord :
           /\ Step(j, rec)
           /\ rec.attempt >= job[j].attempt \/ rec.attempt = 1
           /\ \/ rec.pc \notin {"place", "commit"}
              \/ PlanParents(j)
              \/ /\ job[j].pc = "place" /\ rec.written = job[j].written
                 /\ rec.moved = job[j].moved /\ rec.place = job[j].place
  <1>1. job[j] \in JobRecord /\ NewJob \in JobRecord
    BY RecordFacts DEF NewJob, JobRecord, Pcs
  <1>2. ASSUME NEW pc \in Ended, Finish(j, pc)
        PROVE  \E rec \in JobRecord : Step(j, rec) /\ rec.attempt = 1 /\ rec.pc \in Ended
    <2> DEFINE r == [NewJob EXCEPT !.pc = pc]
    <2>1. r \in JobRecord /\ r.attempt = 1 /\ r.pc \in Ended
      BY DEF NewJob, JobRecord, Pcs, Ended
    <2>2. Step(j, r)
      BY <1>2 DEF Finish
    <2> HIDE DEF r
    <2> QED
      BY <2>1, <2>2
  <1>3. CASE StartLive(j)
    <2> DEFINE r == [job[j] EXCEPT !.pc = "connect"]
    <2>1. r \in JobRecord /\ r.attempt = job[j].attempt /\ r.pc = "connect"
      BY <1>1 DEF JobRecord, Pcs
    <2>2. Step(j, r)
      BY <1>3 DEF StartLive
    <2> HIDE DEF r
    <2> QED
      BY <2>1, <2>2, RecordFacts
  <1>4. CASE SubmitPayload(j)
    <2>1. PICK S \in SUBSET Names : Step(j, [job[j] EXCEPT !.pc = "read", !.payload = S])
      BY <1>4 DEF SubmitPayload, Listings, Names
    <2> DEFINE r == [job[j] EXCEPT !.pc = "read", !.payload = S]
    <2>2. r \in JobRecord /\ r.attempt = job[j].attempt /\ r.pc = "read"
      BY <1>1 DEF JobRecord, Pcs
    <2>3. Step(j, r)
      BY <2>1
    <2> HIDE DEF r
    <2> QED
      BY <2>2, <2>3, RecordFacts
  <1>5. CASE ListDirectory(j)
    <2>1. PICK S \in SUBSET Names :
            Step(j, [job[j] EXCEPT !.pc = "read", !.payload = S, !.toRead = Shares])
      BY <1>5 DEF ListDirectory, Listings, Names
    <2> DEFINE r == [job[j] EXCEPT !.pc = "read", !.payload = S, !.toRead = Shares]
    <2>2. r \in JobRecord /\ r.attempt = job[j].attempt /\ r.pc = "read"
      BY <1>1 DEF JobRecord, Pcs
    <2>3. Step(j, r)
      BY <2>1
    <2> HIDE DEF r
    <2> QED
      BY <2>2, <2>3, RecordFacts
  <1>6. CASE NasFails(j)
    <2> DEFINE r == AfterNasError(job[j])
    <2>1. r \in JobRecord /\ r.attempt >= job[j].attempt /\ r.pc \notin {"place", "commit"}
      BY <1>1, <1>6, RecordFacts DEF NasFails, AfterNasError, JobRecord, Pcs
    <2>2. Step(j, r)
      BY <1>6 DEF NasFails
    <2> HIDE DEF r
    <2> QED
      BY <2>1, <2>2
  <1>7. ASSUME NEW s \in Shares, ReadAcl(j, s)
        PROVE  \E rec \in JobRecord : Step(j, rec) /\ rec.attempt = job[j].attempt
                                       /\ rec.pc \notin {"place", "commit"}
    <2>1. PICK answer \in {{s}, {}} :
            Step(j, [job[j] EXCEPT !.toRead = @ \ {s}, !.payload = @ \cup answer])
      BY <1>7 DEF ReadAcl
    <2> DEFINE r == [job[j] EXCEPT !.toRead = @ \ {s}, !.payload = @ \cup answer]
    <2>2. r \in JobRecord /\ r.attempt = job[j].attempt /\ r.pc \notin {"place", "commit"}
      BY <1>1, <1>7 DEF ReadAcl, JobRecord, Names
    <2>3. Step(j, r)
      BY <2>1
    <2> HIDE DEF r
    <2> QED
      BY <2>2, <2>3
  <1>8. CASE OpenSnapshot(j)
    <2> DEFINE r == [job[j] EXCEPT !.pc = "apply", !.id = nextId + 1,
                                   !.todo = job[j].payload]
    <2>1. r \in JobRecord /\ r.attempt = job[j].attempt /\ r.pc = "apply"
      <3>1. nextId + 1 \in Nat
        BY DEF IInv, TypeOK
      <3> QED
        BY <1>1, <3>1 DEF JobRecord, Pcs
    <2>2. Step(j, r)
      BY <1>8 DEF OpenSnapshot
    <2> HIDE DEF r
    <2> QED
      BY <2>1, <2>2, RecordFacts
  <1>9. ASSUME NEW n \in Names, LookUp(j, n)
        PROVE  \E rec \in JobRecord : Step(j, rec) /\ rec.attempt = job[j].attempt
                                       /\ rec.pc \notin {"place", "commit"}
    <2> DEFINE r == [job[j] EXCEPT !.pc = "write", !.row = n, !.known = lastSeen[n] # 0]
    <2>1. r \in JobRecord /\ r.attempt = job[j].attempt /\ r.pc = "write"
      <3>1. (lastSeen[n] # 0) \in BOOLEAN
        OBVIOUS
      <3> QED
        BY <1>1, <3>1 DEF JobRecord, Pcs
    <2>2. Step(j, r)
      BY <1>9 DEF LookUp
    <2> HIDE DEF r
    <2> QED
      BY <2>1, <2>2
  <1>10. CASE Upsert(j)
    <2> DEFINE r == [job[j] EXCEPT !.pc = "apply", !.todo = @ \ {job[j].row},
                                   !.written = @ \cup {job[j].row},
                                   !.row = None, !.known = FALSE]
    <2>1. job[j].row \in Names
      BY <1>10, RecordFacts DEF Upsert, IInv, WritesCoverPayload
    <2>2. r \in JobRecord /\ r.attempt = job[j].attempt /\ r.pc = "apply"
      BY <1>1, <2>1 DEF JobRecord, Pcs
    <2>3. Step(j, r)
      BY <1>10 DEF Upsert
    <2> HIDE DEF r
    <2> QED
      BY <2>2, <2>3, RecordFacts
  <1>11. CASE PlanParents(j)
    <2> DEFINE seen == SeenShares(j)
    <2> DEFINE r == [job[j] EXCEPT !.pc = "place",
                       !.moved = {s \in seen : ParentIn(s, seen) # parent[s]},
                       !.place = [s \in Shares |-> ParentIn(s, seen)]]
    <2>1. r \in JobRecord /\ r.attempt = job[j].attempt
      <3>1. seen \subseteq Shares
        BY DEF SeenShares, KnownShares
      <3>2. /\ {s \in seen : ParentIn(s, seen) # parent[s]} \in SUBSET Shares
            /\ [s \in Shares |-> ParentIn(s, seen)] \in [Shares -> Shares \cup {None}]
        BY <3>1, ParentInType
      <3> QED
        BY <1>1, <3>2 DEF JobRecord, Pcs
    <2>2. Step(j, r)
      BY <1>11 DEF PlanParents
    <2> HIDE DEF r
    <2> QED
      BY <1>11, <2>1, <2>2, RecordFacts
  <1>12. CASE WriteParents(j)
    <2> DEFINE r == [job[j] EXCEPT !.pc = "commit"]
    <2>1. /\ r \in JobRecord /\ r.attempt = job[j].attempt /\ r.written = job[j].written
          /\ r.moved = job[j].moved /\ r.place = job[j].place
      BY <1>1 DEF JobRecord, Pcs
    <2>2. Step(j, r) /\ job[j].pc = "place"
      BY <1>12 DEF WriteParents
    <2> HIDE DEF r
    <2> QED
      BY <2>1, <2>2, RecordFacts
  <1>13. CASE Commit(j)
    <2> DEFINE r == [NewJob EXCEPT !.pc = "record", !.attempt = job[j].attempt,
                                   !.id = job[j].id]
    <2>1. r \in JobRecord /\ r.attempt = job[j].attempt /\ r.pc = "record"
      BY <1>1, RecordFacts DEF NewJob, JobRecord, Pcs
    <2>2. Step(j, r)
      BY <1>13 DEF Commit
    <2> HIDE DEF r
    <2> QED
      BY <2>1, <2>2, RecordFacts
  <1>14. CASE RefuseDuplicate(j) \/ BreakDeadlock(j) \/ RefuseValue(j)
              \/ RecordSuccess(j) \/ RecordFailure(j) \/ Crash(j)
    <2>1. \E pc \in Ended : Finish(j, pc)
      BY <1>14 DEF RefuseDuplicate, BreakDeadlock, RefuseValue, RecordSuccess,
         RecordFailure, Crash, Ended
    <2> QED
      BY <1>2, <2>1 DEF Ended
  <1>15. CASE \E s \in Shares : ReadAcl(j, s)
    BY <1>7, <1>15, RecordFacts
  <1>16. CASE \E n \in Names : LookUp(j, n)
    BY <1>9, <1>16, RecordFacts
  <1> QED
    BY <1>3, <1>4, <1>5, <1>6, <1>8, <1>10, <1>11, <1>12, <1>13, <1>14, <1>15, <1>16
       DEF Progress

(* A share that has a row keeps it.                                        *)
LEMMA KnownGrows ==
  ASSUME IInv, [Next]_vars PROVE KnownShares \subseteq KnownShares'
  <1>1. ASSUME NEW j \in Jobs, Commit(j) PROVE KnownShares \subseteq KnownShares'
    <2>1. job[j].id # 0
      BY <1>1 DEF IInv, IdsAreIssued, Commit, InTransaction, TypeOK
    <2>2. \A n \in Names : lastSeen'[n] = IF n \in job[j].written THEN job[j].id
                                                             ELSE lastSeen[n]
      BY <1>1 DEF Commit, SeenBy
    <2> QED
      BY <2>1, <2>2 DEF KnownShares, Names
  <1>2. CASE UNCHANGED lastSeen
    BY <1>2 DEF KnownShares
  <1>3. ASSUME NEW j \in Jobs, StartLive(j) \/ SubmitPayload(j) \/ Progress(j) \/ Crash(j)
        PROVE  Commit(j) \/ UNCHANGED lastSeen
    BY <1>3 DEF StartLive, SubmitPayload, Progress, Crash, ListDirectory, NasFails,
       ReadAcl, OpenSnapshot, LookUp, Upsert, RefuseDuplicate, BreakDeadlock,
       PlanParents, WriteParents, RefuseValue, RecordSuccess, RecordFailure, tables
  <1> QED
    BY <1>1, <1>2, <1>3 DEF Next, vars

LEMMA PlansInit == Init => PlansFollowTables /\ AttemptsAreCounted
  BY DEF Init, NewJob, PlansFollowTables, AttemptsAreCounted

LEMMA PlansStep ==
  ASSUME IInv, PlansFollowTables, AttemptsAreCounted, [Next]_vars
  PROVE  PlansFollowTables' /\ AttemptsAreCounted'
  <1>1. CASE UNCHANGED vars
    <2>1. job' = job /\ KnownShares' = KnownShares
      BY <1>1 DEF vars, KnownShares
    <2>2. AttemptsAreCounted'
      BY <2>1 DEF AttemptsAreCounted
    <2>3. \A k \in Jobs : SeenShares(k)' = SeenShares(k)
      BY <2>1 DEF SeenShares
    <2> QED
      BY <2>1, <2>2, <2>3 DEF PlansFollowTables
  <1>2. ASSUME NEW j \in Jobs, StartLive(j) \/ SubmitPayload(j) \/ Progress(j) \/ Crash(j)
        PROVE  PlansFollowTables' /\ AttemptsAreCounted'
    <2>1. PICK rec \in JobRecord :
           /\ Step(j, rec)
           /\ rec.attempt >= job[j].attempt \/ rec.attempt = 1
           /\ \/ rec.pc \notin {"place", "commit"}
              \/ PlanParents(j)
              \/ /\ job[j].pc = "place" /\ rec.written = job[j].written
                 /\ rec.moved = job[j].moved /\ rec.place = job[j].place
      BY <1>2, StepTarget
    <2>2. /\ job'[j] = rec
          /\ \A k \in Jobs \ {j} : job'[k] = job[k]
      BY <2>1, StepFacts DEF IInv, TypeOK
    <2>3. KnownShares \subseteq KnownShares'
      BY KnownGrows
    <2>4. AttemptsAreCounted'
      <3>1. rec.attempt >= 1
        BY <2>1, RecordFacts DEF AttemptsAreCounted, JobRecord
      <3> QED
        BY <2>2, <3>1 DEF AttemptsAreCounted
    <2>5. ASSUME NEW k \in Jobs, job'[k].pc \in {"place", "commit"}
          PROVE  \E V \in SUBSET Shares :
                   /\ job'[k].written \cap Shares \subseteq V
                   /\ V \subseteq SeenShares(k)'
                   /\ job'[k].moved \subseteq V
                   /\ job'[k].place = [s \in Shares |-> ParentIn(s, V)]
      <3>1. CASE k = j /\ PlanParents(j)
        <4>1. SeenShares(j) \in SUBSET Shares
          BY DEF SeenShares, KnownShares
        <4>2. /\ job'[j].written = job[j].written
              /\ job'[j].moved \subseteq SeenShares(j)
              /\ job'[j].place = [s \in Shares |-> ParentIn(s, SeenShares(j))]
          BY <3>1, RecordFacts DEF PlanParents, Step, IInv, TypeOK, JobRecord
        <4>3. /\ job[j].written \cap Shares \subseteq SeenShares(j)
              /\ SeenShares(j) \subseteq SeenShares(j)'
          BY <2>3, <4>2 DEF SeenShares
        <4> QED
          BY <3>1, <4>1, <4>2, <4>3
      <3>2. CASE ~(k = j /\ PlanParents(j))
        <4>1. /\ job[k].pc \in {"place", "commit"}
              /\ job'[k].written = job[k].written
              /\ job'[k].moved = job[k].moved /\ job'[k].place = job[k].place
          BY <2>1, <2>2, <2>5, <3>2
        <4>2. PICK V \in SUBSET Shares :
                /\ job[k].written \cap Shares \subseteq V
                /\ V \subseteq SeenShares(k)
                /\ job[k].moved \subseteq V
                /\ job[k].place = [s \in Shares |-> ParentIn(s, V)]
          BY <4>1 DEF PlansFollowTables
        <4>3. SeenShares(k) \subseteq SeenShares(k)'
          BY <2>3, <4>1 DEF SeenShares
        <4> QED
          BY <4>1, <4>2, <4>3
      <3> QED
        BY <3>1, <3>2
    <2> QED
      BY <2>4, <2>5 DEF PlansFollowTables
  <1> QED
    BY <1>1, <1>2 DEF Next

(* The rows a job commits and the parents it gives them, as Apply has it.  *)
LEMMA CommitApplies ==
  ASSUME IInv, PlansFollowTables, NEW j \in Jobs, Commit(j)
  PROVE  \E id \in 1..nextId, listing \in SUBSET Names, seen \in SUBSET Shares :
           Directory!Apply(j, id, listing, seen)
  <1> DEFINE me == job[j]
  <1> DEFINE known == {s \in Shares : lastSeen'[s] # 0}
  <1> USE DEF IInv
  <1>1. /\ me.pc = "commit"
        /\ snapshots' = snapshots \cup {[id |-> me.id, job |-> j, payload |-> me.payload]}
        /\ lastSeen' = [n \in Names |-> SeenBy(me, n, lastSeen[n])]
        /\ parent' = [s \in Shares |-> PlacedBy(me, s, parent[s])]
        /\ UNCHANGED <<nextId, runs, overlapped>>
    BY DEF Commit
  <1>2. /\ me.id \in 1..nextId /\ \A x \in snapshots : x.id # me.id /\ x.job # j
        /\ me.written = me.payload /\ me.payload \in SUBSET Names
        /\ ~overlapped => me.id = nextId
    BY <1>1, RecordFacts DEF IdsAreIssued, InTransaction, TablesFollowJobs,
       WritesCoverPayload, AloneIsUndisturbed
  <1>3. lastSeen' = [n \in Names |-> IF n \in me.payload THEN me.id ELSE lastSeen[n]]
    BY <1>1, <1>2 DEF SeenBy
  <1>4. me.id # 0
    BY <1>2 DEF TypeOK
  <1>5. known = SeenShares(j)
    BY <1>2, <1>3, <1>4 DEF SeenShares, KnownShares, Names
  <1>6. \A s \in Shares : \A V : Directory!HangsUnder(s, ParentIn(s, V), V)
    <2> SUFFICES ASSUME NEW s \in Shares, NEW V
                 PROVE  Directory!HangsUnder(s, ParentIn(s, V), V)
      OBVIOUS
    <2>1. \A t : Directory!Contains(t, s, V) <=> Deepest(t, s, V)
      BY DEF Deepest, Directory!Contains
    <2>2. CASE \E t \in Shares : Deepest(t, s, V)
      <3>1. Deepest(CHOOSE t \in Shares : Deepest(t, s, V), s, V)
        BY <2>2
      <3>2. ParentIn(s, V) = CHOOSE t \in Shares : Deepest(t, s, V)
        BY <2>2 DEF ParentIn
      <3> QED
        BY <2>1, <3>1, <3>2 DEF Directory!HangsUnder
    <2>3. CASE ~\E t \in Shares : Deepest(t, s, V)
      <3>1. ParentIn(s, V) = None
        BY <2>3 DEF ParentIn
      <3> QED
        BY <2>1, <2>3, <3>1 DEF Directory!HangsUnder
    <2> QED
      BY <2>2, <2>3
  <1>7. PICK V \in SUBSET Shares :
          /\ me.written \cap Shares \subseteq V
          /\ V \subseteq SeenShares(j)
          /\ me.moved \subseteq V
          /\ me.place = [s \in Shares |-> ParentIn(s, V)]
          /\ ~overlapped => V = SeenShares(j)
    <2>1. CASE overlapped
      BY <1>1, <2>1 DEF PlansFollowTables
    <2>2. CASE ~overlapped
      <3>1. /\ me.moved \subseteq SeenShares(j)
            /\ me.place = [s \in Shares |-> ParentIn(s, SeenShares(j))]
        BY <1>1, <2>2 DEF AloneIsUndisturbed
      <3>2. SeenShares(j) \in SUBSET Shares /\ me.written \cap Shares \subseteq SeenShares(j)
        BY DEF SeenShares, KnownShares
      <3> QED
        BY <3>1, <3>2
    <2> QED
      BY <2>1, <2>2
  <1>8. ASSUME NEW s \in Shares
        PROVE  parent'[s] = parent[s] \/ (s \in V /\ Directory!HangsUnder(s, parent'[s], V))
    <2>1. CASE s \in me.moved
      <3>1. parent'[s] = ParentIn(s, V) /\ s \in V
        BY <1>1, <1>7, <2>1 DEF PlacedBy
      <3> QED
        BY <1>6, <3>1
    <2>2. CASE s \notin me.moved
      BY <1>1, <2>2 DEF PlacedBy
    <2> QED
      BY <2>1, <2>2
  <1>9. ASSUME ~overlapped, NEW s \in V
        PROVE  Directory!HangsUnder(s, parent'[s], V)
    <2>1. me.moved = {t \in SeenShares(j) : ParentIn(t, SeenShares(j)) # parent[t]}
      BY <1>1, <1>9 DEF AloneIsUndisturbed
    <2>2. parent'[s] = ParentIn(s, V)
      BY <1>1, <1>7, <1>9, <2>1 DEF PlacedBy
    <2> QED
      BY <1>6, <1>7, <2>2
  <1>10. me.payload \cap Shares \subseteq V /\ V \subseteq known
    BY <1>2, <1>5, <1>7
  <1> DEFINE stage == [k \in Jobs |-> StageOf(job[k].pc)]
  <1>11. stage[j] = "running" /\ stage' = [stage EXCEPT ![j] = "applied"]
    <2>1. job' = [job EXCEPT ![j] = [NewJob EXCEPT !.pc = "record", !.attempt = me.attempt,
                                                   !.id = me.id]]
      BY DEF Commit, Step
    <2>2. [NewJob EXCEPT !.pc = "record", !.attempt = me.attempt, !.id = me.id].pc = "record"
      BY DEF NewJob
    <2>3. job'[j].pc = "record" /\ \A k \in Jobs \ {j} : job'[k] = job[k]
      BY <2>1, <2>2 DEF TypeOK
    <2> QED
      BY <1>1, <2>3 DEF StageOf, Ended
  <1>12. Directory!Apply(j, me.id, me.payload, V)
    BY <1>1, <1>2, <1>3, <1>5, <1>7, <1>8, <1>9, <1>10, <1>11
       DEF Directory!Apply, Directory!To
  <1> QED
    BY <1>2, <1>12

LEMMA DirectoryInit == Init => Directory!Init
  <1> SUFFICES ASSUME Init PROVE Directory!Init
    OBVIOUS
  <1>1. \A j \in Jobs : StageOf(job[j].pc) = "waiting"
    BY DEF Init, NewJob, StageOf
  <1> QED
    BY <1>1 DEF Init, Directory!Init

(* A step that takes job j to pc moves its stage, and no other.            *)
LEMMA StageStep ==
  ASSUME IInv, NEW j \in Jobs, NEW rec, Step(j, rec)
  PROVE  [k \in Jobs |-> StageOf(job'[k].pc)] =
           [[k \in Jobs |-> StageOf(job[k].pc)] EXCEPT ![j] = StageOf(rec.pc)]
  <1>1. job'[j] = rec /\ \A k \in Jobs \ {j} : job'[k] = job[k]
    BY StepFacts DEF IInv, TypeOK
  <1> QED
    BY <1>1

(* Steps before the transaction commits show nothing.                      *)
LEMMA SilentStep ==
  ASSUME IInv, NEW j \in Jobs, NEW rec, Step(j, rec), StageOf(rec.pc) = StageOf(job[j].pc),
         UNCHANGED <<tables, nextId, overlapped>>
  PROVE  UNCHANGED Directory!vars
  <1>1. [k \in Jobs |-> StageOf(job'[k].pc)] = [k \in Jobs |-> StageOf(job[k].pc)]
    BY StageStep
  <1> QED
    BY <1>1 DEF Directory!vars, tables

LEMMA WorkingSteps ==
  ASSUME IInv, NEW j \in Jobs,
         \/ ListDirectory(j) \/ NasFails(j) \/ \E s \in Shares : ReadAcl(j, s)
         \/ \E n \in Names : LookUp(j, n)
         \/ Upsert(j) \/ PlanParents(j) \/ WriteParents(j)
  PROVE  UNCHANGED Directory!vars
  <1>1. /\ UNCHANGED <<tables, nextId, overlapped>>
        /\ StageOf(job[j].pc) = "running"
        /\ StageOf(job'[j].pc) = "running"
    <2>1. job \in [Jobs -> JobRecord]
      BY DEF IInv, TypeOK
    <2>2. CASE ListDirectory(j)
      <3>1. PICK L : Step(j, [job[j] EXCEPT !.pc = "read", !.payload = L, !.toRead = Shares])
        BY <2>2 DEF ListDirectory
      <3>2. job'[j].pc = "read"
        BY <2>1, <3>1 DEF Step, JobRecord
      <3> QED
        BY <2>2, <3>2 DEF ListDirectory, StageOf, Ended, tables
    <2>3. CASE NasFails(j)
      BY <2>1, <2>3 DEF NasFails, AfterNasError, Step, StageOf, Ended, JobRecord, tables
    <2>4. CASE \E s \in Shares : ReadAcl(j, s)
      <3>1. PICK s, answer :
              Step(j, [job[j] EXCEPT !.toRead = @ \ {s}, !.payload = @ \cup answer])
        BY <2>4 DEF ReadAcl
      <3>2. job'[j].pc = job[j].pc
        BY <2>1, <3>1 DEF Step, JobRecord
      <3> QED
        BY <2>4, <3>2 DEF ReadAcl, StageOf, Ended, tables
    <2>5. CASE \E n \in Names : LookUp(j, n)
      <3>1. PICK n, found :
              Step(j, [job[j] EXCEPT !.pc = "write", !.row = n, !.known = found])
        BY <2>5 DEF LookUp
      <3>2. job'[j].pc = "write"
        BY <2>1, <3>1 DEF Step, JobRecord
      <3> QED
        BY <2>5, <3>2 DEF LookUp, StageOf, Ended, tables
    <2>6. CASE Upsert(j)
      BY <2>1, <2>6 DEF Upsert, Step, StageOf, Ended, JobRecord, tables
    <2>7. CASE PlanParents(j)
      BY <2>1, <2>7 DEF PlanParents, Step, StageOf, Ended, JobRecord, tables
    <2>8. CASE WriteParents(j)
      BY <2>1, <2>8 DEF WriteParents, Step, StageOf, Ended, JobRecord, tables
    <2> QED
      BY <2>2, <2>3, <2>4, <2>5, <2>6, <2>7, <2>8
  <1>2. PICK rec : Step(j, rec)
    BY StepTarget DEF Progress
  <1>3. job'[j] = rec
    BY <1>2, StepFacts DEF IInv, TypeOK
  <1> QED
    BY <1>1, <1>2, <1>3, SilentStep

(* Each step of a job is a step of the directory's synchronisation or      *)
(* shows nothing.                                                          *)
LEMMA DirectoryStep ==
  ASSUME IInv, PlansFollowTables, AttemptsAreCounted, [Next]_vars
  PROVE  [Directory!Next]_(Directory!vars)
  <1> DEFINE stage == [k \in Jobs |-> StageOf(job[k].pc)]
  <1>1. CASE UNCHANGED vars
    BY <1>1 DEF vars, Directory!vars
  <1>2. ASSUME NEW j \in Jobs, StartLive(j) \/ SubmitPayload(j)
        PROVE  Directory!Begin(j)
    <2>1. PICK rec : Step(j, rec) /\ rec.pc \in {"connect", "read"}
      <3>1. job[j] \in JobRecord
        BY RecordFacts
      <3>2. CASE StartLive(j)
        BY <3>1, <3>2 DEF StartLive, JobRecord
      <3>3. CASE SubmitPayload(j)
        <4>1. PICK S : Step(j, [job[j] EXCEPT !.pc = "read", !.payload = S])
          BY <3>3 DEF SubmitPayload
        <4>2. [job[j] EXCEPT !.pc = "read", !.payload = S].pc = "read"
          BY <3>1 DEF JobRecord
        <4> QED
          BY <4>1, <4>2
      <3> QED
        BY <1>2, <3>2, <3>3
    <2>2. stage' = [stage EXCEPT ![j] = "running"]
      <3>1. StageOf(rec.pc) = "running"
        BY <2>1 DEF StageOf, Ended
      <3> QED
        BY <2>1, <3>1, StageStep
    <2>3. /\ job[j].pc = "new" /\ Starts(j) /\ UNCHANGED <<tables, nextId>>
      BY <1>2 DEF StartLive, SubmitPayload
    <2>4. \A k \in Jobs : InProgress(k) <=> stage[k] \in {"running", "applied"}
      BY DEF InProgress, StageOf, Ended
    <2>5. stage[j] = "waiting"
      BY <2>3 DEF StageOf
    <2> QED
      BY <2>2, <2>3, <2>4, <2>5 DEF Directory!Begin, Directory!To, Directory!directory,
         Starts, tables
  <1>3. ASSUME NEW j \in Jobs, OpenSnapshot(j) PROVE Directory!Issue
    <2>1. PICK rec : Step(j, rec) /\ rec.pc = "apply"
      <3>1. job[j] \in JobRecord
        BY RecordFacts
      <3> DEFINE r == [job[j] EXCEPT !.pc = "apply", !.id = nextId + 1,
                                     !.todo = job[j].payload]
      <3>2. r.pc = "apply"
        BY <3>1 DEF JobRecord
      <3>3. Step(j, r)
        BY <1>3 DEF OpenSnapshot
      <3> HIDE DEF r
      <3> QED
        BY <3>2, <3>3
    <2>2. /\ job[j].pc = "read" /\ nextId' = nextId + 1
          /\ UNCHANGED <<tables, overlapped>>
      BY <1>3 DEF OpenSnapshot
    <2>3. stage' = stage
      <3>1. StageOf(rec.pc) = "running" /\ stage[j] = "running"
        BY <2>1, <2>2 DEF StageOf, Ended
      <3> QED
        BY <2>1, <3>1, StageStep
    <2> QED
      BY <2>2, <2>3 DEF Directory!Issue, Directory!directory, tables
  <1>4. ASSUME NEW j \in Jobs, NEW pc \in Ended, Finish(j, pc)
        PROVE  stage' = [stage EXCEPT ![j] = "over"]
    <2>1. PICK rec : Step(j, rec) /\ rec.pc = pc
      BY <1>4 DEF Finish, NewJob
    <2>2. StageOf(rec.pc) = "over"
      BY <2>1 DEF StageOf, Ended
    <2> QED
      BY <2>1, <2>2, StageStep
  <1>5. ASSUME NEW j \in Jobs,
               RefuseDuplicate(j) \/ BreakDeadlock(j) \/ RefuseValue(j) \/ Crash(j)
        PROVE  Directory!Abandon(j)
    <2>1. \E pc \in Ended : Finish(j, pc)
      BY <1>5 DEF RefuseDuplicate, BreakDeadlock, RefuseValue, Crash, Ended
    <2>2. stage' = [stage EXCEPT ![j] = "over"]
      BY <1>4, <2>1
    <2>3. stage[j] \in {"running", "applied"}
      <3>1. InProgress(j)
        <4>1. CASE BreakDeadlock(j)
          <5>1. \E k \in Jobs : WaitsFor(j, k)
            BY <4>1 DEF BreakDeadlock
          <5> QED
            BY <5>1 DEF WaitsFor, Wanted, InProgress, Ended
        <4>2. CASE RefuseDuplicate(j) \/ RefuseValue(j) \/ Crash(j)
          BY <4>2 DEF RefuseDuplicate, RefuseValue, Crash, InProgress, Ended
        <4> QED
          BY <1>5, <4>1, <4>2
      <3> QED
        BY <3>1 DEF InProgress, StageOf, Ended
    <2>4. UNCHANGED <<tables, nextId, overlapped>>
      BY <1>5 DEF RefuseDuplicate, BreakDeadlock, RefuseValue, Crash
    <2> QED
      BY <2>2, <2>3, <2>4 DEF Directory!Abandon, Directory!To, Directory!directory, tables
  <1>6. ASSUME NEW j \in Jobs, RecordSuccess(j)
        PROVE  \E x \in snapshots, attempts \in 1..MaxAttempts :
                 Directory!Register(j, x, attempts)
    <2>1. PICK x \in snapshots : x.id = job[j].id /\ x.job = j
      BY <1>6 DEF RecordSuccess, IInv, TablesFollowJobs
    <2>2. job[j].attempt \in 1..MaxAttempts
      BY RecordFacts DEF AttemptsAreCounted
    <2>3. /\ runs' = runs \cup {[job |-> j, status |-> "succeeded",
                                 attempts |-> job[j].attempt, snapshot |-> x.id]}
          /\ job[j].pc = "record"
          /\ UNCHANGED <<snapshots, lastSeen, parent, nextId, overlapped>>
      BY <1>6, <2>1 DEF RecordSuccess
    <2>4. stage' = [stage EXCEPT ![j] = "over"] /\ stage[j] = "applied"
      BY <1>4, <1>6, <2>3 DEF RecordSuccess, Ended, StageOf
    <2>5. Directory!Register(j, x, job[j].attempt)
      BY <2>1, <2>3, <2>4 DEF Directory!Register, Directory!To, Directory!directory
    <2> QED
      BY <2>2, <2>5
  <1>7. ASSUME NEW j \in Jobs, RecordFailure(j) PROVE Directory!RegisterFailure(j)
    <2>1. stage' = [stage EXCEPT ![j] = "over"] /\ stage[j] = "running"
      BY <1>4, <1>7 DEF RecordFailure, Ended, StageOf
    <2> QED
      BY <1>7, <2>1 DEF RecordFailure, Directory!RegisterFailure, Directory!To,
         Directory!directory
  <1>8. ASSUME NEW j \in Jobs, Progress(j) \/ Crash(j)
        PROVE  [Directory!Next]_(Directory!vars)
    BY <1>3, <1>5, <1>6, <1>7, <1>8, WorkingSteps, CommitApplies DEF Progress, Directory!Next
  <1> QED
    BY <1>1, <1>2, <1>8 DEF Next, Directory!Next

(* The refinement: every behaviour of the jobs, however they overlap, wait *)
(* for locks, are refused or die, applies whole listings one at a time.    *)
THEOREM SyncRefinement == Spec => SyncsAreAtomic
  <1>1. Init => PlansFollowTables /\ AttemptsAreCounted /\ Directory!Init
    BY PlansInit, DirectoryInit
  <1>2. IInv /\ PlansFollowTables /\ AttemptsAreCounted /\ [Next]_vars
          => PlansFollowTables' /\ AttemptsAreCounted'
    BY PlansStep
  <1>3. IInv /\ PlansFollowTables /\ AttemptsAreCounted /\ [Next]_vars
          => [Directory!Next]_(Directory!vars)
    BY DirectoryStep
  <1> QED
    BY <1>1, <1>2, <1>3, SyncInvariant, PTL DEF Spec, SyncsAreAtomic, Directory!Spec

(* Through every overlap, parent_id leads to a folder that contains the    *)
(* share and has a row: it never dangles and never makes a cycle.          *)
THEOREM ParentsContain == Spec => []ParentsContainTheirs
  <1>1. Init => ParentsContainTheirs /\ PlansFollowTables /\ AttemptsAreCounted
    <2>1. Init => ParentsContainTheirs
      BY DEF Init, ParentsContainTheirs
    <2> QED
      BY <2>1, PlansInit
  <1>2. IInv /\ PlansFollowTables /\ AttemptsAreCounted /\ [Next]_vars
          => PlansFollowTables' /\ AttemptsAreCounted'
    BY PlansStep
  <1>3. IInv /\ PlansFollowTables /\ ParentsContainTheirs /\ [Next]_vars
          => ParentsContainTheirs'
    <2> SUFFICES ASSUME IInv, PlansFollowTables, ParentsContainTheirs, [Next]_vars,
                        NEW s \in Shares, parent'[s] # None
                 PROVE  parent'[s] \in Above[s] /\ {s, parent'[s]} \subseteq KnownShares'
      BY DEF ParentsContainTheirs
    <2>1. KnownShares \subseteq KnownShares'
      BY KnownGrows
    <2>2. CASE parent'[s] = parent[s]
      BY <2>1, <2>2 DEF ParentsContainTheirs
    <2>3. ASSUME NEW j \in Jobs, Commit(j), parent'[s] # parent[s]
          PROVE  parent'[s] \in Above[s] /\ {s, parent'[s]} \subseteq KnownShares'
      <3>1. job[j].pc = "commit" /\ parent' = [t \in Shares |-> PlacedBy(job[j], t, parent[t])]
        BY <2>3 DEF Commit
      <3>2. PICK V \in SUBSET Shares :
              /\ V \subseteq SeenShares(j)
              /\ job[j].moved \subseteq V
              /\ job[j].place = [t \in Shares |-> ParentIn(t, V)]
        BY <3>1 DEF PlansFollowTables
      <3>3. s \in V /\ parent'[s] = ParentIn(s, V)
        BY <2>3, <3>1, <3>2 DEF PlacedBy
      <3>4. Deepest(ParentIn(s, V), s, V)
        <4>1. \E t \in Shares : Deepest(t, s, V)
          BY <3>3 DEF ParentIn
        <4> QED
          BY <4>1 DEF ParentIn
      <3>5. SeenShares(j) \subseteq KnownShares'
        <4>1. job[j].id # 0
          BY <3>1 DEF IInv, IdsAreIssued, InTransaction, TypeOK
        <4>2. \A n \in Names : lastSeen'[n] = IF n \in job[j].written THEN job[j].id
                                                                 ELSE lastSeen[n]
          BY <2>3 DEF Commit, SeenBy
        <4> QED
          BY <4>1, <4>2 DEF SeenShares, KnownShares, Names
      <3> QED
        BY <3>2, <3>3, <3>4, <3>5 DEF Deepest
    <2>4. ASSUME parent'[s] # parent[s] PROVE \E j \in Jobs : Commit(j)
      BY <2>4 DEF Next, vars, StartLive, SubmitPayload, Progress, Crash, ListDirectory,
         NasFails, ReadAcl, OpenSnapshot, LookUp, Upsert, RefuseDuplicate, BreakDeadlock,
         PlanParents, WriteParents, RefuseValue, RecordSuccess, RecordFailure, tables
    <2> QED
      BY <2>2, <2>3, <2>4
  <1> QED
    BY <1>1, <1>2, <1>3, SyncInvariant, PTL DEF Spec
=============================================================================
