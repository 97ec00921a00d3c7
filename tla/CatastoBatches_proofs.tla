----------------------- MODULE CatastoBatches_proofs -----------------------
(* Machine-checked proofs about CatastoBatches, for every set of users,    *)
(* batches, requests and handler threads and every bound.                  *)
EXTENDS CatastoBatches, FiniteSetTheorems, TLAPS

USE CatalogAssumption, NoneAssumption, BoundsAssumption

-----------------------------------------------------------------------------
(* The row operators respect the types of the rows.                        *)

(* A counter is a natural number.                                          *)
LEMMA CountedAsNat ==
  ASSUME NEW s, NEW rows, NEW b
  PROVE  CountedAs(s, rows, b) \in Nat
<1>1. IsFiniteSet({r \in RequestsOf(b) : rows[r].status = s})
  BY FS_Subset DEF RequestsOf
<1> QED
  BY <1>1, FS_CardinalityType DEF CountedAs

(* Recounting a batch row gives a batch row, and leaves its other columns. *)
LEMMA RecountedType ==
  ASSUME NEW row \in BatchRow, NEW rows, NEW b
  PROVE  /\ Recounted(row, rows, b) \in BatchRow
         /\ Recounted(row, rows, b).status = row.status
         /\ Recounted(row, rows, b).failed = CountedAs("failed", rows, b)
BY CountedAsNat DEF Recounted, BatchRow

(* A flush of typed rows is a typed row.                                   *)
LEMMA FlushType ==
  /\ \A cur, seen, new \in BatchRow : FlushBatch(cur, seen, new) \in BatchRow
  /\ \A cur, seen, new \in RequestRow : FlushRequest(cur, seen, new) \in RequestRow
BY DEF FlushBatch, FlushRequest, Column, BatchRow, RequestRow

(* The row an operation computes from a typed row is typed.                *)
LEMMA RowOperatorsType ==
  ASSUME NEW row \in RequestRow
  PROVE  /\ AbsentRequest \in RequestRow
         /\ CancelledRow(row) \in RequestRow
         /\ RetriedRow(row) \in RequestRow
         /\ RecoveredRow(row) \in RequestRow
         /\ FailedRow(row) \in RequestRow
         /\ AskedRow(row) \in RequestRow
         /\ \A s \in {"completed", "failed", "skipped"} :
              PersistedRow(row, s) \in RequestRow
<1>1. AbsentRequest \in RequestRow
  BY DEF AbsentRequest, RequestRow, RequestStatus, Expiry
<1>2. CancelledRow(row) \in RequestRow /\ RecoveredRow(row) \in RequestRow
  BY DEF CancelledRow, RecoveredRow, RequestRow, RequestStatus
<1>3. RetriedRow(row) \in RequestRow
  BY <1>1 DEF RetriedRow, AbsentRequest, RequestRow, RequestStatus
<1>4. FailedRow(row) \in RequestRow
  BY DEF FailedRow, RequestRow, RequestStatus
<1>5. \A s \in {"completed", "failed", "skipped"} : PersistedRow(row, s) \in RequestRow
  BY DEF PersistedRow, RequestRow, RequestStatus
<1>6. AskedRow(row) \in RequestRow
  BY DEF AskedRow, RequestRow, RequestStatus
<1> QED
  BY <1>1, <1>2, <1>3, <1>4, <1>5, <1>6

(* Snapshots and call records are typed.                                   *)
LEMMA SnapshotType ==
  ASSUME TypeOK
  PROVE  /\ Unread \in [Requests -> RequestRow]
         /\ \A S : ReadRows(S) \in [Requests -> RequestRow]
         /\ AbsentBatch \in BatchRow
         /\ NoCall \in CallRecord
         /\ NoSession \in SessionRecord
<1>1. AbsentRequest \in RequestRow
  BY DEF AbsentRequest, RequestRow, RequestStatus, Expiry
<1>2. AbsentBatch \in BatchRow
  BY DEF AbsentBatch, BatchRow, BatchStatus
<1>3. Unread \in [Requests -> RequestRow]
  BY <1>1 DEF Unread
<1>4. \A S : ReadRows(S) \in [Requests -> RequestRow]
  BY <1>1 DEF ReadRows, TypeOK
<1>5. NoCall \in CallRecord
  BY <1>2, <1>3 DEF NoCall, CallRecord, Operations
<1>6. NoSession \in SessionRecord
  BY <1>2, <1>3 DEF NoSession, SessionRecord
<1> QED
  BY <1>2, <1>3, <1>4, <1>5, <1>6

-----------------------------------------------------------------------------
(* Type correctness, one lemma per group of actions.                       *)

(* Reading a call's rows changes the handler's record only.                *)
LEMMA ReadType ==
  ASSUME TypeOK, NEW h \in Handlers, Read(h)
  PROVE  TypeOK'
<1>1. PICK c \in CallRecord : Receive(h, c)
  <2>1. ASSUME NEW b \in Batches, NEW op \in Operations, NEW rows \in [Requests -> RequestRow]
        PROVE  BatchCall(op, b, rows) \in CallRecord
    BY DEF BatchCall, CallRecord, TypeOK
  <2>2. ASSUME NEW r \in Requests, NEW op \in Operations
        PROVE  CaptchaCall(op, r) \in CallRecord
    BY SnapshotType DEF CaptchaCall, CallRecord, TypeOK
  <2> QED
    BY <2>1, <2>2, SnapshotType
    DEF Read, ReadStart, ReadCancel, ReadRetry, ReadCaptchaAnswer, Operations
<1> QED
  BY <1>1 DEF Receive, TypeOK, tables

(* A commit writes typed rows.                                             *)
LEMMA CommitType ==
  ASSUME TypeOK, CallsAreBound, NEW h \in Handlers, Commit(h)
  PROVE  TypeOK'
<1>1. call[h] \in CallRecord /\ NoCall \in CallRecord
  BY SnapshotType DEF TypeOK
<1>2. ASSUME NEW newRows \in [Requests -> RequestRow], NEW newRow \in BatchRow,
             call[h].op \in {"cancel", "retry"},
             CommitBatchAndRows(h, newRows, newRow)
      PROVE  TypeOK'
  <2>1. call[h].batch \in Batches
    BY <1>2 DEF CallsAreBound
  <2>2. request' \in [Requests -> RequestRow]
    BY <1>1, <1>2, FlushType DEF CommitBatchAndRows, TypeOK, CallRecord
  <2>3. Recounted(newRow, newRows, call[h].batch) \in BatchRow
    BY <1>2, RecountedType
  <2>4. batch' \in [Batches -> BatchRow]
    BY <1>1, <1>2, <2>1, <2>3, FlushType DEF CommitBatchAndRows, TypeOK, CallRecord
  <2> QED
    BY <1>1, <1>2, <2>2, <2>4 DEF CommitBatchAndRows, Reply, TypeOK
<1>3. ASSUME NEW new \in RequestRow, NEW solution \in BOOLEAN,
             call[h].op \in {"solve", "skip"},
             CommitCaptchaAnswer(h, new, solution)
      PROVE  TypeOK'
  <2>1. call[h].req \in Requests
    BY <1>3 DEF CallsAreBound
  <2>2. FlushRequest(request[call[h].req], call[h].rows[call[h].req], new) \in RequestRow
    BY <1>1, <1>3, <2>1, FlushType DEF TypeOK, CallRecord
  <2>3. request' \in [Requests -> RequestRow]
    BY <1>3, <2>1, <2>2 DEF CommitCaptchaAnswer, TypeOK, RequestRow
  <2> QED
    BY <1>1, <1>3, <2>3 DEF CommitCaptchaAnswer, Reply, TypeOK
<1>4. CASE CommitStart(h)
  <2>1. call[h].batch \in Batches
    BY <1>4 DEF CommitStart, CallsAreBound
  <2> DEFINE new == [call[h].row EXCEPT !.status = "processing",
                       !.startedAt = IF @ = 0 THEN clock + 1 ELSE @]
  <2>2. new \in BatchRow
    <3>1. call[h].row \in BatchRow
      BY <1>1 DEF CallRecord
    <3>2. (IF call[h].row.startedAt = 0 THEN clock + 1 ELSE call[h].row.startedAt) \in Nat
      BY <3>1 DEF TypeOK, BatchRow
    <3> QED
      BY <3>1, <3>2 DEF BatchRow, BatchStatus
  <2>3. FlushBatch(batch[call[h].batch], call[h].row, new) \in BatchRow
    BY <1>1, <2>1, <2>2, FlushType DEF TypeOK, CallRecord
  <2>4. batch' \in [Batches -> BatchRow]
    BY <1>4, <2>1, <2>3 DEF CommitStart, TypeOK
  <2> QED
    BY <1>1, <1>4, <2>4 DEF CommitStart, Reply, TypeOK
<1>5. CASE CommitCancel(h)
  <2>1. [r \in Requests |-> CancelledRow(call[h].rows[r])] \in [Requests -> RequestRow]
    BY <1>1, RowOperatorsType DEF CallRecord
  <2>2. [call[h].row EXCEPT !.status = "cancelled"] \in BatchRow
    BY <1>1 DEF CallRecord, BatchRow, BatchStatus
  <2> QED
    BY <1>2, <1>5, <2>1, <2>2 DEF CommitCancel
<1>6. CASE CommitRetry(h)
  <2>1. [r \in Requests |-> RetriedRow(call[h].rows[r])] \in [Requests -> RequestRow]
    BY <1>1, RowOperatorsType DEF CallRecord
  <2>2. [call[h].row EXCEPT !.status = "pending"] \in BatchRow
    BY <1>1 DEF CallRecord, BatchRow, BatchStatus
  <2> QED
    BY <1>2, <1>6, <2>1, <2>2 DEF CommitRetry
<1>7. CASE CommitSolve(h)
  <2> DEFINE seen == call[h].rows[call[h].req]
  <2>1. call[h].req \in Requests /\ seen \in RequestRow /\ request[call[h].req] \in RequestRow
    BY <1>1, <1>7 DEF CommitSolve, CallsAreBound, CallRecord, TypeOK
  <2>2. ASSUME NEW text \in BOOLEAN
        PROVE  /\ [seen EXCEPT !.solution = text, !.skip = FALSE] \in RequestRow
               /\ Column(request[call[h].req].solution, seen.solution, text) \in BOOLEAN
    BY <2>1 DEF RequestRow, Column
  <2>3. PICK text \in BOOLEAN :
          \E written \in {Column(request[call[h].req].solution, seen.solution, text), text} :
            CommitCaptchaAnswer(h, [seen EXCEPT !.solution = text, !.skip = FALSE], written)
    BY <1>7 DEF CommitSolve
  <2>4. call[h].op \in {"solve", "skip"}
    BY <1>7 DEF CommitSolve
  <2> DEFINE new == [seen EXCEPT !.solution = text, !.skip = FALSE]
  <2>5. PICK written \in BOOLEAN : CommitCaptchaAnswer(h, new, written)
    BY <2>2, <2>3
  <2>6. new \in RequestRow
    BY <2>2
  <2> HIDE DEF new
  <2> QED
    BY <1>3, <2>4, <2>5, <2>6
<1>8. CASE CommitSkip(h)
  <2> DEFINE seen == call[h].rows[call[h].req]
             new == [seen EXCEPT !.solution = FALSE, !.skip = TRUE]
  <2>1. call[h].req \in Requests /\ seen \in RequestRow /\ request[call[h].req] \in RequestRow
    BY <1>1, <1>8 DEF CommitSkip, CallsAreBound, CallRecord, TypeOK
  <2>2. /\ new \in RequestRow
        /\ Column(request[call[h].req].solution, seen.solution, new.solution) \in BOOLEAN
    BY <2>1 DEF RequestRow, Column
  <2> QED
    BY <1>3, <1>8, <2>2 DEF CommitSkip
<1> QED
  BY <1>4, <1>5, <1>6, <1>7, <1>8 DEF Commit

(* What the worker saves is typed if what it computed is.                  *)
LEMMA SaveType ==
  ASSUME TypeOK, NEW newRows \in [Requests -> RequestRow], NEW newRow \in BatchRow,
         wk.pc = "down" \/ wk.batch \in Batches, Save(newRows, newRow)
  PROVE  /\ request' \in [Requests -> RequestRow]
         /\ batch' \in [Batches -> BatchRow]
         /\ session' \in SessionRecord
<1>1. /\ request \in [Requests -> RequestRow] /\ batch \in [Batches -> BatchRow]
      /\ session.row \in BatchRow /\ session.rows \in [Requests -> RequestRow]
  BY DEF TypeOK, SessionRecord
<1>2. request' \in [Requests -> RequestRow]
  <2>1. \A r \in Requests :
          FlushRequest(request[r], session.rows[r], newRows[r]) \in RequestRow
    BY <1>1, FlushType
  <2> QED
    BY <1>1, <2>1 DEF Save
<1>3. batch' \in [Batches -> BatchRow]
  <2>1. CASE wk.pc = "down"
    BY <1>1, <2>1 DEF Save
  <2>2. CASE wk.pc # "down"
    <3>1. FlushBatch(batch[wk.batch], session.row, newRow) \in BatchRow
      BY <1>1, <2>2, FlushType
    <3> QED
      BY <1>1, <2>2, <3>1 DEF Save
  <2> QED
    BY <2>1, <2>2
<1>4. session' \in SessionRecord
  BY SnapshotType DEF Save
<1> QED
  BY <1>2, <1>3, <1>4

(* So is what it saves of the one row in its hands.                        *)
LEMMA SaveRequestType ==
  ASSUME TypeOK, NEW new \in RequestRow, wk.pc = "down" \/ wk.batch \in Batches,
         SaveRequest(new)
  PROVE  /\ request' \in [Requests -> RequestRow]
         /\ batch' \in [Batches -> BatchRow]
         /\ session' \in SessionRecord
<1> DEFINE rows == [session.rows EXCEPT ![wk.req] = new]
<1>1. rows \in [Requests -> RequestRow]
  BY DEF TypeOK, SessionRecord
<1>2. Recounted(session.row, rows, wk.batch) \in BatchRow
  BY RecountedType DEF TypeOK, SessionRecord
<1>3. Save(rows, Recounted(session.row, rows, wk.batch))
  BY DEF SaveRequest
<1> HIDE DEF rows
<1> QED
  BY <1>1, <1>2, <1>3, SaveType

(* The worker's steps keep the types.                                      *)
LEMMA WorkerType ==
  ASSUME TypeOK, WorkerHoldsOpenWork, WorkerStep
  PROVE  TypeOK'
<1> DEFINE Frame == /\ hasCredentials' = hasCredentials
                    /\ call' = call /\ calls' = calls /\ clock' = clock
                    /\ overlapped' = overlapped /\ stopRequested' \in BOOLEAN
                    /\ restarts' = restarts
<1>1. ASSUME Frame, batch' \in [Batches -> BatchRow],
             request' \in [Requests -> RequestRow], session' \in SessionRecord,
             documents' \subseteq Requests, wk' \in WorkerRecord
      PROVE  TypeOK'
  BY <1>1 DEF TypeOK
<1>2. WorkerOnly => Frame
  BY DEF WorkerOnly, TypeOK
<1>3. ASSUME NEW pc \in Pcs
      PROVE  WorkerAt(pc) \in WorkerRecord
  BY DEF WorkerAt, WorkerRecord, Results
<1>0. wk \in WorkerRecord /\ batch \in [Batches -> BatchRow]
      /\ request \in [Requests -> RequestRow] /\ documents \subseteq Requests
      /\ session \in SessionRecord /\ session.row \in BatchRow
      /\ session.rows \in [Requests -> RequestRow]
  BY DEF TypeOK, SessionRecord
<1>4. HoldsBatch => wk.batch \in Batches
  BY DEF WorkerHoldsOpenWork
<1>5. HoldsRequest => wk.req \in Requests
  BY DEF WorkerHoldsOpenWork
<1>6. ReadTables => TypeOK'
  <2> SUFFICES ASSUME ReadTables
               PROVE  TypeOK'
    OBVIOUS
  <2>1. (IF wk.pc = "down" THEN AbsentBatch ELSE batch[wk.batch]) \in BatchRow
    BY <1>0, <1>4, SnapshotType DEF ReadTables, Writing, HoldsBatch
  <2>2. ReadRows(InScope) \in [Requests -> RequestRow]
    BY SnapshotType
  <2>3. session' \in SessionRecord
    BY <2>1, <2>2 DEF ReadTables, SessionRecord
  <2> QED
    BY <1>0, <1>1, <1>2, <2>3 DEF ReadTables
<1>7. CASE Boot
  <2>1. [r \in Requests |-> RecoveredRow(session.rows[r])] \in [Requests -> RequestRow]
    BY <1>0, RowOperatorsType
  <2> QED
    BY <1>0, <1>1, <1>3, <1>7, <2>1, SaveType DEF Boot, Pcs
<1>8. CASE \E b \in Batches : TakeBatch(b)
  <2>1. PICK b \in Batches : TakeBatch(b)
    BY <1>8
  <2>2. wk' \in WorkerRecord
    BY <1>0, <2>1 DEF TakeBatch, WorkerRecord, Pcs
  <2> QED
    BY <1>0, <1>1, <1>2, <2>1, <2>2 DEF TakeBatch, NothingWritten
<1>9. CASE OpenBatch \/ Authenticate \/ NoRequestLeft \/ FlowNeedsAnswer
  BY <1>0, <1>1, <1>2, <1>9
  DEF OpenBatch, Authenticate, NoRequestLeft, FlowNeedsAnswer, NothingWritten,
      WorkerRecord, Pcs
<1>10. CASE RefuseBatch
  <2>1. wk.batch \in Batches
    BY <1>4, <1>10 DEF RefuseBatch, HoldsBatch
  <2>2. batch' \in [Batches -> BatchRow]
    <3> DEFINE row == [batch[wk.batch] EXCEPT !.status = "failed"]
    <3>1. batch \in [Batches -> BatchRow] /\ batch' = [batch EXCEPT ![wk.batch] = row]
      BY <1>10 DEF RefuseBatch, TypeOK
    <3>2. row \in BatchRow
      BY <2>1, <3>1 DEF BatchRow, BatchStatus
    <3> HIDE DEF row
    <3> QED
      BY <2>1, <3>1, <3>2
  <2> QED
    BY <1>0, <1>1, <1>2, <1>3, <1>10, <2>2 DEF RefuseBatch, Pcs
<1>11. CASE \E r \in Requests : PickRequest(r)
  <2>1. PICK r \in Requests : PickRequest(r)
    BY <1>11
  <2>2. wk' \in WorkerRecord
    BY <1>0, <2>1 DEF PickRequest, WorkerRecord, Pcs
  <2> QED
    BY <1>0, <1>1, <1>2, <2>1, <2>2 DEF PickRequest, NothingWritten
<1>12. CASE CloseRequest
  <2>1. wk.batch \in Batches /\ wk.req \in Requests
    BY <1>4, <1>5, <1>12 DEF CloseRequest, HoldsBatch, HoldsRequest
  <2> DEFINE seen == session.rows[wk.req]
             new == [seen EXCEPT !.status = ClosingStatus(seen)]
  <2>2. ClosingStatus(seen) \in RequestStatus
    BY <1>12 DEF CloseRequest, ClosingStatus, RequestStatus
  <2>3. new \in RequestRow
    <3>1. seen \in RequestRow
      BY <1>0, <2>1
    <3> HIDE DEF seen
    <3> QED
      BY <2>2, <3>1 DEF RequestRow
  <2>4. SaveRequest(new)
    BY <1>12 DEF CloseRequest
  <2>5. wk' \in WorkerRecord
    BY <1>0, <1>12 DEF CloseRequest, WorkerRecord, Pcs
  <2> HIDE DEF new
  <2> QED
    BY <1>0, <1>1, <1>2, <1>12, <2>1, <2>3, <2>4, <2>5, SaveRequestType DEF CloseRequest
<1>13. CASE BeginRequest
  <2>1. wk.batch \in Batches /\ wk.req \in Requests
    BY <1>4, <1>5, <1>13 DEF BeginRequest, HoldsBatch, HoldsRequest
  <2> DEFINE new == [session.rows[wk.req] EXCEPT !.status = "processing"]
             rows == [session.rows EXCEPT ![wk.req] = new]
  <2>2. new \in RequestRow
    <3>1. session.rows[wk.req] \in RequestRow
      BY <1>0, <2>1
    <3> QED
      BY <3>1 DEF RequestRow, RequestStatus
  <2>3. rows \in [Requests -> RequestRow]
    BY <1>0, <2>1, <2>2
  <2>4. Save(rows, session.row)
    BY <1>13 DEF BeginRequest
  <2>5. wk' \in WorkerRecord
    BY <1>0, <1>13 DEF BeginRequest, WorkerRecord, Pcs
  <2> HIDE DEF rows
  <2> QED
    BY <1>0, <1>1, <1>2, <1>13, <2>1, <2>3, <2>4, <2>5, SaveType DEF BeginRequest
<1>14. CASE FlowCompletes \/ PollAnswer \/ GiveUpWaiting \/ SubmitSolution
  <2>1. wk' \in WorkerRecord
    <3>1. CASE FlowCompletes \/ GiveUpWaiting
      <4>1. \/ wk' = [wk EXCEPT !.pc = "persist", !.result = "completed"]
            \/ wk' = [wk EXCEPT !.pc = "persist", !.result = "failed"]
        BY <3>1 DEF FlowCompletes, GiveUpWaiting
      <4>2. "persist" \in Pcs /\ {"completed", "failed"} \subseteq Results
        BY DEF Pcs, Results
      <4> QED
        BY <1>0, <4>1, <4>2 DEF WorkerRecord
    <3>2. CASE PollAnswer
      <4>1. \/ wk' = [wk EXCEPT !.pc = "persist", !.result = "skipped"]
            \/ wk' = [wk EXCEPT !.pc = "submit"]
        BY <3>2 DEF PollAnswer
      <4>2. "persist" \in Pcs /\ "submit" \in Pcs /\ "skipped" \in Results
        BY DEF Pcs, Results
      <4> QED
        BY <1>0, <4>1, <4>2 DEF WorkerRecord
    <3>3. CASE SubmitSolution
      <4>1. PICK accepted \in BOOLEAN :
              wk' = [wk EXCEPT !.pc = "persist",
                               !.result = IF accepted THEN "completed"
                                          ELSE "failed"]
        BY <3>3 DEF SubmitSolution
      <4>2. "persist" \in Pcs /\ {"completed", "failed"} \subseteq Results
        BY DEF Pcs, Results
      <4> QED
        BY <1>0, <4>1, <4>2 DEF WorkerRecord
    <3> QED
      BY <1>14, <3>1, <3>2, <3>3
  <2> QED
    BY <1>0, <1>1, <1>2, <1>14, <2>1
    DEF FlowCompletes, PollAnswer, GiveUpWaiting, SubmitSolution, NothingWritten
<1>15. CASE AskManualCaptcha
  <2>1. wk.req \in Requests
    BY <1>5, <1>15 DEF AskManualCaptcha, HoldsRequest
  <2>2. request' \in [Requests -> RequestRow]
    <3> DEFINE flushed == FlushRequest(request[wk.req], session.rows[wk.req],
                                       AskedRow(session.rows[wk.req]))
               row == [flushed EXCEPT !.expiry = "future"]
    <3>1. flushed \in RequestRow
      BY <1>0, <2>1, FlushType, RowOperatorsType
    <3>2. row \in RequestRow
      BY <3>1 DEF RequestRow, Expiry
    <3>3. request' = [request EXCEPT ![wk.req] = row]
      BY <1>15 DEF AskManualCaptcha
    <3> HIDE DEF row
    <3> QED
      BY <1>0, <2>1, <3>2, <3>3
  <2>3. wk' \in WorkerRecord
    BY <1>0, <1>15 DEF AskManualCaptcha, WorkerRecord, Pcs
  <2> QED
    BY <1>0, <1>1, <1>2, <1>15, <2>2, <2>3, SnapshotType DEF AskManualCaptcha
<1>16. CASE PersistResult
  <2>1. wk.batch \in Batches /\ wk.req \in Requests
    BY <1>4, <1>5, <1>16 DEF PersistResult, HoldsBatch, HoldsRequest
  <2>2. wk.result \in {"completed", "failed", "skipped"}
    BY <1>16 DEF PersistResult, WorkerHoldsOpenWork
  <2>3. PersistedRow(session.rows[wk.req], wk.result) \in RequestRow
    BY <1>0, <2>1, <2>2, RowOperatorsType
  <2>4. documents' \subseteq Requests
    BY <1>16, <2>1 DEF PersistResult, TypeOK
  <2>5. wk' \in WorkerRecord
    BY <1>0, <1>16 DEF PersistResult, WorkerRecord, Pcs, Results
  <2> QED
    BY <1>1, <1>2, <1>16, <2>1, <2>3, <2>4, <2>5, SaveRequestType DEF PersistResult
<1>17. CASE FailBatch
  <2> DEFINE rows == [r \in Requests |-> FailedRow(session.rows[r])]
             new == Recounted([session.row EXCEPT !.status = "failed"], rows, wk.batch)
  <2>1. wk.batch \in Batches
    BY <1>4, <1>17 DEF FailBatch, HoldsBatch
  <2>2. rows \in [Requests -> RequestRow]
    BY <1>0, RowOperatorsType
  <2>3. new \in BatchRow
    <3>1. [session.row EXCEPT !.status = "failed"] \in BatchRow
      BY <1>0 DEF BatchRow, BatchStatus
    <3> QED
      BY <3>1, RecountedType
  <2>4. Save(rows, new)
    BY <1>17 DEF FailBatch
  <2> HIDE DEF rows, new
  <2> QED
    BY <1>0, <1>1, <1>2, <1>3, <1>17, <2>1, <2>2, <2>3, <2>4, SaveType DEF FailBatch, Pcs
<1>18. CASE FinalizeBatch
  <2> DEFINE row == Recounted(session.row, session.rows, wk.batch)
             new == [row EXCEPT !.status = Verdict(row, session.rows, wk.batch)]
  <2>1. wk.batch \in Batches
    BY <1>4, <1>18 DEF FinalizeBatch, HoldsBatch
  <2>2. Verdict(row, session.rows, wk.batch) \in BatchStatus
    BY DEF Verdict, BatchStatus
  <2>3. new \in BatchRow
    <3>1. row \in BatchRow
      BY <1>0, RecountedType
    <3> QED
      BY <2>2, <3>1 DEF BatchRow
  <2>4. Save(session.rows, new)
    BY <1>18 DEF FinalizeBatch
  <2> HIDE DEF new
  <2> QED
    BY <1>0, <1>1, <1>2, <1>3, <1>18, <2>1, <2>3, <2>4, SaveType DEF FinalizeBatch, Pcs
<1>19. CASE StopGracefully
  BY <1>0, <1>1, <1>2, <1>3, <1>19 DEF StopGracefully, NothingWritten, Pcs
<1>20. CASE RaiseException
  <2>1. wk' \in WorkerRecord
    BY <1>0, <1>20 DEF RaiseException, WorkerRecord, Pcs
  <2> QED
    BY <1>0, <1>1, <1>2, <1>20, <2>1, SnapshotType DEF RaiseException
<1> QED
  BY <1>6, <1>7, <1>8, <1>9, <1>10, <1>11, <1>12, <1>13, <1>14, <1>15, <1>16, <1>17, <1>18,
     <1>19, <1>20 DEF WorkerStep

(* Every step keeps the types.                                             *)
LEMMA NextType ==
  ASSUME TypeOK, CallsAreBound, WorkerHoldsOpenWork, [Next]_vars
  PROVE  TypeOK'
<1>1. ASSUME NEW h \in Handlers, Read(h) \/ Commit(h)
      PROVE  TypeOK'
  BY <1>1, ReadType, CommitType
<1>2. ASSUME NEW b \in Batches, NEW S \in SUBSET Requests, CreateBatch(b, S)
      PROVE  TypeOK'
  <2>1. request' \in [Requests -> RequestRow]
    BY <1>2 DEF CreateBatch, TypeOK, AbsentRequest, RequestRow, RequestStatus, Expiry
  <2>2. [AbsentBatch EXCEPT !.status = "pending"] \in BatchRow
    BY DEF AbsentBatch, BatchRow, BatchStatus
  <2>3. batch' \in [Batches -> BatchRow]
    BY <1>2, <2>2, RecountedType DEF CreateBatch, TypeOK
  <2> QED
    BY <1>2, <2>1, <2>3 DEF CreateBatch, TypeOK
<1>3. ASSUME NEW u \in Users, ChangeCredentials(u)
      PROVE  TypeOK'
  BY <1>3 DEF ChangeCredentials, TypeOK
<1>4. CASE WorkerStep
  BY <1>4, WorkerType
<1>5. ASSUME NEW r \in Requests, DeadlinePasses(r)
      PROVE  TypeOK'
  <2>1. request' \in [Requests -> RequestRow]
    <3> DEFINE row == [request[r] EXCEPT !.expiry = IF @ = "future" THEN "past" ELSE @]
    <3>1. request[r] \in RequestRow /\ request \in [Requests -> RequestRow]
      BY DEF TypeOK
    <3>2. row \in RequestRow
      BY <3>1 DEF RequestRow, Expiry
    <3>3. request' = [request EXCEPT ![r] = row]
      BY <1>5 DEF DeadlinePasses
    <3> HIDE DEF row
    <3> QED
      BY <3>1, <3>2, <3>3
  <2>2. wk' \in WorkerRecord
    <3>1. wk \in WorkerRecord
      BY DEF TypeOK
    <3> QED
      BY <1>5, <3>1 DEF DeadlinePasses, WorkerRecord, WaitsFor
  <2> QED
    BY <1>5, <2>1, <2>2 DEF DeadlinePasses, TypeOK
<1>6. CASE RequestStop
  BY <1>6 DEF RequestStop, TypeOK, tables
<1>7. CASE Crash
  BY <1>7, SnapshotType DEF Crash, TypeOK, tables, WorkerAt, WorkerRecord, Pcs, Results
<1>8. CASE UNCHANGED vars
  BY <1>8 DEF vars, TypeOK
<1> QED
  BY <1>1, <1>2, <1>3, <1>4, <1>5, <1>6, <1>7, <1>8 DEF Next

-----------------------------------------------------------------------------
(* What the steps do to the tables, in the terms the invariant needs.      *)

(* Counters depend on the statuses of the batch's own rows only.           *)
LEMMA RecountStable ==
  ASSUME NEW row, NEW b, NEW rows1, NEW rows2,
         \A r \in RequestsOf(b) : rows1[r].status = rows2[r].status
  PROVE  Recounted(row, rows1, b) = Recounted(row, rows2, b)
<1>1. ASSUME NEW s
      PROVE  CountedAs(s, rows1, b) = CountedAs(s, rows2, b)
  <2>1. {r \in RequestsOf(b) : rows1[r].status = s}
          = {r \in RequestsOf(b) : rows2[r].status = s}
    OBVIOUS
  <2> QED
    BY <2>1 DEF CountedAs
<1>2. /\ CountedAs("completed", rows1, b) = CountedAs("completed", rows2, b)
      /\ CountedAs("failed", rows1, b) = CountedAs("failed", rows2, b)
      /\ CountedAs("skipped", rows1, b) = CountedAs("skipped", rows2, b)
  BY <1>1
<1> QED
  BY <1>2 DEF Recounted

(* Whatever it overlaps, a commit moves rows to SKIPPED or PENDING only,   *)
(* batches to PROCESSING, CANCELLED or PENDING only, and erases a          *)
(* document_id only as a retry that read it on a FAILED row.               *)
LEMMA CommitEffect ==
  ASSUME TypeOK, CallsAreBound, NEW h \in Handlers, Commit(h)
  PROVE  /\ documents' = documents /\ wk' = wk /\ session' = session
         /\ call' = [call EXCEPT ![h] = NoCall]
         /\ \A r \in Requests :
              /\ request'[r].status \in {request[r].status, "skipped", "pending"}
              /\ request'[r].document => request[r].document
              /\ request[r].document /\ ~request'[r].document
                   => /\ call[h].op = "retry"
                      /\ call[h].rows[r].status = "failed"
                      /\ call[h].rows[r].document
         /\ \A b \in Batches :
              batch'[b].status \in {batch[b].status, "processing", "cancelled", "pending"}
<1>1. documents' = documents /\ wk' = wk /\ session' = session
      /\ call' = [call EXCEPT ![h] = NoCall]
  BY DEF Commit, CommitStart, CommitCancel, CommitRetry, CommitSolve, CommitSkip,
         CommitBatchAndRows, CommitCaptchaAnswer, Reply
<1>2. /\ call[h].row \in BatchRow
      /\ \A r \in Requests : call[h].rows[r] \in RequestRow /\ request[r] \in RequestRow
  BY DEF TypeOK, CallRecord
<1>3. CASE CommitStart(h)
  <2>1. request' = request
    BY <1>3 DEF CommitStart
  <2>2. \A b \in Batches : batch'[b].status \in {batch[b].status, "processing"}
    BY <1>2, <1>3 DEF CommitStart, FlushBatch, Column, TypeOK, BatchRow
  <2> QED
    BY <1>1, <2>1, <2>2
<1>4. CASE CommitCancel(h)
  <2>1. \A r \in Requests :
          request'[r] \in {request[r],
             FlushRequest(request[r], call[h].rows[r], CancelledRow(call[h].rows[r]))}
    BY <1>4 DEF CommitCancel, CommitBatchAndRows
  <2>2. \A row \in RequestRow :
          /\ CancelledRow(row).document = row.document
          /\ CancelledRow(row).status \in {row.status, "skipped"}
    BY DEF CancelledRow, RequestRow
  <2>3. \A r \in Requests :
          /\ request'[r].status \in {request[r].status, "skipped"}
          /\ request'[r].document = request[r].document
    <3> SUFFICES ASSUME NEW r \in Requests
                 PROVE  /\ request'[r].status \in {request[r].status, "skipped"}
                        /\ request'[r].document = request[r].document
      OBVIOUS
    <3> DEFINE new == CancelledRow(call[h].rows[r])
    <3>1. /\ new.document = call[h].rows[r].document
          /\ new.status \in {call[h].rows[r].status, "skipped"}
      BY <1>2, <2>2
    <3>2. request'[r] \in {request[r], FlushRequest(request[r], call[h].rows[r], new)}
      BY <2>1
    <3> HIDE DEF new
    <3> QED
      BY <3>1, <3>2 DEF FlushRequest, Column
  <2>4. \A b \in Batches : batch'[b].status \in {batch[b].status, "cancelled"}
    <3> DEFINE new == [call[h].row EXCEPT !.status = "cancelled"]
    <3>1. new.status = "cancelled" /\ new \in BatchRow
      BY <1>2 DEF BatchRow, BatchStatus
    <3>2. PICK rows : batch' = [batch EXCEPT ![call[h].batch] =
                                  FlushBatch(@, call[h].row, Recounted(new, rows, call[h].batch))]
      BY <1>4 DEF CommitCancel, CommitBatchAndRows
    <3> HIDE DEF new
    <3>3. Recounted(new, rows, call[h].batch).status = "cancelled"
      BY <3>1, RecountedType
    <3>4. call[h].batch \in Batches /\ batch \in [Batches -> BatchRow]
      BY <1>4 DEF CommitCancel, CallsAreBound, TypeOK
    <3>5. PICK target : /\ target.status = "cancelled"
                        /\ batch'[call[h].batch] =
                             FlushBatch(batch[call[h].batch], call[h].row, target)
      BY <3>2, <3>3, <3>4
    <3>6. \A b \in Batches : b # call[h].batch => batch'[b] = batch[b]
      BY <3>2, <3>4
    <3> QED
      BY <3>5, <3>6 DEF FlushBatch, Column
  <2> QED
    BY <1>1, <2>3, <2>4
<1>5. CASE CommitRetry(h)
  <2>1. \A r \in Requests :
          request'[r] \in {request[r],
             FlushRequest(request[r], call[h].rows[r], RetriedRow(call[h].rows[r]))}
    BY <1>5 DEF CommitRetry, CommitBatchAndRows
  <2>2. \A row \in RequestRow :
          /\ RetriedRow(row).document => row.document
          /\ RetriedRow(row).document # row.document => row.status = "failed" /\ row.document
          /\ RetriedRow(row).status \in {row.status, "pending"}
    BY DEF RetriedRow, RequestRow, AbsentRequest
  <2>3. ASSUME NEW r \in Requests
        PROVE  /\ request'[r].status \in {request[r].status, "pending"}
               /\ request'[r].document => request[r].document
               /\ request[r].document /\ ~request'[r].document
                    => call[h].rows[r].status = "failed" /\ call[h].rows[r].document
    <3> DEFINE new == RetriedRow(call[h].rows[r])
    <3>1. /\ new.document => call[h].rows[r].document
          /\ new.document # call[h].rows[r].document
               => call[h].rows[r].status = "failed" /\ call[h].rows[r].document
          /\ new.status \in {call[h].rows[r].status, "pending"}
      BY <1>2, <2>2
    <3> HIDE DEF new
    <3>2. /\ FlushRequest(request[r], call[h].rows[r], new).status
               = Column(request[r].status, call[h].rows[r].status, new.status)
          /\ FlushRequest(request[r], call[h].rows[r], new).document
               = Column(request[r].document, call[h].rows[r].document, new.document)
      BY DEF FlushRequest
    <3>3. new.document \in BOOLEAN /\ call[h].rows[r].document \in BOOLEAN
          /\ request[r].document \in BOOLEAN
      BY <1>2, RowOperatorsType DEF RequestRow, new
    <3> QED
      BY <2>1, <3>1, <3>2, <3>3 DEF Column, new
  <2>4. \A b \in Batches : batch'[b].status \in {batch[b].status, "pending"}
    <3> DEFINE new == [call[h].row EXCEPT !.status = "pending"]
    <3>1. new.status = "pending" /\ new \in BatchRow
      BY <1>2 DEF BatchRow, BatchStatus
    <3>2. PICK rows : batch' = [batch EXCEPT ![call[h].batch] =
                                  FlushBatch(@, call[h].row, Recounted(new, rows, call[h].batch))]
      BY <1>5 DEF CommitRetry, CommitBatchAndRows
    <3> HIDE DEF new
    <3>3. Recounted(new, rows, call[h].batch).status = "pending"
      BY <3>1, RecountedType
    <3>4. call[h].batch \in Batches /\ batch \in [Batches -> BatchRow]
      BY <1>5 DEF CommitRetry, CallsAreBound, TypeOK
    <3>5. PICK target : /\ target.status = "pending"
                        /\ batch'[call[h].batch] =
                             FlushBatch(batch[call[h].batch], call[h].row, target)
      BY <3>2, <3>3, <3>4
    <3>6. \A b \in Batches : b # call[h].batch => batch'[b] = batch[b]
      BY <3>2, <3>4
    <3> QED
      BY <3>5, <3>6 DEF FlushBatch, Column
  <2>5. call[h].op = "retry"
    BY <1>5 DEF CommitRetry
  <2> QED
    BY <1>1, <2>3, <2>4, <2>5
<1>6. ASSUME NEW new \in RequestRow, NEW solution \in BOOLEAN,
             call[h].op \in {"solve", "skip"},
             CommitCaptchaAnswer(h, new, solution),
             new.status = call[h].rows[call[h].req].status,
             new.document = call[h].rows[call[h].req].document
      PROVE  /\ \A r \in Requests : /\ request'[r].status = request[r].status
                                    /\ request'[r].document = request[r].document
             /\ batch' = batch
  BY <1>2, <1>6 DEF CommitCaptchaAnswer, FlushRequest, Column, CallsAreBound, TypeOK
<1>7. CASE CommitSolve(h)
  <2> DEFINE seen == call[h].rows[call[h].req]
  <2>1. seen \in RequestRow /\ request[call[h].req] \in RequestRow
    BY <1>2, <1>7 DEF CommitSolve, CallsAreBound
  <2>2. PICK text \in BOOLEAN :
          \E written \in {Column(request[call[h].req].solution, seen.solution, text), text} :
            CommitCaptchaAnswer(h, [seen EXCEPT !.solution = text, !.skip = FALSE], written)
    BY <1>7 DEF CommitSolve
  <2> DEFINE new == [seen EXCEPT !.solution = text, !.skip = FALSE]
  <2>3. new \in RequestRow /\ new.status = seen.status /\ new.document = seen.document
    BY <2>1 DEF RequestRow
  <2>4. Column(request[call[h].req].solution, seen.solution, text) \in BOOLEAN
    BY <2>1 DEF RequestRow, Column
  <2>5. PICK written \in BOOLEAN : CommitCaptchaAnswer(h, new, written)
    BY <2>2, <2>4
  <2>6. call[h].op \in {"solve", "skip"}
    BY <1>7 DEF CommitSolve
  <2> HIDE DEF new, seen
  <2> QED
    BY <1>1, <1>6, <2>3, <2>5, <2>6 DEF seen
<1>8. CASE CommitSkip(h)
  <2> DEFINE seen == call[h].rows[call[h].req]
             new == [seen EXCEPT !.solution = FALSE, !.skip = TRUE]
  <2>1. seen \in RequestRow /\ request[call[h].req] \in RequestRow
    BY <1>2, <1>8 DEF CommitSkip, CallsAreBound
  <2>2. new \in RequestRow /\ new.status = seen.status /\ new.document = seen.document
    BY <2>1 DEF RequestRow
  <2>3. Column(request[call[h].req].solution, seen.solution, new.solution) \in BOOLEAN
    BY <2>1 DEF RequestRow, Column
  <2>4. PICK written \in BOOLEAN : CommitCaptchaAnswer(h, new, written)
    BY <1>8, <2>3 DEF CommitSkip
  <2>5. call[h].op \in {"solve", "skip"}
    BY <1>8 DEF CommitSkip
  <2> HIDE DEF new, seen
  <2> QED
    BY <1>1, <1>6, <2>2, <2>4, <2>5 DEF seen
<1> QED
  BY <1>3, <1>4, <1>5, <1>7, <1>8 DEF Commit

(* A commit leaves the statuses of what its operation is not about alone.  *)
LEMMA CommitScope ==
  ASSUME TypeOK, CallsAreBound, NEW h \in Handlers, Commit(h)
  PROVE  /\ \A r \in Requests :
              request'[r].status # request[r].status
                => call[h].op \in {"cancel", "retry"} /\ BatchOf[r] = call[h].batch
         /\ \A b \in Batches :
              batch'[b] # batch[b]
                => call[h].op \in {"start", "cancel", "retry"} /\ b = call[h].batch
<1>1. ASSUME NEW newRows, NEW newRow, call[h].op \in {"cancel", "retry"},
             CommitBatchAndRows(h, newRows, newRow)
      PROVE  /\ \A r \in Requests : request'[r] # request[r] => BatchOf[r] = call[h].batch
             /\ \A b \in Batches : batch'[b] # batch[b] => b = call[h].batch
  BY <1>1 DEF CommitBatchAndRows, CallsAreBound, TypeOK
<1>2. CASE CommitStart(h)
  BY <1>2 DEF CommitStart, CallsAreBound, TypeOK
<1>3. CASE CommitCancel(h)
  BY <1>1, <1>3 DEF CommitCancel
<1>4. CASE CommitRetry(h)
  BY <1>1, <1>4 DEF CommitRetry
<1>5. ASSUME NEW new, NEW solution, new.status = call[h].rows[call[h].req].status,
             call[h].req \in Requests, CommitCaptchaAnswer(h, new, solution)
      PROVE  batch' = batch /\ \A r \in Requests : request'[r].status = request[r].status
  BY <1>5 DEF CommitCaptchaAnswer, FlushRequest, Column, TypeOK
<1>6. \A row \in RequestRow : \A text \in BOOLEAN :
        /\ [row EXCEPT !.solution = text, !.skip = FALSE].status = row.status
        /\ [row EXCEPT !.solution = FALSE, !.skip = TRUE].status = row.status
  BY DEF RequestRow
<1>7. CASE CommitSolve(h) \/ CommitSkip(h)
  <2>1. call[h].req \in Requests /\ call[h].rows[call[h].req] \in RequestRow
    <3>1. call[h].op \in {"solve", "skip"}
      BY <1>7 DEF CommitSolve, CommitSkip
    <3>2. call[h] \in CallRecord /\ call[h].req \in Requests
      BY <3>1 DEF CallsAreBound, TypeOK
    <3> QED
      BY <3>2 DEF CallRecord
  <2>2. PICK new, solution : /\ new.status = call[h].rows[call[h].req].status
                             /\ CommitCaptchaAnswer(h, new, solution)
    BY <1>6, <1>7, <2>1 DEF CommitSolve, CommitSkip
  <2> QED
    BY <1>5, <2>1, <2>2
<1> QED
  BY <1>2, <1>3, <1>4, <1>7 DEF Commit

(* A flush over unchanged rows writes the new row as it was computed.      *)
LEMMA FlushUnchanged ==
  /\ \A seen, new \in BatchRow : FlushBatch(seen, seen, new) = new
  /\ \A seen, new \in RequestRow : FlushRequest(seen, seen, new) = new
BY DEF FlushBatch, FlushRequest, Column, BatchRow, RequestRow

(* A commit that overlaps nothing keeps COMPLETED rows, completes no batch *)
(* and, when it cancels one, leaves none of its rows alive.                *)
LEMMA SerialCommit ==
  ASSUME TypeOK, CallsAreBound, NEW h \in Handlers, Commit(h), ~overlapped'
  PROVE  /\ ~overlapped
         /\ \A r \in Requests :
              request[r].status = "completed" => request'[r].status = "completed"
         /\ \A b \in Batches : batch'[b] # batch[b] =>
              /\ batch'[b].status # "completed"
              /\ batch'[b].status = "cancelled" =>
                   \A r \in RequestsOf(b) : request'[r].status \notin Active
         /\ \A r \in Requests :
              request'[r].status # request[r].status =>
                \/ batch'[BatchOf[r]].status = "pending"
                \/ /\ batch'[BatchOf[r]].status = "cancelled"
                   /\ \A q \in RequestsOf(BatchOf[r]) : request'[q].status \notin Active
<1>1. ~overlapped
  BY DEF Commit, CommitStart, CommitCancel, CommitRetry, CommitSolve, CommitSkip,
         CommitBatchAndRows, CommitCaptchaAnswer, Reply
<1>2. /\ call[h] \in CallRecord /\ call[h].row \in BatchRow
      /\ \A r \in Requests : call[h].rows[r] \in RequestRow /\ request[r] \in RequestRow
      /\ \A b \in Batches : batch[b] \in BatchRow
  BY DEF TypeOK, CallRecord
<1>3. CASE CommitStart(h)
  <2> DEFINE b == call[h].batch
             new == [call[h].row EXCEPT !.status = "processing",
                       !.startedAt = IF @ = 0 THEN clock + 1 ELSE @]
  <2>1. b \in Batches /\ call[h].row = batch[b] /\ request' = request
    BY <1>3 DEF CommitStart, CallsAreBound, Reply
  <2>2. new.status = "processing" /\ \A o \in Batches : o # b => batch'[o] = batch[o]
    BY <1>2, <1>3 DEF CommitStart, BatchRow, TypeOK
  <2>3. batch'[b] = FlushBatch(batch[b], batch[b], new)
    BY <1>3, <2>1 DEF CommitStart, TypeOK
  <2> HIDE DEF new
  <2>4. batch'[b].status = "processing"
    BY <1>2, <2>1, <2>2, <2>3 DEF FlushBatch, Column
  <2> QED
    BY <1>1, <2>1, <2>2, <2>4
<1>4. ASSUME NEW newRows \in [Requests -> RequestRow], NEW newRow \in BatchRow,
             call[h].op \in {"cancel", "retry"},
             CommitBatchAndRows(h, newRows, newRow)
      PROVE  LET b == call[h].batch
             IN  /\ b \in Batches
                 /\ \A r \in RequestsOf(b) :
                      call[h].rows[r] = request[r] /\ request'[r] = newRows[r]
                 /\ \A r \in Requests : BatchOf[r] # b => request'[r] = request[r]
                 /\ batch'[b].status = newRow.status
                 /\ \A o \in Batches : o # b => batch'[o] = batch[o]
  <2> DEFINE b == call[h].batch
  <2>1. b \in Batches
    BY <1>4 DEF CallsAreBound
  <2>2. call[h].row = batch[b] /\ call[h].rows = ReadRows(RequestsOf(b))
    BY <1>4 DEF CommitBatchAndRows, Reply
  <2>3. \A r \in RequestsOf(b) : call[h].rows[r] = request[r]
    BY <2>2 DEF ReadRows, RequestsOf
  <2>4. \A r \in RequestsOf(b) :
          request'[r] = FlushRequest(request[r], call[h].rows[r], newRows[r])
    BY <1>4 DEF CommitBatchAndRows, RequestsOf
  <2>5. \A r \in RequestsOf(b) : request'[r] = newRows[r]
    BY <1>2, <2>3, <2>4, FlushUnchanged DEF RequestsOf
  <2>6. batch'[b] = FlushBatch(batch[b], batch[b], Recounted(newRow, newRows, b))
    BY <1>4, <2>1, <2>2 DEF CommitBatchAndRows, TypeOK
  <2>7. Recounted(newRow, newRows, b) \in BatchRow
        /\ Recounted(newRow, newRows, b).status = newRow.status
    BY <1>4, RecountedType
  <2>8. batch'[b].status = newRow.status
    BY <1>2, <2>1, <2>6, <2>7, FlushUnchanged
  <2>9. /\ \A r \in Requests : BatchOf[r] # b => request'[r] = request[r]
        /\ \A o \in Batches : o # b => batch'[o] = batch[o]
    BY <1>4, <2>1 DEF CommitBatchAndRows, TypeOK
  <2> QED
    BY <2>1, <2>3, <2>5, <2>8, <2>9
<1>5. CASE CommitCancel(h)
  <2> DEFINE newRows == [r \in Requests |-> CancelledRow(call[h].rows[r])]
             newRow == [call[h].row EXCEPT !.status = "cancelled"]
  <2>1. newRows \in [Requests -> RequestRow] /\ newRow \in BatchRow
        /\ newRow.status = "cancelled"
    BY <1>2, RowOperatorsType DEF BatchRow, BatchStatus
  <2>2. call[h].op \in {"cancel", "retry"} /\ CommitBatchAndRows(h, newRows, newRow)
    BY <1>5 DEF CommitCancel
  <2>3. \A row \in RequestRow : /\ CancelledRow(row).status \notin Active
                                /\ row.status = "completed" => CancelledRow(row) = row
    BY DEF CancelledRow, Active, RequestRow
  <2>4. \A r \in Requests : newRows[r] = CancelledRow(call[h].rows[r])
    OBVIOUS
  <2> HIDE DEF newRows, newRow
  <2> QED
    BY <1>1, <1>2, <1>4, <2>1, <2>2, <2>3, <2>4 DEF RequestsOf
<1>6. CASE CommitRetry(h)
  <2> DEFINE newRows == [r \in Requests |-> RetriedRow(call[h].rows[r])]
             newRow == [call[h].row EXCEPT !.status = "pending"]
  <2>1. newRows \in [Requests -> RequestRow] /\ newRow \in BatchRow
        /\ newRow.status = "pending"
    BY <1>2, RowOperatorsType DEF BatchRow, BatchStatus
  <2>2. call[h].op \in {"cancel", "retry"} /\ CommitBatchAndRows(h, newRows, newRow)
    BY <1>6 DEF CommitRetry
  <2>3. \A row : row.status = "completed" => RetriedRow(row) = row
    BY DEF RetriedRow
  <2>4. \A r \in Requests : newRows[r] = RetriedRow(call[h].rows[r])
    OBVIOUS
  <2> HIDE DEF newRows, newRow
  <2> QED
    BY <1>1, <1>4, <2>1, <2>2, <2>3, <2>4 DEF RequestsOf
<1>7. CASE call[h].op \in {"solve", "skip"}
  BY <1>1, <1>7, CommitScope
<1> QED
  BY <1>3, <1>5, <1>6, <1>7 DEF Commit, CommitSolve, CommitSkip

(* A commit that overlaps nothing leaves the rows of a batch with none     *)
(* but completed and skipped ones alone; it can only recount them.         *)
LEMMA CommitOnDoneBatch ==
  ASSUME TypeOK, CallsAreBound, NEW h \in Handlers, Commit(h), ~overlapped',
         NEW b \in Batches,
         \A r \in RequestsOf(b) : request[r].status \in {"completed", "skipped"}
  PROVE  LET due == Recounted(batch[b], request, b)
         IN  /\ \A r \in RequestsOf(b) : request'[r].status = request[r].status
             /\ batch'[b].completed \in {batch[b].completed, due.completed}
             /\ batch'[b].failed \in {batch[b].failed, due.failed}
             /\ batch'[b].skipped \in {batch[b].skipped, due.skipped}
<1> DEFINE c == call[h]
<1>0. /\ c \in CallRecord /\ c.row \in BatchRow /\ c.rows \in [Requests -> RequestRow]
      /\ \A r \in Requests : request[r] \in RequestRow
      /\ batch[b] \in BatchRow
  BY DEF TypeOK, CallRecord
<1>1. CASE c.batch # b \/ c.op \in {"solve", "skip"}
  <2>1. batch'[b] = batch[b]
    BY <1>1, CommitScope
  <2>2. \A r \in RequestsOf(b) : request'[r].status = request[r].status
    BY <1>1, CommitScope DEF RequestsOf
  <2> QED
    BY <2>1, <2>2
<1>2. CASE CommitStart(h) /\ c.batch = b
  <2> DEFINE new == [c.row EXCEPT !.status = "processing",
                       !.startedAt = IF @ = 0 THEN clock + 1 ELSE @]
  <2>1. /\ request' = request /\ batch \in [Batches -> BatchRow]
        /\ batch' = [batch EXCEPT ![b] = FlushBatch(@, c.row, new)]
    BY <1>2 DEF CommitStart, TypeOK
  <2>2. /\ new.completed = c.row.completed /\ new.failed = c.row.failed
        /\ new.skipped = c.row.skipped
    BY <1>0 DEF BatchRow
  <2> HIDE DEF new
  <2>3. batch'[b] = FlushBatch(batch[b], c.row, new)
    BY <2>1
  <2> QED
    BY <2>1, <2>2, <2>3 DEF FlushBatch, Column
<1>3. ASSUME NEW newRows \in [Requests -> RequestRow], NEW newRow \in BatchRow,
             c.batch = b, CommitBatchAndRows(h, newRows, newRow),
             \A r \in RequestsOf(b) : newRows[r] = c.rows[r]
      PROVE  /\ \A r \in RequestsOf(b) : request'[r].status = request[r].status
             /\ batch'[b] = Recounted(newRow, request, b)
  <2>1. c.row = batch[b] /\ c.rows = ReadRows(RequestsOf(b))
    BY <1>3 DEF CommitBatchAndRows, Reply
  <2>2. \A r \in RequestsOf(b) : newRows[r] = request[r]
    BY <1>3, <2>1 DEF ReadRows, RequestsOf
  <2>3. \A r \in RequestsOf(b) :
          request'[r] = FlushRequest(request[r], c.rows[r], newRows[r])
    BY <1>3 DEF CommitBatchAndRows, RequestsOf
  <2>4. \A r \in RequestsOf(b) : request'[r].status = request[r].status
    <3>1. \A cur, seen : FlushRequest(cur, seen, seen).status = cur.status
      BY DEF FlushRequest, Column
    <3> QED
      BY <1>3, <2>3, <3>1
  <2>5. batch'[b] = FlushBatch(batch[b], batch[b], Recounted(newRow, newRows, b))
    BY <1>3, <2>1 DEF CommitBatchAndRows, TypeOK
  <2>6. Recounted(newRow, newRows, b) = Recounted(newRow, request, b)
    BY <2>2, RecountStable
  <2>7. Recounted(newRow, newRows, b) \in BatchRow
    BY RecountedType
  <2>8. batch'[b] = Recounted(newRow, newRows, b)
    BY <1>0, <2>5, <2>7, FlushUnchanged
  <2> QED
    BY <2>4, <2>6, <2>8
<1>4. ASSUME NEW newRow \in BatchRow
      PROVE  LET due == Recounted(batch[b], request, b)
                 new == Recounted(newRow, request, b)
             IN  /\ new.completed = due.completed /\ new.failed = due.failed
                 /\ new.skipped = due.skipped
  BY <1>0 DEF Recounted, BatchRow
<1>5. CASE (CommitCancel(h) \/ CommitRetry(h)) /\ c.batch = b
  <2>1. c.rows = ReadRows(RequestsOf(b))
    BY <1>5 DEF CommitCancel, CommitRetry, CommitBatchAndRows, Reply
  <2>2. \A r \in RequestsOf(b) : c.rows[r].status \in {"completed", "skipped"}
    BY <2>1 DEF ReadRows, RequestsOf
  <2>3. CASE CommitCancel(h)
    <3> DEFINE newRows == [r \in Requests |-> CancelledRow(c.rows[r])]
               newRow == [c.row EXCEPT !.status = "cancelled"]
    <3>1. newRows \in [Requests -> RequestRow] /\ newRow \in BatchRow
      BY <1>0, RowOperatorsType DEF BatchRow, BatchStatus
    <3>2. \A r \in RequestsOf(b) : newRows[r] = c.rows[r]
      BY <2>2 DEF CancelledRow, Active, RequestsOf
    <3>3. CommitBatchAndRows(h, newRows, newRow)
      BY <2>3 DEF CommitCancel
    <3> HIDE DEF newRows, newRow
    <3> QED
      BY <1>3, <1>4, <1>5, <3>1, <3>2, <3>3
  <2>4. CASE CommitRetry(h)
    <3> DEFINE newRows == [r \in Requests |-> RetriedRow(c.rows[r])]
               newRow == [c.row EXCEPT !.status = "pending"]
    <3>1. newRows \in [Requests -> RequestRow] /\ newRow \in BatchRow
      BY <1>0, RowOperatorsType DEF BatchRow, BatchStatus
    <3>2. \A r \in RequestsOf(b) : newRows[r] = c.rows[r]
      BY <2>2 DEF RetriedRow, RequestsOf
    <3>3. CommitBatchAndRows(h, newRows, newRow)
      BY <2>4 DEF CommitRetry
    <3> HIDE DEF newRows, newRow
    <3> QED
      BY <1>3, <1>4, <1>5, <3>1, <3>2, <3>3
  <2> QED
    BY <1>5, <2>3, <2>4
<1> QED
  BY <1>1, <1>2, <1>5 DEF Commit, CommitSolve, CommitSkip

(* Writing back what was read changes nothing.                             *)
LEMMA FlushNothing ==
  /\ \A cur, seen \in BatchRow : FlushBatch(cur, seen, seen) = cur
  /\ \A cur, seen \in RequestRow : FlushRequest(cur, seen, seen) = cur
BY DEF FlushBatch, FlushRequest, Column, BatchRow, RequestRow

(* What a save of the worker does to the rows and the batch in scope.      *)
LEMMA SaveEffect ==
  ASSUME TypeOK, NEW newRows, NEW newRow, Save(newRows, newRow)
  PROVE  /\ ~session'.open /\ session.open
         /\ \A r \in InScope :
              /\ request'[r].status
                   = Column(request[r].status, session.rows[r].status, newRows[r].status)
              /\ request'[r].document
                   = Column(request[r].document, session.rows[r].document,
                            newRows[r].document)
              /\ newRows[r] = session.rows[r] => request'[r] = request[r]
         /\ \A r \in Requests : r \notin InScope => request'[r] = request[r]
         /\ wk.pc = "down" => batch' = batch
         /\ wk.pc # "down" /\ wk.batch \in Batches =>
              batch'[wk.batch] = FlushBatch(batch[wk.batch], session.row, newRow)
         /\ \A b \in Batches : b # wk.batch => batch'[b] = batch[b]
<1>1. /\ \A r \in Requests : request[r] \in RequestRow /\ session.rows[r] \in RequestRow
      /\ InScope \subseteq Requests
  BY DEF TypeOK, SessionRecord, InScope, RequestsOf
<1>2. /\ \A r \in InScope :
           request'[r] = FlushRequest(request[r], session.rows[r], newRows[r])
      /\ \A r \in Requests : r \notin InScope => request'[r] = request[r]
  BY <1>1 DEF Save
<1>3. \A r \in InScope : newRows[r] = session.rows[r] => request'[r] = request[r]
  BY <1>1, <1>2, FlushNothing
<1>4. \A r \in InScope :
        /\ request'[r].status
             = Column(request[r].status, session.rows[r].status, newRows[r].status)
        /\ request'[r].document
             = Column(request[r].document, session.rows[r].document, newRows[r].document)
  <2>1. \A cur, seen, new :
          /\ FlushRequest(cur, seen, new).status = Column(cur.status, seen.status, new.status)
          /\ FlushRequest(cur, seen, new).document
               = Column(cur.document, seen.document, new.document)
    BY DEF FlushRequest
  <2> QED
    BY <1>2, <2>1
<1>5. batch \in [Batches -> BatchRow]
  BY DEF TypeOK
<1> QED
  BY <1>2, <1>3, <1>4, <1>5 DEF Save, NoSession

(* A save of the row in hand changes that row and counters of its batch.   *)
LEMMA SaveRequestEffect ==
  ASSUME TypeOK, WorkerHoldsOpenWork, HoldsRequest, NEW new \in RequestRow,
         SaveRequest(new)
  PROVE  LET q == wk.req
         IN  /\ ~session'.open /\ session.open
             /\ request'[q].status
                  = Column(request[q].status, session.rows[q].status, new.status)
             /\ request'[q].document
                  = Column(request[q].document, session.rows[q].document, new.document)
             /\ \A r \in Requests : r # q => request'[r] = request[r]
             /\ batch'[wk.batch].status = batch[wk.batch].status
             /\ \A o \in Batches : o # wk.batch => batch'[o] = batch[o]
<1> DEFINE rows == [session.rows EXCEPT ![wk.req] = new]
           row == Recounted(session.row, rows, wk.batch)
<1>1. /\ wk.batch \in Batches /\ wk.req \in RequestsOf(wk.batch) /\ wk.pc # "down"
      /\ session.rows \in [Requests -> RequestRow] /\ session.row \in BatchRow
  BY DEF WorkerHoldsOpenWork, HoldsRequest, HoldsBatch, RequestsOf, TypeOK, SessionRecord
<1>2. /\ rows[wk.req] = new
      /\ \A r \in Requests : r # wk.req => rows[r] = session.rows[r]
  BY <1>1 DEF RequestsOf
<1>3. row.status = session.row.status
  BY <1>1, RecountedType
<1>4. Save(rows, row)
  BY DEF SaveRequest
<1> HIDE DEF rows, row
<1>5. batch'[wk.batch].status = batch[wk.batch].status
  <2>1. batch'[wk.batch] = FlushBatch(batch[wk.batch], session.row, row)
    BY <1>1, <1>4, SaveEffect
  <2> QED
    BY <1>3, <2>1 DEF FlushBatch, Column
<1>6. InScope = RequestsOf(wk.batch)
  BY <1>1 DEF InScope
<1> QED
  BY <1>1, <1>2, <1>4, <1>5, <1>6, SaveEffect

-----------------------------------------------------------------------------
(* What a step that leaves a batch alone keeps.                            *)

(* A batch whose row and request statuses a step leaves alone stays        *)
(* settled if completed and emptied if cancelled.                          *)
LEMMA OtherBatches ==
  ASSUME IInv, ~overlapped, NEW b \in Batches, batch'[b] = batch[b],
         \A r \in RequestsOf(b) : request'[r].status = request[r].status,
         HoldsBatch' /\ wk'.batch = b =>
           (HoldsBatch /\ wk.batch = b) \/ batch[b].status = "processing",
         HoldsRequest' /\ wk'.batch = b =>
           HoldsRequest /\ wk.batch = b /\ wk'.req = wk.req
  PROVE  /\ batch'[b].status = "completed" => Settled(b)'
         /\ batch'[b].status = "cancelled" => Emptied(b)'
<1>1. batch'[b].status = "completed" => Settled(b)'
  <2>1. Recounted(batch[b], request', b) = Recounted(batch[b], request, b)
    BY RecountStable
  <2> QED
    BY <2>1 DEF IInv, CompletedBatchIsSettled, Settled
<1>2. batch'[b].status = "cancelled" => Emptied(b)'
  BY DEF IInv, CancelEmptiesQueue, Emptied
<1> QED
  BY <1>1, <1>2

(* What is said of the session holds of none.                              *)
LEMMA SessionClosed ==
  ASSUME ~session'.open,
         \A r, q \in Requests :
           request'[r].status = "processing" /\ request'[q].status = "processing" => r = q
  PROVE  SessionIsRecent' /\ OneInExecution' /\ WritesAreDue'
BY DEF SessionIsRecent, OneInExecution, WritesAreDue, RecoveryIsDue, VerdictIsDue

(* A session stays what it was under a step that changes no status, no     *)
(* batch and no document and leaves the worker where it is.                *)
LEMMA SessionFrame ==
  ASSUME IInv, session' = session, wk'.pc = wk.pc, wk'.batch = wk.batch,
         wk'.req = wk.req, batch' = batch, documents' = documents,
         overlapped' = overlapped,
         \A r \in Requests : request'[r].status = request[r].status
  PROVE  SessionIsRecent' /\ OneInExecution' /\ WritesAreDue'
<1>1. InScope' = InScope /\ InScope \subseteq Requests
      /\ \A b \in Batches : RequestsOf(b) \subseteq Requests
  BY DEF InScope, RequestsOf
<1>2. SessionIsRecent'
  BY <1>1 DEF IInv, SessionIsRecent, HoldsRequest, RequestsOf
<1>3. OneInExecution'
  BY DEF IInv, OneInExecution
<1>4. RecoveryIsDue => RecoveryIsDue'
  BY DEF RecoveryIsDue, RequestsOf
<1>5. VerdictIsDue => VerdictIsDue'
  BY DEF VerdictIsDue, RequestsOf
<1> QED
  BY <1>2, <1>3, <1>4, <1>5 DEF IInv, WritesAreDue

(* A step that changes no status and no document keeps the invariant, if   *)
(* it keeps what is said of the worker.                                    *)
LEMMA QuietStep ==
  ASSUME IInv, TypeOK', WorkerHoldsOpenWork', ProcessingIsOwned',
         batch' = batch, documents' = documents, call' = call,
         overlapped' = overlapped,
         \A r \in Requests : /\ request'[r].status = request[r].status
                             /\ request'[r].document = request[r].document,
         HoldsBatch' => \/ HoldsBatch /\ wk'.batch = wk.batch
                        \/ batch[wk'.batch].status = "processing",
         HoldsRequest' => /\ HoldsRequest /\ wk'.batch = wk.batch
                          /\ wk'.req = wk.req,
         ~session'.open \/ /\ session' = session /\ wk'.pc = wk.pc
                           /\ wk'.batch = wk.batch /\ wk'.req = wk.req
  PROVE  IInv'
<1>1. CallsAreBound' /\ RowsExist'
  BY DEF IInv, CallsAreBound, RowsExist
<1>2. DocumentsAreFiled' /\ CompletedHasDocument'
  BY DEF IInv, DocumentsAreFiled, CompletedHasDocument
<1>3. ASSUME ~overlapped, NEW b \in Batches
      PROVE  /\ batch'[b].status = "completed" => Settled(b)'
             /\ batch'[b].status = "cancelled" => Emptied(b)'
  BY <1>3, OtherBatches DEF RequestsOf
<1>4. CompletedBatchIsSettled' /\ CancelEmptiesQueue'
  BY <1>3 DEF CompletedBatchIsSettled, CancelEmptiesQueue
<1>5. SessionIsRecent' /\ OneInExecution' /\ WritesAreDue'
  <2>1. \A r, q \in Requests :
          request'[r].status = "processing" /\ request'[q].status = "processing" => r = q
    BY DEF IInv, OneInExecution
  <2> QED
    BY <2>1, SessionClosed, SessionFrame
<1> QED
  BY <1>1, <1>2, <1>4, <1>5 DEF IInv

(* A step of the worker on the batch b it holds keeps the invariant, if it *)
(* keeps it for that batch.                                                *)
LEMMA StepOnHeldBatch ==
  ASSUME IInv, TypeOK', WorkerHoldsOpenWork', ProcessingIsOwned',
         NEW b \in Batches, HoldsBatch, wk.batch = b,
         HoldsBatch' => wk'.batch = b, wk'.pc # "down", ~session'.open,
         call' = call, overlapped' = overlapped, documents \subseteq documents',
         batch'[b].status # "absent",
         \A o \in Batches : o # b => batch'[o] = batch[o],
         \A r \in Requests : BatchOf[r] # b => request'[r] = request[r],
         \A r \in RequestsOf(b) :
           /\ request'[r].status # "absent"
           /\ request'[r].document => r \in documents'
           /\ request'[r].status = "completed" =>
                /\ request'[r].document
                /\ request[r].status = "completed" \/ r \notin documents,
         ~overlapped =>
           /\ batch'[b].status = "completed" => Settled(b)'
           /\ batch'[b].status = "cancelled" => Emptied(b)'
  PROVE  IInv'
<1>1. CallsAreBound' /\ RowsExist'
  BY DEF IInv, CallsAreBound, RowsExist, RequestsOf, WorkerHoldsOpenWork
<1>2. DocumentsAreFiled' /\ CompletedHasDocument'
  BY DEF IInv, DocumentsAreFiled, CompletedHasDocument, RequestsOf
<1>3. ASSUME ~overlapped, NEW o \in Batches, o # b
      PROVE  /\ batch'[o].status = "completed" => Settled(o)'
             /\ batch'[o].status = "cancelled" => Emptied(o)'
  <2>1. HoldsRequest' => HoldsBatch'
    BY DEF HoldsRequest, HoldsBatch
  <2> QED
    BY <1>3, <2>1, OtherBatches DEF RequestsOf
<1>4. CompletedBatchIsSettled' /\ CancelEmptiesQueue'
  BY <1>3 DEF CompletedBatchIsSettled, CancelEmptiesQueue
<1>5. SessionIsRecent' /\ OneInExecution' /\ WritesAreDue'
  BY SessionClosed DEF ProcessingIsOwned
<1> QED
  BY <1>1, <1>2, <1>4, <1>5 DEF IInv

-----------------------------------------------------------------------------
(* The invariant holds initially and every step keeps it.                  *)

LEMMA InitInv == Init => IInv
<1> SUFFICES ASSUME Init
             PROVE  IInv
  OBVIOUS
<1>1. AbsentRequest \in RequestRow /\ AbsentBatch \in BatchRow
  BY DEF AbsentRequest, RequestRow, RequestStatus, Expiry, AbsentBatch, BatchRow,
         BatchStatus
<1>2. NoCall \in CallRecord
  BY <1>1 DEF NoCall, Unread, CallRecord, Operations
<1>3. TypeOK
  <2>1. NoSession \in SessionRecord
    BY <1>1 DEF NoSession, SessionRecord, Unread
  <2> QED
    BY <1>1, <1>2, <2>1 DEF Init, TypeOK, WorkerAt, WorkerRecord, Pcs, Results
<1>4. /\ CallsAreBound /\ RowsExist /\ WorkerHoldsOpenWork /\ ProcessingIsOwned
      /\ DocumentsAreFiled /\ CompletedHasDocument
  BY DEF Init, CallsAreBound, RowsExist, WorkerHoldsOpenWork, ProcessingIsOwned,
         DocumentsAreFiled, CompletedHasDocument, NoCall, AbsentRequest, AbsentBatch,
         WorkerAt, HoldsBatch, HoldsRequest
<1>5. CompletedBatchIsSettled /\ CancelEmptiesQueue
  BY DEF Init, CompletedBatchIsSettled, CancelEmptiesQueue, AbsentBatch
<1>6. SessionIsRecent /\ OneInExecution /\ WritesAreDue
  BY DEF Init, SessionIsRecent, OneInExecution, WritesAreDue, RecoveryIsDue, VerdictIsDue,
         NoSession, AbsentRequest
<1> QED
  BY <1>3, <1>4, <1>5, <1>6 DEF IInv

(* Reading disturbs nothing but the handler's own record.                  *)
LEMMA ReadInv ==
  ASSUME IInv, NEW h \in Handlers, Read(h)
  PROVE  IInv'
<1>1. PICK c : Receive(h, c)
  BY DEF Read, ReadStart, ReadCancel, ReadRetry, ReadCaptchaAnswer
<1>2. /\ batch' = batch /\ request' = request /\ documents' = documents
      /\ overlapped' = overlapped /\ wk' = wk /\ session' = session
  BY <1>1 DEF Receive, tables
<1>3. \A o \in Handlers : o # h => call'[o] = call[o]
  BY <1>1 DEF Receive, IInv, TypeOK
<1>4. /\ call'[h].op \in {"start", "cancel", "retry"} =>
           call'[h].batch \in Batches /\ batch[call'[h].batch].status # "absent"
      /\ call'[h].op \in {"solve", "skip"} => call'[h].req \in Requests
      /\ call'[h].op = "retry" =>
           \A r \in Requests : call'[h].rows[r] \in {request[r], AbsentRequest}
  <2>1. ASSUME NEW b \in Batches, NEW op \in {"start", "cancel", "retry"}, NEW rows,
               batch[b].status # "absent",
               op = "retry" => \A r \in Requests : rows[r] \in {request[r], AbsentRequest},
               Receive(h, BatchCall(op, b, rows))
        PROVE  <1>4!:
    BY <2>1 DEF Receive, BatchCall, IInv, TypeOK
  <2>2. ASSUME NEW r \in Requests, NEW op \in {"solve", "skip"},
               Receive(h, CaptchaCall(op, r))
        PROVE  <1>4!:
    BY <2>2 DEF Receive, CaptchaCall, IInv, TypeOK
  <2>3. \A S : \A r \in Requests : ReadRows(S)[r] \in {request[r], AbsentRequest}
    BY DEF ReadRows
  <2>4. ASSUME NEW b \in Batches, ReadStart(h, b) \/ ReadCancel(h, b) \/ ReadRetry(h, b)
        PROVE  <1>4!:
    BY <2>1, <2>3, <2>4 DEF ReadStart, ReadCancel, ReadRetry, CanStart
  <2> QED
    BY <2>2, <2>4 DEF Read, ReadCaptchaAnswer
<1>5. TypeOK'
  BY ReadType DEF IInv
<1>6. CallsAreBound'
  BY <1>2, <1>3, <1>4 DEF IInv, CallsAreBound
<1>7. DocumentsAreFiled'
  <2>1. \A r \in Requests : request'[r].document => r \in documents'
    BY <1>2 DEF IInv, DocumentsAreFiled
  <2>2. ASSUME NEW g \in Handlers, NEW r \in Requests, call'[g].op = "retry",
               call'[g].rows[r].status = "failed", call'[g].rows[r].document
        PROVE  r \in documents' /\ request'[r].status # "completed"
    <3>1. CASE g = h
      BY <1>2, <1>4, <2>2, <3>1 DEF IInv, DocumentsAreFiled, AbsentRequest
    <3>2. CASE g # h
      BY <1>2, <1>3, <2>2, <3>2 DEF IInv, DocumentsAreFiled
    <3> QED
      BY <3>1, <3>2
  <2> QED
    BY <2>1, <2>2 DEF DocumentsAreFiled
<1>8. WorkerHoldsOpenWork'
  BY <1>2 DEF IInv, WorkerHoldsOpenWork, HoldsBatch, HoldsRequest
<1>9. RowsExist' /\ ProcessingIsOwned' /\ CompletedHasDocument'
  BY <1>2 DEF IInv, RowsExist, ProcessingIsOwned, CompletedHasDocument
<1>10. ASSUME ~overlapped, NEW b \in Batches
       PROVE  /\ batch'[b].status = "completed" => Settled(b)'
              /\ batch'[b].status = "cancelled" => Emptied(b)'
  BY <1>2, <1>10, OtherBatches DEF HoldsBatch, HoldsRequest
<1>11. CompletedBatchIsSettled' /\ CancelEmptiesQueue'
  BY <1>2, <1>10 DEF CompletedBatchIsSettled, CancelEmptiesQueue
<1>12. SessionIsRecent' /\ OneInExecution' /\ WritesAreDue'
  BY <1>2, SessionFrame
<1> QED
  BY <1>5, <1>6, <1>7, <1>8, <1>9, <1>11, <1>12 DEF IInv

(* A commit keeps the invariant, whatever it overlaps.                     *)
LEMMA CommitInv ==
  ASSUME IInv, NEW h \in Handlers, Commit(h)
  PROVE  IInv'
<1>0. TypeOK /\ CallsAreBound
  BY DEF IInv
<1>1. TypeOK'
  BY <1>0, CommitType
<1>2. /\ documents' = documents /\ wk' = wk /\ session' = session
      /\ \A g \in Handlers : call'[g] \in {call[g], NoCall}
      /\ \A r \in Requests :
           request'[r].status \in {request[r].status, "skipped", "pending"}
      /\ \A b \in Batches :
           batch'[b].status \in {batch[b].status, "processing", "cancelled", "pending"}
  BY <1>0, CommitEffect DEF TypeOK
<1>3. /\ \A r \in Requests :
           request'[r].status # request[r].status => batch[BatchOf[r]].status # "absent"
      /\ \A b \in Batches : batch'[b] # batch[b] => batch[b].status # "absent"
  BY <1>0, CommitScope DEF CallsAreBound
<1>4. CallsAreBound'
  BY <1>0, <1>2 DEF CallsAreBound, NoCall
<1>5. RowsExist'
  BY <1>2, <1>3 DEF IInv, RowsExist
<1>6. WorkerHoldsOpenWork'
  BY <1>2 DEF IInv, WorkerHoldsOpenWork, HoldsBatch, HoldsRequest, RequestsOf
<1>7. ProcessingIsOwned'
  BY <1>2 DEF IInv, ProcessingIsOwned
<1>8. DocumentsAreFiled'
  <2>1. \A r \in Requests : request'[r].document => r \in documents'
    BY <1>0, <1>2, CommitEffect DEF IInv, DocumentsAreFiled
  <2>2. ASSUME NEW g \in Handlers, NEW r \in Requests, call'[g].op = "retry",
               call'[g].rows[r].status = "failed", call'[g].rows[r].document
        PROVE  r \in documents' /\ request'[r].status # "completed"
    BY <1>2, <2>2 DEF IInv, DocumentsAreFiled, NoCall
  <2> QED
    BY <2>1, <2>2 DEF DocumentsAreFiled
<1>9. CompletedHasDocument'
  <2> SUFFICES ASSUME NEW r \in Requests, request'[r].status = "completed"
               PROVE  request'[r].document /\ r \in documents'
    BY DEF CompletedHasDocument
  <2>1. request[r].status = "completed" /\ request[r].document /\ r \in documents
    BY <1>2 DEF IInv, CompletedHasDocument
  <2>2. CASE ~request'[r].document
    BY <1>0, <2>1, <2>2, CommitEffect DEF IInv, DocumentsAreFiled
  <2> QED
    BY <1>2, <2>1, <2>2
<1>10. ASSUME ~overlapped', NEW b \in Batches
       PROVE  /\ batch'[b].status = "completed" => Settled(b)'
              /\ batch'[b].status = "cancelled" => Emptied(b)'
  <2>1. ~overlapped
    BY <1>0, <1>10, SerialCommit
  <2>2. CASE batch'[b] # batch[b]
    <3>1. batch'[b].status # "completed"
      BY <1>0, <1>10, <2>2, SerialCommit
    <3>2. batch'[b].status = "cancelled" =>
            \A r \in RequestsOf(b) : request'[r].status \notin Active
      BY <1>0, <1>10, <2>2, SerialCommit
    <3> QED
      BY <3>1, <3>2 DEF Emptied
  <2>3. CASE batch'[b] = batch[b]
    <3>1. CASE \A r \in RequestsOf(b) : request'[r].status = request[r].status
      BY <1>2, <2>1, <2>3, <3>1, OtherBatches DEF HoldsBatch, HoldsRequest
    <3>2. CASE \E r \in RequestsOf(b) : request'[r].status # request[r].status
      <4>1. /\ batch'[b].status \in {"pending", "cancelled"}
            /\ batch'[b].status = "cancelled" =>
                 \A r \in RequestsOf(b) : request'[r].status \notin Active
        BY <1>0, <1>10, <3>2, SerialCommit DEF RequestsOf
      <4> QED
        BY <4>1 DEF Emptied
    <3> QED
      BY <3>1, <3>2
  <2> QED
    BY <2>2, <2>3
<1>11. CompletedBatchIsSettled' /\ CancelEmptiesQueue'
  BY <1>10 DEF CompletedBatchIsSettled, CancelEmptiesQueue
<1>12. SessionIsRecent'
  <2>1. InScope' = InScope /\ InScope \subseteq Requests
    BY <1>2 DEF InScope, RequestsOf
  <2> QED
    BY <1>2, <2>1 DEF IInv, SessionIsRecent, HoldsRequest, Active
<1>13. OneInExecution'
  BY <1>2 DEF IInv, OneInExecution
<1>14. ~overlapped' => RecoveryIsDue'
  <2> SUFFICES ASSUME ~overlapped', session.open, wk.pc = "down", NEW r \in Requests,
                      session.rows[r].status = "processing"
               PROVE  LET b == BatchOf[r]
                      IN  /\ batch'[b].status # "completed"
                          /\ batch'[b].status = "cancelled" =>
                               \A q \in RequestsOf(b) :
                                 request'[q].status \in Active => q = r
    BY <1>2 DEF RecoveryIsDue
  <2>1. PICK b \in Batches : b = BatchOf[r]
    OBVIOUS
  <2>2. ~overlapped
    BY <1>0, SerialCommit
  <2>3. /\ batch[b].status # "completed"
        /\ batch[b].status = "cancelled" =>
             \A q \in RequestsOf(b) : request[q].status \in Active => q = r
    BY <2>1, <2>2 DEF IInv, WritesAreDue, RecoveryIsDue
  <2>4. CASE batch'[b] # batch[b]
    BY <1>0, <2>1, <2>4, SerialCommit
  <2>5. CASE batch'[b] = batch[b]
    <3>1. CASE \A q \in RequestsOf(b) : request'[q].status = request[q].status
      BY <2>1, <2>3, <2>5, <3>1
    <3>2. CASE \E q \in RequestsOf(b) : request'[q].status # request[q].status
      BY <1>0, <2>1, <2>3, <2>5, <3>2, SerialCommit DEF RequestsOf
    <3> QED
      BY <3>1, <3>2
  <2> QED
    BY <2>4, <2>5
<1>15. ~overlapped' => VerdictIsDue'
  <2> SUFFICES ASSUME ~overlapped', session.open, wk.pc = "finalize",
                      \A r \in RequestsOf(wk.batch) :
                        session.rows[r].status \in {"completed", "skipped"}
               PROVE  LET b == wk.batch
                          due == Recounted(session.row, session.rows, b)
                      IN  /\ \A r \in RequestsOf(b) :
                               request'[r].status = session.rows[r].status
                          /\ batch'[b].completed \in {session.row.completed, due.completed}
                          /\ batch'[b].failed \in {session.row.failed, due.failed}
                          /\ batch'[b].skipped \in {session.row.skipped, due.skipped}
    BY <1>2 DEF VerdictIsDue
  <2>1. PICK b \in Batches : b = wk.batch
    BY DEF IInv, WorkerHoldsOpenWork, HoldsBatch
  <2>2. ~overlapped /\ VerdictIsDue
    <3>1. ~overlapped
      BY <1>0, SerialCommit
    <3> QED
      BY <3>1 DEF IInv, WritesAreDue
  <2> DEFINE due == Recounted(session.row, session.rows, b)
  <2>3. /\ \A r \in RequestsOf(b) : request[r].status = session.rows[r].status
        /\ batch[b].completed \in {session.row.completed, due.completed}
        /\ batch[b].failed \in {session.row.failed, due.failed}
        /\ batch[b].skipped \in {session.row.skipped, due.skipped}
    BY <2>1, <2>2 DEF VerdictIsDue
  <2> DEFINE now == Recounted(batch[b], request, b)
  <2>4. /\ \A r \in RequestsOf(b) : request'[r].status = request[r].status
        /\ batch'[b].completed \in {batch[b].completed, now.completed}
        /\ batch'[b].failed \in {batch[b].failed, now.failed}
        /\ batch'[b].skipped \in {batch[b].skipped, now.skipped}
    BY <1>0, <2>1, <2>3, CommitOnDoneBatch
  <2>5. /\ now.completed = due.completed /\ now.failed = due.failed
        /\ now.skipped = due.skipped
    <3>1. Recounted(batch[b], request, b) = Recounted(batch[b], session.rows, b)
      BY <2>3, RecountStable
    <3>2. batch[b] \in BatchRow /\ session.row \in BatchRow
      BY <1>0 DEF TypeOK, SessionRecord
    <3> QED
      BY <3>1, <3>2 DEF Recounted, BatchRow
  <2> HIDE DEF due, now
  <2>6. /\ \A r \in RequestsOf(b) : request'[r].status = session.rows[r].status
        /\ batch'[b].completed \in {session.row.completed, due.completed}
        /\ batch'[b].failed \in {session.row.failed, due.failed}
        /\ batch'[b].skipped \in {session.row.skipped, due.skipped}
    BY <2>3, <2>4, <2>5
  <2> QED
    BY <2>1, <2>6 DEF due
<1>16. WritesAreDue'
  BY <1>14, <1>15 DEF WritesAreDue
<1> QED
  BY <1>1, <1>4, <1>5, <1>6, <1>7, <1>8, <1>9, <1>11, <1>12, <1>13, <1>16 DEF IInv

(* Creation fills a batch nobody refers to yet.                            *)
LEMMA CreateInv ==
  ASSUME IInv, TypeOK', NEW b \in Batches, NEW S \in SUBSET Requests, CreateBatch(b, S)
  PROVE  IInv'
<1>1. /\ batch[b].status = "absent" /\ batch'[b].status = "pending"
      /\ \A o \in Batches : o # b => batch'[o] = batch[o]
  <2> DEFINE new == [AbsentBatch EXCEPT !.status = "pending"]
  <2>1. new \in BatchRow /\ new.status = "pending"
    BY DEF AbsentBatch, BatchRow, BatchStatus
  <2>2. \E rows : batch' = [batch EXCEPT ![b] = Recounted(new, rows, b)]
    BY DEF CreateBatch
  <2> HIDE DEF new
  <2>3. \A rows : Recounted(new, rows, b).status = "pending"
    BY <2>1, RecountedType
  <2>4. batch \in [Batches -> BatchRow] /\ batch[b].status = "absent"
    BY DEF CreateBatch, IInv, TypeOK
  <2> QED
    BY <2>2, <2>3, <2>4
<1>2. /\ \A r \in Requests : BatchOf[r] # b => request'[r] = request[r]
      /\ \A r \in RequestsOf(b) : /\ request'[r].status \in {"pending", "skipped"}
                                  /\ ~request'[r].document
  BY DEF CreateBatch, RequestsOf, AbsentRequest
<1>3. /\ documents' = documents /\ call' = call /\ overlapped' = overlapped /\ wk' = wk
      /\ session' = session
  BY DEF CreateBatch
<1>4. HoldsBatch => wk.batch # b
  BY <1>1 DEF IInv, WorkerHoldsOpenWork
<1>5. CallsAreBound'
  BY <1>1, <1>3 DEF IInv, CallsAreBound
<1>6. RowsExist'
  BY <1>1, <1>2 DEF IInv, RowsExist, RequestsOf
<1>7. WorkerHoldsOpenWork' /\ ProcessingIsOwned'
  <2>1. HoldsRequest => HoldsBatch
    BY DEF HoldsRequest, HoldsBatch
  <2>2. WorkerHoldsOpenWork'
    BY <1>1, <1>2, <1>3, <1>4, <2>1
    DEF IInv, WorkerHoldsOpenWork, HoldsBatch, HoldsRequest, RequestsOf
  <2> QED
    BY <1>2, <1>3, <2>2 DEF IInv, ProcessingIsOwned, RequestsOf
<1>8. DocumentsAreFiled' /\ CompletedHasDocument'
  BY <1>2, <1>3 DEF IInv, DocumentsAreFiled, CompletedHasDocument, RequestsOf
<1>9. ASSUME ~overlapped, NEW o \in Batches
      PROVE  /\ batch'[o].status = "completed" => Settled(o)'
             /\ batch'[o].status = "cancelled" => Emptied(o)'
  <2>1. CASE o = b
    BY <1>1, <2>1
  <2>2. CASE o # b
    BY <1>1, <1>2, <1>3, <1>9, <2>2, OtherBatches DEF RequestsOf, HoldsBatch, HoldsRequest
  <2> QED
    BY <2>1, <2>2
<1>10. CompletedBatchIsSettled' /\ CancelEmptiesQueue'
  BY <1>3, <1>9 DEF CompletedBatchIsSettled, CancelEmptiesQueue
<1>11. /\ \A r \in RequestsOf(b) : request[r].status = "absent"
       /\ session.open => wk.pc = "down" \/ wk.batch # b
  BY <1>1, <1>4 DEF IInv, RowsExist, RequestsOf, SessionIsRecent, Writing, HoldsBatch
<1>12. SessionIsRecent'
  <2> SUFFICES ASSUME session.open
               PROVE  SessionIsRecent'
    BY <1>3 DEF SessionIsRecent
  <2>1. InScope' = InScope /\ InScope \subseteq Requests
        /\ \A r \in Requests : r \in RequestsOf(b) <=> BatchOf[r] = b
    BY <1>3 DEF InScope, RequestsOf
  <2>2. ASSUME NEW r \in InScope
        PROVE  LET seen == session.rows[r]
               IN /\ request'[r].status \in {"processing", "awaiting_captcha", "completed"}
                       => seen.status = request'[r].status
                  /\ seen.status \in Active => request'[r].status \in Active \cup {"skipped"}
                  /\ seen.document => r \in documents
    BY <1>2, <1>11, <2>1, <2>2 DEF IInv, SessionIsRecent, Active
  <2>3. wk.pc = "finalize" =>
          \A r \in RequestsOf(wk.batch) :
            session.rows[r].status \in {"completed", "failed", "skipped", "pending"}
    BY DEF IInv, SessionIsRecent
  <2> QED
    BY <1>3, <2>1, <2>2, <2>3 DEF IInv, SessionIsRecent, HoldsRequest
<1>13. OneInExecution'
  BY <1>2, <1>3 DEF IInv, OneInExecution, RequestsOf
<1>14. ASSUME ~overlapped
       PROVE  RecoveryIsDue' /\ VerdictIsDue'
  <2>1. RecoveryIsDue /\ VerdictIsDue
    BY <1>14 DEF IInv, WritesAreDue
  <2>2. RecoveryIsDue'
    <3> SUFFICES ASSUME session.open, wk.pc = "down", NEW r \in Requests,
                        session.rows[r].status = "processing"
                 PROVE  BatchOf[r] # b
      BY <1>1, <1>2, <1>3, <2>1 DEF RecoveryIsDue, RequestsOf
    <3>1. request[r].status # "absent"
      BY DEF IInv, SessionIsRecent, InScope, Active
    <3> QED
      BY <1>11, <3>1 DEF RequestsOf
  <2>3. VerdictIsDue'
    <3> SUFFICES ASSUME session.open, wk.pc = "finalize"
                 PROVE  VerdictIsDue'
      BY <1>3 DEF VerdictIsDue
    <3>1. wk.batch \in Batches /\ wk.batch # b
      BY <1>11 DEF IInv, WorkerHoldsOpenWork, HoldsBatch
    <3>2. /\ batch'[wk.batch] = batch[wk.batch]
          /\ \A r \in RequestsOf(wk.batch) : request'[r] = request[r]
      BY <1>1, <1>2, <3>1 DEF RequestsOf
    <3> QED
      BY <1>3, <2>1, <3>2 DEF VerdictIsDue
  <2> QED
    BY <2>2, <2>3
<1>15. WritesAreDue'
  BY <1>3, <1>14 DEF IInv, WritesAreDue
<1> QED
  BY <1>5, <1>6, <1>7, <1>8, <1>10, <1>12, <1>13, <1>15 DEF IInv

(* The steps that move the worker and leave the statuses alone.            *)
LEMMA QuietInv ==
  ASSUME IInv, TypeOK',
         \/ \E b \in Batches : TakeBatch(b)
         \/ OpenBatch
         \/ Authenticate
         \/ NoRequestLeft
         \/ FlowCompletes
         \/ FlowNeedsAnswer
         \/ PollAnswer
         \/ GiveUpWaiting
         \/ SubmitSolution
         \/ RaiseException
         \/ StopGracefully
         \/ \E r \in Requests : DeadlinePasses(r)
         \/ RequestStop
         \/ Crash
         \/ \E u \in Users : ChangeCredentials(u)
         \/ UNCHANGED vars
  PROVE  IInv'
<1> DEFINE Quiet == /\ batch' = batch /\ documents' = documents /\ call' = call
                    /\ overlapped' = overlapped
                    /\ \A r \in Requests : /\ request'[r].status = request[r].status
                                           /\ request'[r].document = request[r].document
           Kept == /\ WorkerHoldsOpenWork' /\ ProcessingIsOwned'
                   /\ HoldsBatch' => \/ HoldsBatch /\ wk'.batch = wk.batch
                                     \/ batch[wk'.batch].status = "processing"
                   /\ HoldsRequest' => /\ HoldsRequest /\ wk'.batch = wk.batch
                                       /\ wk'.req = wk.req
                   /\ \/ ~session'.open
                      \/ /\ session' = session /\ wk'.pc = wk.pc
                         /\ wk'.batch = wk.batch /\ wk'.req = wk.req
<1>0. wk \in WorkerRecord /\ (session.open => wk.pc \in Writing)
  BY DEF IInv, TypeOK, SessionIsRecent
<1>1. Quiet /\ Kept => IInv'
  BY QuietStep
<1>2. ASSUME NEW b \in Batches, TakeBatch(b)
      PROVE  Quiet /\ Kept
  <2>1. wk'.pc = "taken" /\ wk'.batch = b /\ Quiet /\ session' = session
    BY <1>0, <1>2 DEF TakeBatch, WorkerOnly, NothingWritten, WorkerRecord
  <2>2. batch[b].status = "processing" /\ wk.pc = "idle" /\ ~session.open
    BY <1>0, <1>2 DEF TakeBatch, Writing
  <2> QED
    BY <2>1, <2>2 DEF IInv, WorkerHoldsOpenWork, ProcessingIsOwned, HoldsBatch, HoldsRequest
<1>3. CASE OpenBatch \/ Authenticate
  <2>1. /\ wk.pc \in {"taken", "auth"} /\ wk'.pc \in {"auth", "refuse", "loop"}
        /\ wk'.batch = wk.batch /\ Quiet /\ session' = session /\ ~session.open
    BY <1>0, <1>3 DEF OpenBatch, Authenticate, WorkerOnly, NothingWritten, WorkerRecord,
                      Writing
  <2>2. Kept
    BY <2>1 DEF IInv, WorkerHoldsOpenWork, ProcessingIsOwned, HoldsBatch, HoldsRequest
  <2> QED
    BY <1>1, <2>1, <2>2
<1>4. CASE NoRequestLeft
  <2>1. /\ wk.pc = "loop" /\ wk'.pc = "finalize" /\ wk'.batch = wk.batch
        /\ Quiet /\ session' = session /\ ~session.open
        /\ \A r \in RequestsOf(wk.batch) : request[r].status \notin Active
    BY <1>0, <1>4 DEF NoRequestLeft, WorkerOnly, NothingWritten, WorkerRecord, Writing
  <2>2. Kept
    BY <2>1 DEF IInv, WorkerHoldsOpenWork, ProcessingIsOwned, HoldsBatch, HoldsRequest,
                Active, RequestsOf
  <2> QED
    BY <1>1, <2>1, <2>2
<1>5. CASE FlowCompletes \/ FlowNeedsAnswer \/ GiveUpWaiting \/ SubmitSolution \/ PollAnswer
  <2>1. Quiet /\ session' = session
    BY <1>5 DEF FlowCompletes, FlowNeedsAnswer, GiveUpWaiting, SubmitSolution, PollAnswer,
                WorkerOnly, NothingWritten
  <2>2. /\ wk.pc \in {"flow", "wait", "submit"}
        /\ \/ wk'.pc = "persist" /\ wk'.result \in {"completed", "failed", "skipped"}
           \/ wk'.pc \in {"submit", "ask"}
        /\ wk'.batch = wk.batch /\ wk'.req = wk.req
        /\ wk'.pc = "submit" => wk.pc = "wait"
    <3>1. CASE FlowCompletes \/ GiveUpWaiting \/ FlowNeedsAnswer
      BY <1>0, <3>1 DEF FlowCompletes, GiveUpWaiting, FlowNeedsAnswer, WorkerRecord
    <3>2. CASE SubmitSolution
      <4>1. PICK accepted \in BOOLEAN :
              wk' = [wk EXCEPT !.pc = "persist",
                               !.result = IF accepted THEN "completed" ELSE "failed"]
        BY <3>2 DEF SubmitSolution
      <4> QED
        BY <1>0, <3>2, <4>1 DEF SubmitSolution, WorkerRecord
    <3>3. CASE PollAnswer
      <4>1. \/ wk' = [wk EXCEPT !.pc = "persist", !.result = "skipped"]
            \/ wk' = [wk EXCEPT !.pc = "submit"]
        BY <3>3 DEF PollAnswer
      <4> QED
        BY <1>0, <3>3, <4>1 DEF PollAnswer, WorkerRecord
    <3> QED
      BY <1>5, <3>1, <3>2, <3>3
  <2>3. ~session'.open
    BY <1>0, <2>1, <2>2 DEF Writing
  <2>4. Kept
    BY <2>1, <2>2, <2>3
    DEF IInv, WorkerHoldsOpenWork, ProcessingIsOwned, HoldsBatch, HoldsRequest
  <2> QED
    BY <1>1, <2>1, <2>4
<1>6. CASE RaiseException
  <2>1. /\ wk.pc \in {"auth", "flow", "submit", "persist"} /\ wk'.pc = "fail"
        /\ wk'.batch = wk.batch /\ wk'.req = wk.req /\ Quiet /\ ~session'.open
    BY <1>0, <1>6 DEF RaiseException, FilingConflicts, WorkerOnly, NoSession, WorkerRecord
  <2>2. \A r \in Requests :
          request[r].status = "processing" =>
            wk.req = r /\ wk.pc \in {"flow", "persist"} /\ BatchOf[r] = wk.batch
    BY <2>1 DEF IInv, ProcessingIsOwned, WorkerHoldsOpenWork, HoldsRequest
  <2>3. Kept
    BY <2>1, <2>2
    DEF IInv, WorkerHoldsOpenWork, ProcessingIsOwned, HoldsBatch, HoldsRequest
  <2> QED
    BY <1>1, <2>1, <2>3
<1>7. CASE StopGracefully \/ Crash
  <2>1. Quiet /\ wk'.pc = "down"
    BY <1>7 DEF StopGracefully, Crash, WorkerOnly, NothingWritten, tables, WorkerAt
  <2>2. ~session'.open
    BY <1>0, <1>7 DEF StopGracefully, Crash, NothingWritten, NoSession, Writing
  <2>3. Kept
    BY <2>1, <2>2
    DEF IInv, WorkerHoldsOpenWork, ProcessingIsOwned, HoldsBatch, HoldsRequest
  <2> QED
    BY <1>1, <2>1, <2>3
<1>8. ASSUME NEW q \in Requests, DeadlinePasses(q)
      PROVE  Quiet /\ Kept
  <2>1. Quiet /\ session' = session
    BY <1>8 DEF DeadlinePasses, IInv, TypeOK, RequestRow
  <2>2. wk'.pc = wk.pc /\ wk'.batch = wk.batch /\ wk'.req = wk.req /\ wk'.result = wk.result
    BY <1>0, <1>8 DEF DeadlinePasses, WorkerRecord
  <2> QED
    BY <2>1, <2>2 DEF IInv, WorkerHoldsOpenWork, ProcessingIsOwned, HoldsBatch,
                      HoldsRequest, RequestsOf
<1>9. CASE RequestStop \/ (\E u \in Users : ChangeCredentials(u)) \/ UNCHANGED vars
  <2>1. Quiet /\ session' = session /\ wk' = wk /\ request' = request
    BY <1>9 DEF RequestStop, ChangeCredentials, tables, vars
  <2>2. Kept
    BY <2>1 DEF IInv, WorkerHoldsOpenWork, ProcessingIsOwned, HoldsBatch, HoldsRequest
  <2> QED
    BY <1>1, <2>1, <2>2
<1> QED
  BY <1>1, <1>2, <1>3, <1>4, <1>5, <1>6, <1>7, <1>8, <1>9

(* What the worker reads is what is there.                                 *)
LEMMA ReadTablesInv ==
  ASSUME IInv, TypeOK', ReadTables
  PROVE  IInv'
<1>1. /\ batch' = batch /\ request' = request /\ documents' = documents
      /\ call' = call /\ overlapped' = overlapped /\ wk' = wk
      /\ wk.pc \in Writing
      /\ wk.pc # "down" => session'.row = batch[wk.batch] /\ HoldsBatch
      /\ InScope' = InScope /\ InScope \subseteq Requests
      /\ \A r \in InScope : session'.rows[r] = request[r]
      /\ \A r \in Requests : session'.rows[r] \in {request[r], AbsentRequest}
  BY DEF ReadTables, WorkerOnly, ReadRows, InScope, RequestsOf, Writing, HoldsBatch
<1>2. /\ CallsAreBound' /\ RowsExist' /\ WorkerHoldsOpenWork' /\ ProcessingIsOwned'
      /\ DocumentsAreFiled' /\ CompletedHasDocument' /\ CompletedBatchIsSettled'
      /\ CancelEmptiesQueue'
  BY <1>1 DEF IInv, CallsAreBound, RowsExist, WorkerHoldsOpenWork, ProcessingIsOwned,
     DocumentsAreFiled, CompletedHasDocument, CompletedBatchIsSettled, CancelEmptiesQueue,
     Settled, Emptied, HoldsBatch, HoldsRequest
<1>3. wk.pc # "down" => /\ InScope = RequestsOf(wk.batch)
                        /\ wk.batch \in Batches
                        /\ batch[wk.batch].status \notin {"absent", "completed"}
                        /\ \A r \in RequestsOf(wk.batch) :
                             /\ request[r].status \in RequestStatus
                             /\ request[r].status # "absent"
  BY <1>1 DEF IInv, WorkerHoldsOpenWork, InScope, RowsExist, RequestsOf, TypeOK, RequestRow
<1>4. SessionIsRecent'
  <2>1. HoldsRequest => session'.rows[wk.req].status # "completed"
    BY <1>1, <1>3 DEF IInv, WorkerHoldsOpenWork, HoldsRequest, RequestsOf
  <2>2. wk.pc = "finalize" =>
          \A r \in RequestsOf(wk.batch) :
            session'.rows[r].status \in {"completed", "failed", "skipped", "pending"}
    BY <1>1, <1>3 DEF IInv, WorkerHoldsOpenWork, RequestStatus
  <2>3. \A r \in Requests : request[r].document => r \in documents
    BY DEF IInv, DocumentsAreFiled
  <2> QED
    BY <1>1, <1>3, <2>1, <2>2, <2>3 DEF SessionIsRecent, HoldsRequest
<1>5. OneInExecution'
  BY <1>1 DEF IInv, OneInExecution, AbsentRequest
<1>6. ASSUME ~overlapped
      PROVE  RecoveryIsDue' /\ VerdictIsDue'
  <2>1. RecoveryIsDue'
    <3> SUFFICES ASSUME wk.pc = "down", NEW r \in Requests,
                        session'.rows[r].status = "processing"
                 PROVE  LET b == BatchOf[r]
                        IN  /\ batch[b].status # "completed"
                            /\ batch[b].status = "cancelled" =>
                                 \A q \in RequestsOf(b) :
                                   request[q].status \in Active => q = r
      BY <1>1 DEF RecoveryIsDue
    <3>1. request[r].status = "processing" /\ BatchOf[r] \in Batches
          /\ r \in RequestsOf(BatchOf[r])
      BY <1>1 DEF AbsentRequest, RequestsOf
    <3> QED
      BY <1>6, <3>1 DEF IInv, CompletedBatchIsSettled, Settled, CancelEmptiesQueue, Emptied,
                        Active
  <2>2. VerdictIsDue'
    BY <1>1, <1>3 DEF VerdictIsDue
  <2> QED
    BY <2>1, <2>2
<1>7. WritesAreDue'
  BY <1>1, <1>6 DEF WritesAreDue
<1> QED
  BY <1>2, <1>4, <1>5, <1>7 DEF IInv

(* What the recovery at boot writes.                                       *)
LEMMA BootEffect ==
  ASSUME IInv, Boot
  PROVE  /\ batch' = batch /\ documents' = documents /\ call' = call
         /\ overlapped' = overlapped /\ wk'.pc = "idle" /\ wk.pc = "down"
         /\ ~session'.open /\ session.open
         /\ \A r \in Requests :
              /\ request'[r].document = request[r].document
              /\ \/ request'[r].status = request[r].status
                 \/ /\ session.rows[r].status = "processing"
                    /\ request'[r].status = "pending"
                    /\ request[r].status \in Active \cup {"skipped"}
              /\ request'[r].status # "processing"
<1>1. /\ batch' = batch /\ documents' = documents /\ call' = call
      /\ overlapped' = overlapped /\ wk'.pc = "idle" /\ wk.pc = "down"
      /\ ~session'.open /\ session.open
  BY DEF Boot, Save, NoSession, WorkerAt
<1>2. \A r \in Requests :
        /\ request'[r].document = request[r].document
        /\ \/ request'[r].status = request[r].status
           \/ /\ session.rows[r].status = "processing"
              /\ request'[r].status = "pending"
              /\ request[r].status \in Active \cup {"skipped"}
        /\ request'[r].status # "processing"
  <2> DEFINE newRows == [r \in Requests |-> RecoveredRow(session.rows[r])]
  <2>1. ASSUME NEW row \in RequestRow
        PROVE  /\ RecoveredRow(row).document = row.document
               /\ RecoveredRow(row).status
                    = IF row.status = "processing" THEN "pending" ELSE row.status
    BY DEF RecoveredRow, RequestRow
  <2>2. InScope = Requests /\ session.rows \in [Requests -> RequestRow]
    BY <1>1 DEF InScope, IInv, TypeOK, SessionRecord
  <2>3. Save(newRows, session.row)
    BY DEF Boot
  <2>4. ASSUME NEW r \in Requests
        PROVE  /\ newRows[r].document = session.rows[r].document
               /\ newRows[r].status = IF session.rows[r].status = "processing"
                                      THEN "pending" ELSE session.rows[r].status
    BY <2>1, <2>2
  <2> HIDE DEF newRows
  <2>5. ASSUME NEW r \in Requests
        PROVE  /\ request[r].status = "processing" => session.rows[r].status = "processing"
               /\ session.rows[r].status = "processing" =>
                    request[r].status \in Active \cup {"skipped"}
    BY <1>1, <2>2 DEF IInv, SessionIsRecent, Active
  <2> QED
    BY <2>2, <2>3, <2>4, <2>5, SaveEffect DEF IInv, Column
<1> QED
  BY <1>1, <1>2

(* At boot the rows left in execution go back to PENDING.                  *)
LEMMA BootInv ==
  ASSUME IInv, TypeOK', Boot
  PROVE  IInv'
<1>1. /\ batch' = batch /\ documents' = documents /\ call' = call
      /\ overlapped' = overlapped /\ wk'.pc = "idle" /\ wk.pc = "down"
      /\ ~session'.open /\ session.open
  BY BootEffect
<1>2. \A r \in Requests :
        /\ request'[r].document = request[r].document
        /\ \/ request'[r].status = request[r].status
           \/ /\ session.rows[r].status = "processing"
              /\ request'[r].status = "pending"
              /\ request[r].status \in Active \cup {"skipped"}
        /\ request'[r].status # "processing"
  BY BootEffect
<1>3. WorkerHoldsOpenWork' /\ ~HoldsBatch' /\ ~HoldsRequest'
  BY <1>1 DEF WorkerHoldsOpenWork, HoldsBatch, HoldsRequest
<1>4. CallsAreBound' /\ RowsExist' /\ ProcessingIsOwned'
  BY <1>1, <1>2 DEF IInv, CallsAreBound, RowsExist, ProcessingIsOwned, Active
<1>5. DocumentsAreFiled' /\ CompletedHasDocument'
  BY <1>1, <1>2 DEF IInv, DocumentsAreFiled, CompletedHasDocument
<1>6. ASSUME ~overlapped, NEW b \in Batches
      PROVE  /\ batch'[b].status = "completed" => Settled(b)'
             /\ batch'[b].status = "cancelled" => Emptied(b)'
  <2>0. RecoveryIsDue
    BY <1>6 DEF IInv, WritesAreDue
  <2>1. CASE batch[b].status = "completed"
    <3>1. \A r \in RequestsOf(b) : request'[r].status = request[r].status
      BY <1>1, <1>2, <2>0, <2>1 DEF RecoveryIsDue, RequestsOf
    <3> QED
      BY <1>1, <1>3, <1>6, <3>1, OtherBatches
  <2>2. CASE batch[b].status = "cancelled"
    <3>1. \A r \in RequestsOf(b) :
            session.rows[r].status = "processing" =>
              \A q \in RequestsOf(b) : request[q].status \in Active => q = r
      BY <1>1, <2>0, <2>2 DEF RecoveryIsDue, RequestsOf
    <3>2. \A r, q \in RequestsOf(b) :
            request[r].status \in Active /\ request[q].status \in Active => r = q
      BY <1>6, <2>2 DEF IInv, CancelEmptiesQueue, Emptied
    <3>3. \A r, q \in Requests : session.rows[r].status = "processing"
                                 /\ session.rows[q].status = "processing" => r = q
      BY <1>1 DEF IInv, OneInExecution
    <3>4. ASSUME NEW r \in RequestsOf(b), NEW q \in RequestsOf(b),
                 request'[r].status \in Active, request'[q].status \in Active
          PROVE  r = q
      <4>1. /\ request[r].status \in Active \/ session.rows[r].status = "processing"
            /\ request[q].status \in Active \/ session.rows[q].status = "processing"
        BY <1>2, <3>4 DEF RequestsOf
      <4> QED
        BY <3>1, <3>2, <3>3, <4>1 DEF RequestsOf
    <3> QED
      BY <1>1, <1>3, <2>2, <3>4 DEF Emptied
  <2> QED
    BY <1>1, <2>1, <2>2
<1>7. CompletedBatchIsSettled' /\ CancelEmptiesQueue'
  BY <1>1, <1>6 DEF CompletedBatchIsSettled, CancelEmptiesQueue
<1>8. SessionIsRecent' /\ OneInExecution' /\ WritesAreDue'
  BY <1>1, <1>2, SessionClosed
<1> QED
  BY <1>3, <1>4, <1>5, <1>7, <1>8 DEF IInv

(* The row picked in a cancelled batch is the only one alive.              *)
LEMMA PickInv ==
  ASSUME IInv, TypeOK', NEW r \in Requests, PickRequest(r)
  PROVE  IInv'
<1>1. /\ batch' = batch /\ request' = request /\ documents' = documents
      /\ call' = call /\ overlapped' = overlapped
      /\ wk'.pc = "begin" /\ wk'.batch = wk.batch /\ wk'.req = r
      /\ wk.batch \in Batches /\ BatchOf[r] = wk.batch
      /\ request[r].status \in Active
      /\ wk.pc = "loop" /\ batch[wk.batch].status \notin {"absent", "completed"}
      /\ session' = session /\ ~session.open
  BY DEF PickRequest, Eligible, Active, WorkerOnly, NothingWritten, IInv, TypeOK,
         WorkerRecord, WorkerHoldsOpenWork, HoldsBatch, SessionIsRecent, Writing
<1>2. WorkerHoldsOpenWork' /\ ProcessingIsOwned' /\ CallsAreBound' /\ RowsExist'
      /\ DocumentsAreFiled' /\ CompletedHasDocument'
  BY <1>1 DEF IInv, WorkerHoldsOpenWork, ProcessingIsOwned, CallsAreBound, RowsExist,
              DocumentsAreFiled, CompletedHasDocument, HoldsBatch, HoldsRequest, Active
<1>3. ASSUME ~overlapped, NEW b \in Batches
      PROVE  /\ batch'[b].status = "completed" => Settled(b)'
             /\ batch'[b].status = "cancelled" => Emptied(b)'
  <2>1. CASE b # wk.batch
    BY <1>1, <1>3, <2>1, OtherBatches
  <2>2. CASE b = wk.batch
    BY <1>1, <1>3, <2>2 DEF IInv, CancelEmptiesQueue, Emptied, RequestsOf
  <2> QED
    BY <2>1, <2>2
<1>4. CompletedBatchIsSettled' /\ CancelEmptiesQueue'
  BY <1>1, <1>3 DEF CompletedBatchIsSettled, CancelEmptiesQueue
<1>5. SessionIsRecent' /\ OneInExecution' /\ WritesAreDue'
  BY <1>1, SessionClosed DEF IInv, OneInExecution
<1> QED
  BY <1>2, <1>4, <1>5 DEF IInv

(* What a save of the row in hand may write: begin, or ask for an answer.  *)
LEMMA ExecuteEffect ==
  ASSUME IInv, BeginRequest \/ AskManualCaptcha
  PROVE  /\ batch' = batch /\ ~session'.open /\ HoldsBatch /\ HoldsRequest
         /\ wk'.batch = wk.batch /\ wk'.req = wk.req
         /\ \/ wk'.pc = "flow" /\ wk.pc = "begin"
            \/ wk'.pc = "wait" /\ wk.pc = "ask" /\ request'[wk.req].status # "processing"
         /\ request'[wk.req].status
              \in {request[wk.req].status, "processing", "awaiting_captcha"}
         /\ request'[wk.req].document = request[wk.req].document
         /\ \A r \in Requests : r # wk.req => request'[r] = request[r]
<1> DEFINE q == wk.req
           seen == session.rows[q]
<1>1. /\ wk.batch \in Batches /\ q \in RequestsOf(wk.batch) /\ q \in Requests
      /\ HoldsBatch /\ HoldsRequest /\ wk.pc # "down"
  BY DEF BeginRequest, AskManualCaptcha, IInv, WorkerHoldsOpenWork, HoldsBatch, HoldsRequest,
         RequestsOf
<1>2. /\ wk \in WorkerRecord /\ session.rows \in [Requests -> RequestRow]
      /\ seen \in RequestRow /\ session.row \in BatchRow
      /\ batch \in [Batches -> BatchRow] /\ request \in [Requests -> RequestRow]
      /\ InScope = RequestsOf(wk.batch)
  BY <1>1 DEF IInv, TypeOK, SessionRecord, InScope
<1>3. CASE BeginRequest
  <2> DEFINE new == [seen EXCEPT !.status = "processing"]
             rows == [session.rows EXCEPT ![q] = new]
  <2>1. new.status = "processing" /\ new.document = seen.document
    BY <1>2 DEF RequestRow
  <2>2. rows[q] = new /\ \A r \in Requests : r # q => rows[r] = session.rows[r]
    BY <1>1, <1>2
  <2>3. Save(rows, session.row)
    BY <1>3 DEF BeginRequest
  <2> HIDE DEF rows, new
  <2>4. batch' = batch
    <3>1. FlushBatch(batch[wk.batch], session.row, session.row) = batch[wk.batch]
      BY <1>1, <1>2, FlushNothing
    <3> QED
      BY <1>1, <1>2, <2>3, <3>1 DEF Save
  <2>5. /\ ~session'.open
        /\ request'[q].status = Column(request[q].status, seen.status, "processing")
        /\ request'[q].document = Column(request[q].document, seen.document, seen.document)
        /\ \A r \in Requests : r # q => request'[r] = request[r]
    BY <1>1, <1>2, <2>1, <2>2, <2>3, SaveEffect DEF IInv
  <2>6. wk'.pc = "flow" /\ wk.pc = "begin" /\ wk'.batch = wk.batch /\ wk'.req = wk.req
    BY <1>2, <1>3 DEF BeginRequest, WorkerRecord
  <2> HIDE DEF q, seen
  <2> QED
    BY <1>1, <2>4, <2>5, <2>6 DEF Column, q
<1>4. CASE AskManualCaptcha
  <2> DEFINE asked == AskedRow(seen)
             flushed == FlushRequest(request[q], seen, asked)
             row == [flushed EXCEPT !.expiry = "future"]
  <2>1. asked.status = "awaiting_captcha" /\ asked.document = seen.document
    BY <1>2 DEF AskedRow, RequestRow
  <2>2. flushed \in RequestRow
    BY <1>1, <1>2, FlushType, RowOperatorsType
  <2>3. row.status = flushed.status /\ row.document = flushed.document
    BY <2>2 DEF RequestRow
  <2>4. request' = [request EXCEPT ![q] = row]
    BY <1>4 DEF AskManualCaptcha
  <2>5. flushed.status = Column(request[q].status, seen.status, asked.status)
        /\ flushed.document = Column(request[q].document, seen.document, asked.document)
    BY DEF FlushRequest
  <2> HIDE DEF row, flushed, asked
  <2>6. /\ request'[q].status = Column(request[q].status, seen.status, "awaiting_captcha")
        /\ request'[q].document = request[q].document
        /\ \A r \in Requests : r # q => request'[r] = request[r]
    BY <1>1, <1>2, <2>1, <2>3, <2>4, <2>5 DEF Column
  <2>7. request[q].status = "processing" => seen.status = "processing"
    BY <1>1, <1>2, <1>4 DEF AskManualCaptcha, IInv, SessionIsRecent
  <2>8. /\ wk'.pc = "wait" /\ wk.pc = "ask" /\ wk'.batch = wk.batch /\ wk'.req = wk.req
        /\ batch' = batch /\ ~session'.open
    BY <1>2, <1>4 DEF AskManualCaptcha, NoSession, WorkerRecord
  <2> HIDE DEF q, seen
  <2> QED
    BY <1>1, <2>6, <2>7, <2>8 DEF Column, q
<1> QED
  BY <1>3, <1>4

(* The row in hand goes into execution or waits for its CAPTCHA answer.    *)
LEMMA ExecuteInv ==
  ASSUME IInv, TypeOK', BeginRequest \/ AskManualCaptcha
  PROVE  IInv'
<1> DEFINE b == wk.batch
           q == wk.req
<1>1. /\ b \in Batches /\ q \in Requests /\ BatchOf[q] = b /\ HoldsBatch /\ HoldsRequest
      /\ batch[b].status \notin {"absent", "completed"}
      /\ request[q].status # "completed" /\ request[q].status # "absent"
  BY DEF BeginRequest, AskManualCaptcha, IInv, WorkerHoldsOpenWork, HoldsBatch, HoldsRequest,
         RowsExist
<1>2. /\ batch' = batch /\ documents' = documents /\ call' = call
      /\ overlapped' = overlapped /\ ~session'.open
  BY ExecuteEffect DEF BeginRequest, AskManualCaptcha, WorkerOnly
<1>3. /\ wk'.batch = b /\ wk'.req = q
      /\ \/ wk'.pc = "flow" /\ wk.pc = "begin"
         \/ wk'.pc = "wait" /\ wk.pc = "ask" /\ request'[q].status # "processing"
      /\ request'[q].status \notin {"completed", "absent"}
      /\ request'[q].document = request[q].document
      /\ \A r \in Requests : r # q => request'[r] = request[r]
  BY <1>1, ExecuteEffect
<1>4. WorkerHoldsOpenWork' /\ ProcessingIsOwned'
  BY <1>1, <1>2, <1>3 DEF IInv, WorkerHoldsOpenWork, ProcessingIsOwned, HoldsBatch,
                          HoldsRequest
<1>5. ~overlapped => /\ batch'[b].status # "completed"
                     /\ batch'[b].status = "cancelled" =>
                          \A r \in RequestsOf(b) : request'[r].status \in Active => r = q
  BY <1>1, <1>2, <1>3 DEF IInv, CancelEmptiesQueue, Emptied, RequestsOf
<1>6. \A r \in RequestsOf(b) :
        /\ request'[r].status # "absent"
        /\ request'[r].document => r \in documents'
        /\ request'[r].status = "completed" => request'[r].document /\ request[r].status = "completed"
  BY <1>1, <1>2, <1>3 DEF IInv, RowsExist, DocumentsAreFiled, CompletedHasDocument, RequestsOf
<1>7. PICK held \in Batches : held = wk.batch
  BY <1>1
<1>8. ~overlapped => /\ batch'[held].status = "completed" => Settled(held)'
                     /\ batch'[held].status = "cancelled" => Emptied(held)'
  BY <1>1, <1>2, <1>3, <1>5, <1>7 DEF Emptied
<1>9. \A r \in Requests : BatchOf[r] # held => request'[r] = request[r]
  BY <1>1, <1>3, <1>7
<1> HIDE DEF b, q
<1> QED
  BY <1>1, <1>2, <1>3, <1>4, <1>6, <1>7, <1>8, <1>9, StepOnHeldBatch DEF b

(* What closing the row in hand may write to it.                           *)
LEMMA SettleEffect ==
  ASSUME IInv, CloseRequest \/ PersistResult
  PROVE  LET q == wk.req
         IN  /\ q \in Requests /\ BatchOf[q] = wk.batch /\ wk.batch \in Batches
             /\ HoldsBatch /\ HoldsRequest
             /\ ~session'.open /\ wk'.pc = "loop" /\ wk'.batch = wk.batch
             /\ batch'[wk.batch].status = batch[wk.batch].status
             /\ \A o \in Batches : o # wk.batch => batch'[o] = batch[o]
             /\ \A r \in Requests : r # q => request'[r] = request[r]
             /\ request'[q].status \in {request[q].status, "completed", "failed", "skipped"}
             /\ request'[q].status # "processing"
             /\ documents \subseteq documents'
             /\ request'[q].document => request[q].document \/ q \in documents'
             /\ request'[q].status = "completed" =>
                  /\ request'[q].document /\ q \notin documents
                  /\ documents' = documents \cup {q}
             /\ request'[q].status # "completed" => documents' = documents
<1> DEFINE q == wk.req
           seen == session.rows[q]
<1>1. /\ q \in Requests /\ BatchOf[q] = wk.batch /\ wk.batch \in Batches
      /\ HoldsBatch /\ HoldsRequest /\ wk.pc # "down"
      /\ wk \in WorkerRecord /\ seen \in RequestRow /\ request[q] \in RequestRow
      /\ TypeOK /\ WorkerHoldsOpenWork /\ InScope = RequestsOf(wk.batch)
      /\ q \in RequestsOf(wk.batch) /\ request[q].status # "completed"
  BY DEF CloseRequest, PersistResult, IInv, WorkerHoldsOpenWork, HoldsBatch, HoldsRequest,
         TypeOK, SessionRecord, InScope, RequestsOf
<1>2. wk'.pc = "loop" /\ wk'.batch = wk.batch
  <2>1. CASE CloseRequest
    BY <1>1, <2>1 DEF CloseRequest, WorkerRecord
  <2>2. CASE PersistResult
    BY <1>1, <2>2 DEF PersistResult, WorkerRecord
  <2> QED
    BY <2>1, <2>2
<1>3. PICK new \in RequestRow :
        /\ SaveRequest(new)
        /\ new.status \in {"completed", "failed", "skipped"}
        /\ new.status = "completed" => /\ new.document /\ q \notin documents
                                       /\ documents' = documents \cup {q}
        /\ new.status # "completed" => new.document = seen.document
                                       /\ documents' = documents
  <2>1. CASE CloseRequest
    <3> DEFINE row == [seen EXCEPT !.status = ClosingStatus(seen)]
    <3>1. row.status \in {"failed", "skipped"} /\ row.document = seen.document
          /\ row \in RequestRow
      BY <1>1, <2>1 DEF CloseRequest, ClosingStatus, RequestRow, RequestStatus
    <3>2. SaveRequest(row) /\ documents' = documents
      BY <2>1 DEF CloseRequest
    <3> HIDE DEF row
    <3> QED
      BY <3>1, <3>2
  <2>2. CASE PersistResult
    <3> DEFINE row == PersistedRow(seen, wk.result)
    <3>1. wk.result \in {"completed", "failed", "skipped"} /\ wk.pc = "persist"
      BY <2>2 DEF PersistResult, IInv, WorkerHoldsOpenWork
    <3>2. /\ row \in RequestRow /\ row.status = wk.result
          /\ row.document <=> (wk.result = "completed" \/ seen.document)
      <4>1. seen \in RequestRow /\ row \in RequestRow
        BY <1>1, <3>1, RowOperatorsType
      <4> HIDE DEF seen
      <4> QED
        BY <4>1 DEF PersistedRow, RequestRow
    <3>3. row.document \in BOOLEAN /\ seen.document \in BOOLEAN
      BY <1>1, <3>2 DEF RequestRow
    <3>4. SaveRequest(row) /\ session.open
      BY <2>2 DEF PersistResult, SaveRequest, Save
    <3>5. wk.result = "completed" => documents' = documents \cup {q} /\ q \notin documents
      BY <2>2, <3>4 DEF PersistResult, FilingConflicts
    <3>6. wk.result # "completed" => documents' = documents
      BY <2>2 DEF PersistResult
    <3> HIDE DEF row, seen, q
    <3> QED
      BY <3>1, <3>2, <3>3, <3>4, <3>5, <3>6
  <2> QED
    BY <2>1, <2>2
<1>4. /\ ~session'.open /\ session.open
      /\ request'[q].status = Column(request[q].status, seen.status, new.status)
      /\ request'[q].document = Column(request[q].document, seen.document, new.document)
      /\ \A r \in Requests : r # q => request'[r] = request[r]
      /\ batch'[wk.batch].status = batch[wk.batch].status
      /\ \A o \in Batches : o # wk.batch => batch'[o] = batch[o]
  BY <1>1, <1>3, SaveRequestEffect
<1>5. /\ request[q].status = "processing" => seen.status = "processing"
      /\ seen.status # "completed" /\ (seen.document => q \in documents)
  BY <1>1, <1>4 DEF IInv, SessionIsRecent
<1>6. /\ seen.document \in BOOLEAN /\ new.document \in BOOLEAN
      /\ request[q].document \in BOOLEAN
  BY <1>1 DEF RequestRow
<1> HIDE DEF q, seen
<1>7. /\ request'[q].status \in {request[q].status, "completed", "failed", "skipped"}
      /\ request'[q].status # "processing"
      /\ request'[q].status = "completed" <=> new.status = "completed"
  BY <1>1, <1>3, <1>4, <1>5 DEF Column, q
<1>8. /\ documents \subseteq documents'
      /\ request'[q].document => request[q].document \/ q \in documents'
      /\ new.status = "completed" => request'[q].document
  BY <1>3, <1>4, <1>5, <1>6 DEF Column
<1> QED
  BY <1>1, <1>2, <1>3, <1>4, <1>7, <1>8 DEF q

(* The row in hand is settled, and the batch's counters with it.           *)
LEMMA SettleInv ==
  ASSUME IInv, TypeOK', CloseRequest \/ PersistResult
  PROVE  IInv'
<1> DEFINE q == wk.req
<1>1. PICK b \in Batches : wk.batch = b
  BY SettleEffect
<1>2. /\ q \in Requests /\ BatchOf[q] = b /\ HoldsBatch /\ HoldsRequest
      /\ batch[b].status \notin {"absent", "completed"}
      /\ wk.pc \in {"begin", "persist"}
  BY <1>1, SettleEffect DEF IInv, WorkerHoldsOpenWork, CloseRequest, PersistResult
<1>3. /\ call' = call /\ overlapped' = overlapped /\ wk'.pc = "loop" /\ wk'.batch = b
      /\ ~session'.open
  BY <1>1, SettleEffect DEF CloseRequest, PersistResult, WorkerOnly
<1>4. /\ batch'[b].status = batch[b].status
      /\ \A o \in Batches : o # b => batch'[o] = batch[o]
      /\ \A r \in Requests : r # q => request'[r] = request[r]
      /\ request'[q].status \in {request[q].status, "completed", "failed", "skipped"}
      /\ request'[q].status # "processing"
      /\ documents \subseteq documents'
      /\ request'[q].document => request[q].document \/ q \in documents'
      /\ request'[q].status = "completed" =>
           request'[q].document /\ q \in documents' /\ q \notin documents
  BY <1>1, SettleEffect
<1>6. WorkerHoldsOpenWork'
  BY <1>2, <1>3, <1>4 DEF WorkerHoldsOpenWork, HoldsBatch, HoldsRequest
<1>7. ProcessingIsOwned'
  BY <1>2, <1>3, <1>4 DEF IInv, ProcessingIsOwned, HoldsRequest
<1>8. \A r \in RequestsOf(b) :
        /\ request'[r].status # "absent"
        /\ request'[r].document => r \in documents'
        /\ request'[r].status = "completed" =>
             /\ request'[r].document
             /\ request[r].status = "completed" \/ r \notin documents
  BY <1>2, <1>4 DEF IInv, RowsExist, DocumentsAreFiled, CompletedHasDocument, RequestsOf
<1>9. ~overlapped => /\ batch'[b].status = "completed" => Settled(b)'
                     /\ batch'[b].status = "cancelled" => Emptied(b)'
  BY <1>1, <1>2, <1>3, <1>4
  DEF IInv, CancelEmptiesQueue, Emptied, RequestsOf, HoldsRequest
<1>10. batch'[b].status # "absent" /\ HoldsBatch /\ (HoldsBatch' => wk'.batch = b)
       /\ \A r \in Requests : BatchOf[r] # b => request'[r] = request[r]
  BY <1>2, <1>3, <1>4
<1> QED
  BY <1>1, <1>3, <1>4, <1>6, <1>7, <1>8, <1>9, <1>10, StepOnHeldBatch

(* A batch that fails takes the rows read as alive with it, cancelled      *)
(* since or not.                                                           *)
LEMMA FailEffect ==
  ASSUME IInv, FailBatch
  PROVE  LET b == wk.batch
         IN  /\ b \in Batches /\ ~session'.open /\ session.open
             /\ batch'[b].status \in {batch[b].status, "failed"}
             /\ \A o \in Batches : o # b => batch'[o] = batch[o]
             /\ \A r \in Requests : BatchOf[r] # b => request'[r] = request[r]
             /\ \A r \in RequestsOf(b) :
                  /\ request'[r].document = request[r].document
                  /\ IF session.rows[r].status \in Active
                     THEN /\ request'[r].status = "failed"
                          /\ request[r].status \in Active \cup {"skipped"}
                     ELSE /\ request'[r].status = request[r].status
                          /\ request[r].status # "processing"
<1> DEFINE b == wk.batch
           rows == [r \in Requests |-> FailedRow(session.rows[r])]
           failed == [session.row EXCEPT !.status = "failed"]
           new == Recounted(failed, rows, b)
<1>1. /\ b \in Batches /\ wk.pc = "fail" /\ InScope = RequestsOf(b) /\ b \in Batches
      /\ session.rows \in [Requests -> RequestRow] /\ session.row \in BatchRow
      /\ batch \in [Batches -> BatchRow]
  BY DEF FailBatch, IInv, TypeOK, SessionRecord, WorkerHoldsOpenWork, HoldsBatch, InScope
<1>2. failed \in BatchRow /\ failed.status = "failed"
  BY <1>1 DEF BatchRow, BatchStatus
<1>3. Save(rows, new)
  BY DEF FailBatch
<1>4. ASSUME NEW r \in Requests
      PROVE  /\ rows[r].document = session.rows[r].document
             /\ rows[r].status = IF session.rows[r].status \in Active
                                 THEN "failed" ELSE session.rows[r].status
  BY <1>1 DEF FailedRow, RequestRow
<1> HIDE DEF failed
<1>5. new.status = "failed"
  BY <1>2, RecountedType
<1> HIDE DEF rows, new
<1>6. /\ ~session'.open /\ session.open
      /\ batch'[b].status = Column(batch[b].status, session.row.status, "failed")
      /\ \A o \in Batches : o # b => batch'[o] = batch[o]
      /\ \A r \in Requests : BatchOf[r] # b => request'[r] = request[r]
      /\ \A r \in RequestsOf(b) :
           /\ request'[r].status
                = Column(request[r].status, session.rows[r].status, rows[r].status)
           /\ request'[r].document
                = Column(request[r].document, session.rows[r].document, rows[r].document)
  <2>1. batch'[b] = FlushBatch(batch[b], session.row, new)
    BY <1>1, <1>3, SaveEffect DEF IInv
  <2>2. batch'[b].status = Column(batch[b].status, session.row.status, "failed")
    BY <1>5, <2>1 DEF FlushBatch
  <2>3. \A r \in Requests : r \in RequestsOf(b) <=> BatchOf[r] = b
    BY DEF RequestsOf
  <2> HIDE DEF b
  <2> QED
    BY <1>1, <1>3, <2>2, <2>3, SaveEffect DEF IInv, b
<1>7. \A r \in RequestsOf(b) :
        /\ request[r].status = "processing" => session.rows[r].status = "processing"
        /\ session.rows[r].status \in Active => request[r].status \in Active \cup {"skipped"}
  BY <1>1, <1>6 DEF IInv, SessionIsRecent
<1>8. ASSUME NEW r \in RequestsOf(b)
      PROVE  /\ request'[r].document = request[r].document
             /\ IF session.rows[r].status \in Active
                THEN /\ request'[r].status = "failed"
                     /\ request[r].status \in Active \cup {"skipped"}
                ELSE /\ request'[r].status = request[r].status
                     /\ request[r].status # "processing"
  <2>1. r \in Requests
    BY DEF RequestsOf
  <2> QED
    BY <1>4, <1>6, <1>7, <2>1 DEF Column, Active
<1>9. batch'[b].status \in {batch[b].status, "failed"}
  BY <1>6 DEF Column
<1> HIDE DEF b
<1> QED
  BY <1>1, <1>6, <1>8, <1>9 DEF b

(* The worker lets its batch go: refused, or failed.                       *)
LEMMA FailInv ==
  ASSUME IInv, TypeOK', RefuseBatch \/ FailBatch
  PROVE  IInv'
<1>1. PICK b \in Batches : wk.batch = b
  BY DEF RefuseBatch, FailBatch, IInv, WorkerHoldsOpenWork, HoldsBatch
<1>2. /\ HoldsBatch /\ wk'.pc = "idle" /\ call' = call /\ overlapped' = overlapped
      /\ documents' = documents
      /\ batch[b].status \notin {"absent", "completed"}
  BY <1>1 DEF RefuseBatch, FailBatch, IInv, HoldsBatch, WorkerOnly, WorkerAt,
              WorkerHoldsOpenWork
<1>3. ~session'.open
  <2>1. CASE RefuseBatch
    BY <2>1 DEF RefuseBatch, IInv, SessionIsRecent, Writing
  <2>2. CASE FailBatch
    BY <2>2, FailEffect
  <2> QED
    BY <2>1, <2>2
<1>4. /\ batch'[b].status \in {batch[b].status, "failed"}
      /\ \A o \in Batches : o # b => batch'[o] = batch[o]
      /\ \A r \in Requests : BatchOf[r] # b => request'[r] = request[r]
      /\ \A r \in RequestsOf(b) :
           /\ request'[r].document = request[r].document
           /\ request'[r].status \in {request[r].status, "failed"}
  <2>1. CASE RefuseBatch
    <3>1. /\ batch \in [Batches -> BatchRow] /\ batch[b] \in BatchRow
          /\ batch' = [batch EXCEPT ![b].status = "failed"] /\ request' = request
      BY <1>1, <2>1 DEF RefuseBatch, IInv, TypeOK
    <3> QED
      BY <3>1 DEF BatchRow
  <2>2. CASE FailBatch
    BY <1>1, <2>2, FailEffect
  <2> QED
    BY <2>1, <2>2
<1>5. ProcessingIsOwned'
  <2> SUFFICES ASSUME NEW r \in Requests
               PROVE  request'[r].status # "processing"
    BY DEF ProcessingIsOwned
  <2>1. CASE RefuseBatch
    BY <2>1 DEF RefuseBatch, IInv, ProcessingIsOwned
  <2>2. CASE FailBatch
    <3>1. CASE BatchOf[r] = b
      BY <1>1, <2>2, <3>1, FailEffect DEF RequestsOf
    <3>2. CASE BatchOf[r] # b
      BY <1>1, <1>4, <2>2, <3>2 DEF FailBatch, IInv, WorkerHoldsOpenWork
    <3> QED
      BY <3>1, <3>2
  <2> QED
    BY <2>1, <2>2
<1>6. WorkerHoldsOpenWork' /\ ~HoldsBatch' /\ ~HoldsRequest'
  BY <1>2 DEF WorkerHoldsOpenWork, HoldsBatch, HoldsRequest
<1>7. \A r \in RequestsOf(b) :
        /\ request'[r].status # "absent"
        /\ request'[r].document => r \in documents'
        /\ request'[r].status = "completed" =>
             request'[r].document /\ request[r].status = "completed"
  BY <1>2, <1>4 DEF IInv, RowsExist, DocumentsAreFiled, CompletedHasDocument, RequestsOf
<1>8. ~overlapped => /\ batch'[b].status = "completed" => Settled(b)'
                     /\ batch'[b].status = "cancelled" => Emptied(b)'
  <2>1. batch'[b].status # "completed"
    BY <1>2, <1>4
  <2>2. ASSUME ~overlapped, batch'[b].status = "cancelled"
        PROVE  Emptied(b)'
    <3>1. batch[b].status = "cancelled"
      BY <1>4, <2>2
    <3>2. \A r, q \in RequestsOf(b) :
            request[r].status \in Active /\ request[q].status \in Active => r = q
      BY <2>2, <3>1 DEF IInv, CancelEmptiesQueue, Emptied
    <3>3. \A r \in RequestsOf(b) :
            request'[r].status \in Active => request[r].status \in Active
      BY <1>4 DEF Active
    <3> QED
      BY <1>6, <3>2, <3>3 DEF Emptied
  <2> QED
    BY <2>1, <2>2
<1>9. batch'[b].status # "absent" /\ wk'.pc # "down"
  BY <1>2, <1>4
<1> QED
  BY <1>1, <1>2, <1>3, <1>4, <1>5, <1>6, <1>7, <1>8, <1>9, StepOnHeldBatch

(* The verdict says COMPLETED only of rows all completed or skipped: with  *)
(* no failed row and none pending, processing or awaiting an answer, its   *)
(* last branch is right although it does not look.                         *)
LEMMA VerdictRight ==
  ASSUME NEW b \in Batches, NEW rows,
         \A r \in RequestsOf(b) :
           rows[r].status \in {"completed", "failed", "skipped", "pending"},
         NEW row, row.failed = CountedAs("failed", rows, b),
         Verdict(row, rows, b) = "completed"
  PROVE  \A r \in RequestsOf(b) : rows[r].status \in {"completed", "skipped"}
<1> SUFFICES ASSUME ~\A r \in RequestsOf(b) : rows[r].status \in {"completed", "skipped"}
             PROVE  FALSE
  OBVIOUS
<1>1. (\A q \in RequestsOf(b) : rows[q].status # "pending") /\ row.failed = 0
  BY DEF Verdict
<1>2. {q \in RequestsOf(b) : rows[q].status = "failed"} = {}
  <2>1. IsFiniteSet({q \in RequestsOf(b) : rows[q].status = "failed"})
    BY FS_Subset DEF RequestsOf
  <2> QED
    BY <1>1, <2>1, FS_EmptySet DEF CountedAs
<1> QED
  BY <1>1, <1>2

(* FinalizeBatch writes its verdict over what has changed since the read,  *)
(* but completes a batch only when nothing has.                            *)
LEMMA FinalizeEffect ==
  ASSUME IInv, FinalizeBatch
  PROVE  LET b == wk.batch
         IN  /\ b \in Batches /\ ~session'.open
             /\ \A r \in Requests : request'[r] = request[r]
             /\ \A o \in Batches : o # b => batch'[o] = batch[o]
             /\ batch'[b].status \in {batch[b].status, "completed", "processing", "failed"}
             /\ ~overlapped /\ batch'[b].status = "completed" =>
                  /\ \A r \in RequestsOf(b) : request[r].status \in {"completed", "skipped"}
                  /\ Recounted(batch'[b], request, b) = batch'[b]
<1>1. PICK b \in Batches : wk.batch = b
  BY DEF FinalizeBatch, IInv, WorkerHoldsOpenWork, HoldsBatch
<1> DEFINE row == Recounted(session.row, session.rows, b)
           verdict == Verdict(row, session.rows, b)
           new == [row EXCEPT !.status = verdict]
<1>2. /\ wk.pc = "finalize" /\ InScope = RequestsOf(b) /\ Save(session.rows, new)
      /\ session.row \in BatchRow /\ batch \in [Batches -> BatchRow]
      /\ session.open
  BY <1>1 DEF FinalizeBatch, Save, InScope, IInv, TypeOK, SessionRecord
<1>3. /\ row \in BatchRow /\ row.failed = CountedAs("failed", session.rows, b)
      /\ verdict \in {"completed", "processing", "failed"}
  BY <1>2, RecountedType DEF Verdict
<1>4. /\ new.status = verdict /\ new.completed = row.completed
      /\ new.failed = row.failed /\ new.skipped = row.skipped
  BY <1>3 DEF BatchRow
<1> HIDE DEF new
<1>5. /\ ~session'.open
      /\ \A r \in Requests : request'[r] = request[r]
      /\ \A o \in Batches : o # b => batch'[o] = batch[o]
      /\ batch'[b] = FlushBatch(batch[b], session.row, new)
  BY <1>1, <1>2, SaveEffect DEF IInv
<1>6. batch'[b].status = Column(batch[b].status, session.row.status, verdict)
  BY <1>4, <1>5 DEF FlushBatch
<1>7. ASSUME ~overlapped, batch'[b].status = "completed"
      PROVE  /\ \A r \in RequestsOf(b) : request[r].status \in {"completed", "skipped"}
             /\ Recounted(batch'[b], request, b) = batch'[b]
  <2>1. verdict = "completed"
    BY <1>1, <1>2, <1>6, <1>7
    DEF Column, IInv, WorkerHoldsOpenWork, HoldsBatch
  <2>2. \A r \in RequestsOf(b) : session.rows[r].status \in {"completed", "skipped"}
    <3>1. \A r \in RequestsOf(b) :
            session.rows[r].status \in {"completed", "failed", "skipped", "pending"}
      BY <1>1, <1>2 DEF IInv, SessionIsRecent
    <3> HIDE DEF row
    <3> QED
      BY <1>3, <2>1, <3>1, VerdictRight
  <2>3. /\ \A r \in RequestsOf(b) : request[r].status = session.rows[r].status
        /\ batch[b].completed \in {session.row.completed, row.completed}
        /\ batch[b].failed \in {session.row.failed, row.failed}
        /\ batch[b].skipped \in {session.row.skipped, row.skipped}
    BY <1>1, <1>2, <1>7, <2>2 DEF IInv, WritesAreDue, VerdictIsDue
  <2>4. /\ batch'[b].completed = row.completed /\ batch'[b].failed = row.failed
        /\ batch'[b].skipped = row.skipped
    <3> HIDE DEF row
    <3> QED
      BY <1>4, <1>5, <2>3 DEF FlushBatch, Column
  <2>5. Recounted(batch'[b], request, b) = Recounted(batch'[b], session.rows, b)
    BY <2>3, RecountStable
  <2>6. batch'[b] \in BatchRow
    <3>1. new \in BatchRow
      BY <1>3 DEF BatchRow, BatchStatus, new
    <3> QED
      BY <1>2, <1>5, <3>1, FlushType
  <2>7. Recounted(batch'[b], session.rows, b) = batch'[b]
    <3>1. /\ row.completed = CountedAs("completed", session.rows, b)
          /\ row.failed = CountedAs("failed", session.rows, b)
          /\ row.skipped = CountedAs("skipped", session.rows, b)
      BY <1>2 DEF Recounted, BatchRow
    <3> HIDE DEF row
    <3> QED
      BY <2>4, <2>6, <3>1 DEF Recounted, BatchRow
  <2> QED
    BY <2>2, <2>3, <2>5, <2>7
<1>8. batch'[b].status \in {batch[b].status, "completed", "processing", "failed"}
  BY <1>3, <1>6 DEF Column
<1> HIDE DEF row, verdict
<1> QED
  BY <1>1, <1>5, <1>7, <1>8

(* Finalizing keeps the invariant.                                         *)
LEMMA FinalizeInv ==
  ASSUME IInv, TypeOK', FinalizeBatch
  PROVE  IInv'
<1>1. PICK b \in Batches : wk.batch = b
  BY DEF FinalizeBatch, IInv, WorkerHoldsOpenWork, HoldsBatch
<1>2. /\ HoldsBatch /\ wk'.pc = "idle" /\ call' = call /\ overlapped' = overlapped
      /\ documents' = documents /\ ~session'.open
      /\ batch[b].status \notin {"absent", "completed"}
  BY <1>1, FinalizeEffect DEF FinalizeBatch, IInv, HoldsBatch, WorkerOnly, WorkerAt,
                              WorkerHoldsOpenWork
<1>3. /\ \A r \in Requests : request'[r] = request[r]
      /\ \A o \in Batches : o # b => batch'[o] = batch[o]
      /\ batch'[b].status \in {batch[b].status, "completed", "processing", "failed"}
      /\ ~overlapped /\ batch'[b].status = "completed" =>
           /\ \A r \in RequestsOf(b) : request[r].status \in {"completed", "skipped"}
           /\ Recounted(batch'[b], request, b) = batch'[b]
  BY <1>1, FinalizeEffect
<1>4. WorkerHoldsOpenWork' /\ ~HoldsBatch' /\ ~HoldsRequest'
  BY <1>2 DEF WorkerHoldsOpenWork, HoldsBatch, HoldsRequest
<1>5. ProcessingIsOwned'
  BY <1>3 DEF IInv, ProcessingIsOwned, FinalizeBatch
<1>6. ~overlapped => /\ batch'[b].status = "completed" => Settled(b)'
                     /\ batch'[b].status = "cancelled" => Emptied(b)'
  <2>1. ASSUME ~overlapped, batch'[b].status = "completed"
        PROVE  Settled(b)'
    <3>1. Recounted(batch'[b], request', b) = Recounted(batch'[b], request, b)
      BY <1>3, RecountStable DEF RequestsOf
    <3> QED
      BY <1>3, <1>4, <2>1, <3>1 DEF Settled, RequestsOf
  <2>2. ASSUME ~overlapped, batch'[b].status = "cancelled"
        PROVE  Emptied(b)'
    BY <1>3, <1>4, <2>2 DEF IInv, CancelEmptiesQueue, Emptied, RequestsOf
  <2> QED
    BY <2>1, <2>2
<1>7. \A r \in RequestsOf(b) :
         /\ request'[r].status # "absent"
         /\ request'[r].document => r \in documents'
         /\ request'[r].status = "completed" =>
              request'[r].document /\ request[r].status = "completed"
  BY <1>2, <1>3 DEF IInv, RowsExist, DocumentsAreFiled, CompletedHasDocument, RequestsOf
<1>8. batch'[b].status # "absent" /\ wk'.pc # "down"
  BY <1>2, <1>3
<1> QED
  BY <1>1, <1>2, <1>3, <1>4, <1>5, <1>6, <1>7, <1>8, StepOnHeldBatch

(* IInv is inductive.                                                      *)
LEMMA NextInv ==
  ASSUME IInv, [Next]_vars
  PROVE  IInv'
<1>1. TypeOK'
  BY NextType DEF IInv
<1>2. ASSUME NEW h \in Handlers, Read(h) \/ Commit(h)
      PROVE  IInv'
  BY <1>2, ReadInv, CommitInv
<1>3. ASSUME NEW b \in Batches, NEW S \in SUBSET Requests, CreateBatch(b, S)
      PROVE  IInv'
  BY <1>1, <1>3, CreateInv
<1>4. CASE WorkerStep
  <2>1. CASE Boot
    BY <1>1, <2>1, BootInv
  <2>2. ASSUME NEW r \in Requests, PickRequest(r)
        PROVE  IInv'
    BY <1>1, <2>2, PickInv
  <2>3. CASE BeginRequest \/ AskManualCaptcha
    BY <1>1, <2>3, ExecuteInv
  <2>4. CASE CloseRequest \/ PersistResult
    BY <1>1, <2>4, SettleInv
  <2>5. CASE RefuseBatch \/ FailBatch
    BY <1>1, <2>5, FailInv
  <2>6. CASE FinalizeBatch
    BY <1>1, <2>6, FinalizeInv
  <2>7. CASE \/ \E b \in Batches : TakeBatch(b)
             \/ OpenBatch \/ Authenticate \/ NoRequestLeft \/ FlowCompletes
             \/ FlowNeedsAnswer \/ PollAnswer \/ GiveUpWaiting \/ SubmitSolution
             \/ RaiseException \/ StopGracefully
    BY <1>1, <2>7, QuietInv
  <2>8. CASE ReadTables
    BY <1>1, <2>8, ReadTablesInv
  <2> QED
    BY <1>4, <2>1, <2>2, <2>3, <2>4, <2>5, <2>6, <2>7, <2>8 DEF WorkerStep
<1>5. CASE \/ \E r \in Requests : DeadlinePasses(r)
           \/ RequestStop \/ Crash
           \/ \E u \in Users : ChangeCredentials(u)
           \/ UNCHANGED vars
  BY <1>1, <1>5, QuietInv
<1> QED
  BY <1>2, <1>3, <1>4, <1>5 DEF Next

-----------------------------------------------------------------------------
(* The theorems.                                                           *)

(* The inductive invariant holds in every reachable state.                 *)
THEOREM Invariance == Spec => []IInv
<1>1. Init => IInv
  BY InitInv
<1>2. IInv /\ [Next]_vars => IInv'
  BY NextInv
<1> QED
  BY <1>1, <1>2, PTL DEF Spec

(* Every reachable state has the types the tables declare.                 *)
THEOREM TypeCorrect == Spec => []TypeOK
BY Invariance, PTL DEF IInv

(* A row is PROCESSING only while the live worker executes it, or while    *)
(* the worker is down: however API calls overlap and crashes fall, no row  *)
(* is stranded under a worker that moved on, and no two execute at once.   *)
THEOREM ProcessingOwned == Spec => []ProcessingIsOwned
BY Invariance, PTL DEF IInv

(* However API calls overlap, a COMPLETED row has its filed document.      *)
THEOREM CompletedDocumented == Spec => []CompletedHasDocument
BY Invariance, PTL DEF IInv

(* Until a call commits over changed rows, a COMPLETED batch is settled.   *)
THEOREM CompletedSettled == Spec => []CompletedBatchIsSettled
BY Invariance, PTL DEF IInv

(* Until a call commits over changed rows, a CANCELLED batch has at most   *)
(* the row the worker had picked left alive, crash or no crash.            *)
THEOREM CancelledEmptied == Spec => []CancelEmptiesQueue
BY Invariance, PTL DEF IInv

(* No step but an overlapping commit takes a row out of COMPLETED.         *)
LEMMA CompletedStepStays ==
  ASSUME IInv, [Next]_vars, ~overlapped', NEW r \in Requests,
         request[r].status = "completed"
  PROVE  request'[r].status = "completed"
<1> USE DEF IInv
<1>1. ASSUME NEW h \in Handlers, Commit(h)
      PROVE  request'[r].status = "completed"
  BY <1>1, SerialCommit
<1>2. ASSUME NEW h \in Handlers, Read(h)
      PROVE  request'[r].status = "completed"
  BY <1>2 DEF Read, ReadStart, ReadCancel, ReadRetry, ReadCaptchaAnswer, Receive, tables
<1>3. ASSUME NEW b \in Batches, NEW S \in SUBSET Requests, CreateBatch(b, S)
      PROVE  request'[r].status = "completed"
  <2>1. BatchOf[r] # b
    BY <1>3 DEF CreateBatch, RowsExist
  <2> QED
    BY <1>3, <2>1 DEF CreateBatch
<1>4. HoldsRequest => wk.req # r
  BY DEF WorkerHoldsOpenWork
<1>5. session.open /\ r \in InScope =>
        /\ RecoveredRow(session.rows[r]) = session.rows[r]
        /\ session.rows[r].status \notin Active
  BY DEF SessionIsRecent, RecoveredRow, Active
<1>6. CASE WorkerStep
  <2>1. CASE Boot
    <3> DEFINE newRows == [q \in Requests |-> RecoveredRow(session.rows[q])]
    <3>1. Save(newRows, session.row) /\ r \in InScope /\ session.open
      BY <2>1 DEF Boot, Save, InScope
    <3>2. newRows[r] = session.rows[r]
      BY <1>5, <3>1
    <3> HIDE DEF newRows
    <3> QED
      BY <3>1, <3>2, SaveEffect
  <2>2. CASE FailBatch
    <3>1. CASE BatchOf[r] = wk.batch
      <4>1. wk.pc = "fail" /\ r \in InScope /\ r \in RequestsOf(wk.batch)
        BY <2>2, <3>1 DEF FailBatch, InScope, RequestsOf
      <4> QED
        BY <1>5, <2>2, <4>1, FailEffect
    <3>2. CASE BatchOf[r] # wk.batch
      BY <2>2, <3>2, FailEffect
    <3> QED
      BY <3>1, <3>2
  <2>3. CASE BeginRequest \/ AskManualCaptcha
    BY <1>4, <2>3, ExecuteEffect
  <2>4. CASE CloseRequest \/ PersistResult
    BY <1>4, <2>4, SettleEffect
  <2>5. CASE FinalizeBatch
    BY <2>5, FinalizeEffect
  <2>6. CASE \/ ReadTables \/ \E b \in Batches : TakeBatch(b)
             \/ OpenBatch \/ RefuseBatch \/ Authenticate
             \/ \E q \in Requests : PickRequest(q)
             \/ NoRequestLeft \/ FlowCompletes \/ FlowNeedsAnswer \/ PollAnswer
             \/ GiveUpWaiting \/ SubmitSolution \/ RaiseException \/ StopGracefully
    BY <2>6 DEF ReadTables, TakeBatch, OpenBatch, RefuseBatch, Authenticate,
       PickRequest, NoRequestLeft, FlowCompletes, FlowNeedsAnswer, PollAnswer,
       GiveUpWaiting, SubmitSolution, RaiseException, StopGracefully, NothingWritten
  <2> QED
    BY <1>6, <2>1, <2>2, <2>3, <2>4, <2>5, <2>6 DEF WorkerStep
<1>7. ASSUME NEW q \in Requests, DeadlinePasses(q)
      PROVE  request'[r].status = "completed"
  BY <1>7 DEF DeadlinePasses, TypeOK, RequestRow
<1>8. CASE \/ RequestStop \/ Crash \/ \E u \in Users : ChangeCredentials(u)
           \/ UNCHANGED vars
  BY <1>8 DEF RequestStop, Crash, ChangeCredentials, tables, vars
<1> QED
  BY <1>1, <1>2, <1>3, <1>6, <1>7, <1>8 DEF Next

(* A COMPLETED visura is never executed again, failed or cancelled, by the *)
(* recovery at boot, the failure of its batch, a cancel or a retry, unless *)
(* an API call commits over rows that changed since it read them.          *)
THEOREM CompletedKept == Spec => CompletedRowsStay
<1>1. IInv /\ [Next]_vars =>
        [\A r \in Requests :
           request[r].status = "completed" /\ ~overlapped'
             => request'[r].status = "completed"]_vars
  BY CompletedStepStays
<1> QED
  BY <1>1, Invariance, PTL DEF Spec, CompletedRowsStay
=============================================================================
