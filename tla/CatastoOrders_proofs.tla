------------------------- MODULE CatastoOrders_proofs -------------------------
(* That CatastoBatches keeps the promise of VisuraOrders, and that the     *)
(* progress feed tells it truly, for every value of the constants.         *)
EXTENDS CatastoProgress, CatastoBatches_proofs

USE CatalogAssumption, NoneAssumption, BoundsAssumption

-----------------------------------------------------------------------------
(* What a call has read passed its guards.                                 *)

LEMMA GuardsStep ==
  ASSUME TypeOK, GuardsWereMet, [Next]_vars
  PROVE  GuardsWereMet'
<1>1. ASSUME NEW h \in Handlers, Read(h)
      PROVE  GuardsWereMet'
  <2>1. PICK c : Receive(h, c) /\
          /\ c.op = "cancel" => c.row.status \notin {"absent", "completed", "cancelled"}
          /\ c.op = "retry" =>
               /\ c.row.status \notin {"absent", "processing"}
               /\ \E r \in RequestsOf(c.batch) : c.rows[r].status = "failed"
    <3>1. CASE \E b \in Batches : ReadStart(h, b)
      BY <3>1 DEF ReadStart, BatchCall
    <3>2. CASE \E b \in Batches : ReadCancel(h, b)
      BY <3>2 DEF ReadCancel, BatchCall
    <3>3. CASE \E b \in Batches : ReadRetry(h, b)
      <4>1. PICK b \in Batches : ReadRetry(h, b)
        BY <3>3
      <4>2. PICK r \in RequestsOf(b) : request[r].status = "failed"
        BY <4>1 DEF ReadRetry
      <4>3. ReadRows(RequestsOf(b))[r].status = "failed"
        BY <4>2 DEF ReadRows, RequestsOf
      <4> QED
        BY <4>1, <4>2, <4>3 DEF ReadRetry, BatchCall
    <3>4. CASE \E r \in Requests, op \in {"solve", "skip"} : ReadCaptchaAnswer(h, r, op)
      BY <3>4 DEF ReadCaptchaAnswer, CaptchaCall
    <3> QED
      BY <1>1, <3>1, <3>2, <3>3, <3>4 DEF Read
  <2>2. call' = [call EXCEPT ![h] = c]
    BY <2>1 DEF Receive
  <2> QED
    BY <2>1, <2>2 DEF GuardsWereMet, TypeOK
<1>2. ASSUME NEW h \in Handlers, Commit(h)
      PROVE  GuardsWereMet'
  <2>1. call' = [call EXCEPT ![h] = NoCall]
    BY <1>2 DEF Commit, CommitStart, CommitCancel, CommitRetry, CommitSolve, CommitSkip,
                CommitBatchAndRows, CommitCaptchaAnswer, Reply
  <2> QED
    BY <2>1 DEF GuardsWereMet, TypeOK, NoCall
<1>3. CASE call' = call
  BY <1>3 DEF GuardsWereMet
<1>4. CASE WorkerStep
  BY <1>3, <1>4 DEF WorkerStep, ReadTables, Boot, TakeBatch, OpenBatch, RefuseBatch,
     Authenticate, PickRequest, NoRequestLeft, CloseRequest, BeginRequest, FlowCompletes,
     FlowNeedsAnswer, AskManualCaptcha, PollAnswer, GiveUpWaiting, SubmitSolution,
     PersistResult, RaiseException, FailBatch, FinalizeBatch, StopGracefully, WorkerOnly
<1>5. CASE \/ \E b \in Batches, S \in SUBSET Requests : CreateBatch(b, S)
           \/ \E u \in Users : ChangeCredentials(u)
           \/ \E r \in Requests : DeadlinePasses(r)
           \/ RequestStop \/ Crash \/ UNCHANGED vars
  BY <1>3, <1>5 DEF CreateBatch, ChangeCredentials, DeadlinePasses, RequestStop, Crash, vars
<1> QED
  BY <1>1, <1>2, <1>4, <1>5 DEF Next

-----------------------------------------------------------------------------
(* Every step is a step of VisuraOrders or changes none of its variables.  *)

(* The phases of the statuses.                                             *)
LEMMA PhaseOfStatus ==
  /\ PhaseOf("absent") = "absent"
  /\ PhaseOf("completed") = "delivered"
  /\ PhaseOf("failed") = "failed"
  /\ PhaseOf("skipped") = "skipped"
  /\ \A s \in Active : PhaseOf(s) = "open"
BY DEF PhaseOf, Active

(* The archive only grows, and overlapped stays.                           *)
LEMMA ArchiveGrows ==
  ASSUME [Next]_vars
  PROVE  documents \subseteq documents' /\ (overlapped => overlapped')
<1> DEFINE Kept == documents' = documents /\ overlapped' = overlapped
<1>1. ASSUME NEW h \in Handlers, Read(h)
      PROVE  Kept
  BY <1>1 DEF Read, ReadStart, ReadCancel, ReadRetry, ReadCaptchaAnswer, Receive, tables
<1>2. ASSUME NEW h \in Handlers, Commit(h)
      PROVE  documents' = documents /\ (overlapped => overlapped')
  <2>1. PICK stale : Reply(h, stale)
    BY <1>2 DEF Commit, CommitStart, CommitCancel, CommitRetry, CommitSolve, CommitSkip,
                CommitBatchAndRows, CommitCaptchaAnswer
  <2> QED
    BY <2>1 DEF Reply
<1>3. CASE PersistResult
  BY <1>3 DEF PersistResult, WorkerOnly
<1>4. CASE WorkerStep /\ ~PersistResult
  <2>1. Kept
    BY <1>4 DEF WorkerStep, ReadTables, Boot, TakeBatch, OpenBatch, RefuseBatch,
       Authenticate, PickRequest, NoRequestLeft, CloseRequest, BeginRequest, FlowCompletes,
       FlowNeedsAnswer, AskManualCaptcha, PollAnswer, GiveUpWaiting, SubmitSolution,
       RaiseException, FailBatch, FinalizeBatch, StopGracefully, WorkerOnly, NothingWritten
  <2> QED
    BY <2>1
<1>5. ASSUME NEW b \in Batches, NEW S \in SUBSET Requests, CreateBatch(b, S)
      PROVE  Kept
  BY <1>5 DEF CreateBatch
<1>6. CASE \/ \E u \in Users : ChangeCredentials(u)
           \/ \E r \in Requests : DeadlinePasses(r)
           \/ RequestStop \/ Crash \/ UNCHANGED vars
  <2>1. Kept
    BY <1>6 DEF ChangeCredentials, DeadlinePasses, RequestStop, Crash, vars, tables
  <2> QED
    BY <2>1
<1> QED
  BY <1>1, <1>2, <1>3, <1>4, <1>5, <1>6 DEF Next

(* Steps that leave phases, archive and the set of completed batches.      *)
LEMMA StutterStep ==
  ASSUME overlapped' = overlapped, documents' = documents,
         \A r \in Requests : PhaseOf(request'[r].status) = PhaseOf(request[r].status),
         \A b \in Batches : batch'[b].status = "completed" <=> batch[b].status = "completed"
  PROVE  UNCHANGED Orders!vars
<1>1. [r \in Requests |-> PhaseOf(request[r].status)]'
        = [r \in Requests |-> PhaseOf(request[r].status)]
  OBVIOUS
<1>2. {b \in Batches : batch[b].status = "completed"}'
        = {b \in Batches : batch[b].status = "completed"}
  OBVIOUS
<1> QED
  BY <1>1, <1>2 DEF Orders!vars

(* One order of a batch that is not completed moves on.                    *)
LEMMA MoveStep ==
  ASSUME overlapped = FALSE, overlapped' = FALSE, documents' = documents,
         NEW r \in Requests, batch[BatchOf[r]].status # "completed",
         request[r].status \in RequestStatus \ {"absent", "completed"},
         PhaseOf(request'[r].status) \in {"open", "failed", "skipped"},
         \A q \in Requests \ {r} : request'[q].status = request[q].status,
         \A b \in Batches : batch'[b].status = "completed" <=> batch[b].status = "completed"
  PROVE  Orders!Orderly
<1> DEFINE phase == [q \in Requests |-> PhaseOf(request[q].status)]
           finished == {b \in Batches : batch[b].status = "completed"}
           to == PhaseOf(request'[r].status)
<1>1. finished' = finished
  OBVIOUS
<1>2. phase' = [phase EXCEPT ![r] = to]
  OBVIOUS
<1>3. phase[r] \notin {"absent", "delivered"}
  BY DEF PhaseOf, Active, RequestStatus
<1>4. BatchOf[r] \in Batches \ finished
  OBVIOUS
<1>5. Orders!Move(r, to)
  BY <1>1, <1>2, <1>3, <1>4 DEF Orders!Move, Orders!Unfinished
<1> QED
  BY <1>5 DEF Orders!Orderly

(* The rows of a batch in one phase move on together.                      *)
MoveTogether(b, from, to) ==
  \A r \in Requests :
    PhaseOf(request'[r].status) = IF BatchOf[r] = b /\ PhaseOf(request[r].status) = from
                                  THEN to ELSE PhaseOf(request[r].status)

(* Such a step is a MoveAll of VisuraOrders.                               *)
LEMMA MoveAllStep ==
  ASSUME overlapped = FALSE, overlapped' = FALSE, documents' = documents,
         NEW b \in Batches, batch[b].status # "completed",
         \/ MoveTogether(b, "open", "skipped")
         \/ MoveTogether(b, "failed", "open"),
         \A o \in Batches : batch'[o].status = "completed" <=> batch[o].status = "completed"
  PROVE  Orders!Orderly
<1> DEFINE phase == [q \in Requests |-> PhaseOf(request[q].status)]
           finished == {o \in Batches : batch[o].status = "completed"}
<1>1. finished' = finished
  OBVIOUS
<1>2. b \in Batches \ finished
  OBVIOUS
<1>3. ASSUME NEW from, NEW to, MoveTogether(b, from, to)
      PROVE  Orders!MoveAll(b, from, to)
  <2>1. phase' = [r \in Requests |-> IF BatchOf[r] = b /\ phase[r] = from THEN to
                                                                     ELSE phase[r]]
    BY <1>3 DEF MoveTogether
  <2> QED
    BY <1>1, <1>2, <2>1 DEF Orders!MoveAll, Orders!Unfinished
<1>4. Orders!MoveAll(b, "open", "skipped") \/ Orders!MoveAll(b, "failed", "open")
  <2>1. CASE MoveTogether(b, "open", "skipped")
    BY <1>3, <2>1
  <2>2. CASE MoveTogether(b, "failed", "open")
    BY <1>3, <2>2
  <2> QED
    BY <2>1, <2>2
<1> QED
  BY <1>4 DEF Orders!Orderly

(* The orders of a batch that were open when the worker looked fail.       *)
LEMMA BreakOffStep ==
  ASSUME overlapped = FALSE, overlapped' = FALSE, documents' = documents,
         NEW b \in Batches, batch[b].status # "completed",
         NEW S \in SUBSET RequestsOf(b),
         \A r \in S : /\ request[r].status \in Active \cup {"skipped"}
                      /\ request'[r].status = "failed",
         \A r \in Requests \ S : request'[r].status = request[r].status,
         \A o \in Batches : batch'[o].status = "completed" <=> batch[o].status = "completed"
  PROVE  Orders!Orderly
<1> DEFINE phase == [q \in Requests |-> PhaseOf(request[q].status)]
           finished == {o \in Batches : batch[o].status = "completed"}
<1>1. finished' = finished /\ b \in Batches \ finished
  OBVIOUS
<1>2. S \subseteq Requests /\ \A r \in S : BatchOf[r] = b
  BY DEF RequestsOf
<1>3. \A r \in S : phase[r] \in {"open", "skipped"}
  BY <1>2, PhaseOfStatus
<1>4. phase' = [r \in Requests |-> IF r \in S THEN "failed" ELSE phase[r]]
  BY <1>2, PhaseOfStatus
<1>5. Orders!BreakOff(b, S)
  BY <1>1, <1>2, <1>3, <1>4 DEF Orders!BreakOff, Orders!Unfinished
<1>6. S \in SUBSET Requests
  BY <1>2
<1> QED
  BY <1>5, <1>6 DEF Orders!Orderly
(* A serial cancel or retry writes the rows it computed from the current   *)
(* ones.                                                                   *)
LEMMA SerialBatchCall ==
  ASSUME TypeOK, CallsAreBound, NEW h \in Handlers,
         NEW newRows \in [Requests -> RequestRow], NEW newRow \in BatchRow,
         call[h].op \in {"cancel", "retry"},
         CommitBatchAndRows(h, newRows, newRow), ~overlapped'
  PROVE  LET b == call[h].batch
         IN  /\ b \in Batches /\ ~overlapped
             /\ call[h].row = batch[b]
             /\ \A r \in RequestsOf(b) :
                  call[h].rows[r] = request[r] /\ request'[r] = newRows[r]
             /\ \A r \in Requests : BatchOf[r] # b => request'[r] = request[r]
             /\ batch'[b].status = newRow.status
             /\ \A o \in Batches : o # b => batch'[o] = batch[o]
             /\ documents' = documents
<1> DEFINE b == call[h].batch
<1>1. b \in Batches
  BY DEF CallsAreBound
<1>2. /\ call[h].row = batch[b] /\ call[h].rows = ReadRows(RequestsOf(b))
      /\ ~overlapped /\ documents' = documents
  BY DEF CommitBatchAndRows, Reply
<1>3. \A r \in RequestsOf(b) : call[h].rows[r] = request[r]
  BY <1>2 DEF ReadRows, RequestsOf
<1>4. \A r \in RequestsOf(b) :
        request'[r] = FlushRequest(request[r], call[h].rows[r], newRows[r])
  BY DEF CommitBatchAndRows, RequestsOf
<1>5. \A r \in RequestsOf(b) : request'[r] = newRows[r]
  BY <1>3, <1>4, FlushUnchanged DEF RequestsOf, TypeOK
<1>6. batch'[b] = FlushBatch(batch[b], batch[b], Recounted(newRow, newRows, b))
  BY <1>1, <1>2 DEF CommitBatchAndRows, TypeOK
<1>7. Recounted(newRow, newRows, b) \in BatchRow
      /\ Recounted(newRow, newRows, b).status = newRow.status
  BY RecountedType
<1>8. batch'[b].status = newRow.status
  BY <1>1, <1>6, <1>7, FlushUnchanged DEF TypeOK
<1>9. /\ \A r \in Requests : BatchOf[r] # b => request'[r] = request[r]
      /\ \A o \in Batches : o # b => batch'[o] = batch[o]
  BY <1>1 DEF CommitBatchAndRows, TypeOK
<1> QED
  BY <1>1, <1>2, <1>3, <1>5, <1>8, <1>9

(* A serial cancel skips what is open, a serial retry reopens what failed, *)
(* in a batch that is not COMPLETED.                                       *)
LEMMA CommitOrders ==
  ASSUME IInv, GuardsWereMet, NEW h \in Handlers, Commit(h), ~overlapped'
  PROVE  Orders!Orderly \/ UNCHANGED Orders!vars
<1>1. TypeOK /\ CallsAreBound
  BY DEF IInv
<1>2. /\ call[h] \in CallRecord /\ call[h].row \in BatchRow
      /\ \A r \in Requests : call[h].rows[r] \in RequestRow /\ request[r] \in RequestRow
  BY <1>1 DEF TypeOK, CallRecord
<1>0. overlapped = FALSE /\ overlapped' = FALSE
  <2>1. TypeOK'
    BY <1>1, CommitType
  <2>2. ~overlapped
    BY <1>1, SerialCommit
  <2> QED
    BY <1>1, <2>1, <2>2 DEF TypeOK
<1>3. CASE CommitCancel(h)
  <2> DEFINE b == call[h].batch
             newRows == [r \in Requests |-> CancelledRow(call[h].rows[r])]
             newRow == [call[h].row EXCEPT !.status = "cancelled"]
  <2>1. /\ newRows \in [Requests -> RequestRow] /\ newRow \in BatchRow
        /\ newRow.status = "cancelled"
    BY <1>2, RowOperatorsType DEF BatchRow, BatchStatus
  <2>2. call[h].op = "cancel" /\ CommitBatchAndRows(h, newRows, newRow)
    BY <1>3 DEF CommitCancel
  <2>3. /\ b \in Batches /\ ~overlapped /\ call[h].row = batch[b]
        /\ \A r \in RequestsOf(b) : request'[r] = CancelledRow(request[r])
        /\ \A r \in Requests : BatchOf[r] # b => request'[r] = request[r]
        /\ batch'[b].status = "cancelled"
        /\ \A o \in Batches : o # b => batch'[o] = batch[o]
        /\ documents' = documents
    <3>1. \A r \in Requests : newRows[r] = CancelledRow(call[h].rows[r])
      OBVIOUS
    <3> HIDE DEF newRows, newRow
    <3> QED
      BY <1>1, <2>1, <2>2, <3>1, SerialBatchCall DEF RequestsOf
  <2>4. batch[b].status # "completed"
    BY <2>2, <2>3 DEF GuardsWereMet
  <2>5. \A row \in RequestRow : PhaseOf(CancelledRow(row).status) =
          IF PhaseOf(row.status) = "open" THEN "skipped" ELSE PhaseOf(row.status)
    BY DEF PhaseOf, CancelledRow, Active, RequestRow, RequestStatus
  <2>6. MoveTogether(b, "open", "skipped")
    BY <1>2, <2>3, <2>5 DEF RequestsOf, MoveTogether
  <2>7. \A o \in Batches : batch'[o].status = "completed" <=> batch[o].status = "completed"
    BY <2>3, <2>4
  <2> QED
    BY <1>0, <2>3, <2>4, <2>6, <2>7, MoveAllStep
<1>4. CASE CommitRetry(h)
  <2> DEFINE b == call[h].batch
             newRows == [r \in Requests |-> RetriedRow(call[h].rows[r])]
             newRow == [call[h].row EXCEPT !.status = "pending"]
  <2>1. /\ newRows \in [Requests -> RequestRow] /\ newRow \in BatchRow
        /\ newRow.status = "pending"
    BY <1>2, RowOperatorsType DEF BatchRow, BatchStatus
  <2>2. call[h].op = "retry" /\ CommitBatchAndRows(h, newRows, newRow)
    BY <1>4 DEF CommitRetry
  <2>3. /\ b \in Batches /\ ~overlapped /\ call[h].row = batch[b]
        /\ \A r \in RequestsOf(b) : /\ call[h].rows[r] = request[r]
                                    /\ request'[r] = RetriedRow(request[r])
        /\ \A r \in Requests : BatchOf[r] # b => request'[r] = request[r]
        /\ batch'[b].status = "pending"
        /\ \A o \in Batches : o # b => batch'[o] = batch[o]
        /\ documents' = documents
    <3>1. \A r \in Requests : newRows[r] = RetriedRow(call[h].rows[r])
      OBVIOUS
    <3> HIDE DEF newRows, newRow
    <3> QED
      BY <1>1, <2>1, <2>2, <3>1, SerialBatchCall DEF RequestsOf
  <2>4. batch[b].status # "completed"
    <3>1. PICK r \in RequestsOf(b) : request[r].status = "failed"
      BY <2>2, <2>3 DEF GuardsWereMet
    <3> QED
      BY <2>3, <3>1 DEF IInv, CompletedBatchIsSettled, Settled
  <2>5. \A row \in RequestRow : PhaseOf(RetriedRow(row).status) =
          IF PhaseOf(row.status) = "failed" THEN "open" ELSE PhaseOf(row.status)
    BY DEF PhaseOf, RetriedRow, AbsentRequest, Active, RequestRow, RequestStatus
  <2>6. MoveTogether(b, "failed", "open")
    BY <1>2, <2>3, <2>5 DEF RequestsOf, MoveTogether
  <2>7. \A o \in Batches : batch'[o].status = "completed" <=> batch[o].status = "completed"
    BY <2>3, <2>4
  <2> QED
    BY <1>0, <2>3, <2>4, <2>6, <2>7, MoveAllStep
<1>5. CASE CommitStart(h)
  <2> DEFINE b == call[h].batch
  <2>1. /\ b \in Batches /\ request' = request /\ documents' = documents
        /\ ~overlapped /\ call[h].row = batch[b] /\ CanStart(b)
    BY <1>1, <1>5 DEF CommitStart, CallsAreBound, Reply
  <2>2. \A o \in Batches : /\ o # b => batch'[o] = batch[o]
                           /\ batch'[o].status # "completed" \/ batch'[o] = batch[o]
    BY <1>1, <1>5, SerialCommit DEF CommitStart, TypeOK, Commit
  <2>3. batch'[b].status # "completed"
    <3>1. batch[b].status # "completed"
      BY <2>1 DEF CanStart
    <3> QED
      BY <2>1, <2>2, <3>1
  <2> QED
    BY <1>0, <2>1, <2>2, <2>3, StutterStep DEF CanStart
<1>6. CASE call[h].op \in {"solve", "skip"}
  <2>1. /\ \A r \in Requests : request'[r].status = request[r].status
        /\ \A b \in Batches : batch'[b] = batch[b]
        /\ documents' = documents /\ ~overlapped
    BY <1>1, <1>6, CommitScope, CommitEffect, SerialCommit
  <2> QED
    BY <1>0, <2>1, StutterStep
<1> QED
  BY <1>3, <1>4, <1>5, <1>6 DEF Commit, CommitSolve, CommitSkip

(* The worker moves, delivers or breaks off orders of the batch it holds,  *)
(* and finishes it when all of them are settled.                           *)
LEMMA WorkerOrders ==
  ASSUME IInv, WorkerStep, overlapped = FALSE
  PROVE  Orders!Orderly \/ UNCHANGED Orders!vars
<1>1. /\ batch \in [Batches -> BatchRow] /\ request \in [Requests -> RequestRow]
      /\ wk \in WorkerRecord
      /\ WorkerHoldsOpenWork /\ RowsExist
  BY DEF IInv, TypeOK
<1>2. CASE Boot
  <2>1. CASE \A r \in Requests : request'[r].status = request[r].status
    BY <1>2, <2>1, BootEffect, StutterStep
  <2>2. CASE \E r \in Requests : request'[r].status # request[r].status
    <3>1. PICK r \in Requests : request'[r].status # request[r].status
      BY <2>2
    <3>2. /\ session.rows[r].status = "processing" /\ session.open /\ wk.pc = "down"
          /\ request'[r].status = "pending"
          /\ request[r].status \in Active \cup {"skipped"}
      BY <1>2, <3>1, BootEffect
    <3>3. \A q \in Requests \ {r} : request'[q].status = request[q].status
      BY <1>2, <3>2, BootEffect DEF IInv, OneInExecution
    <3>4. batch[BatchOf[r]].status # "completed"
      BY <3>2 DEF IInv, WritesAreDue, RecoveryIsDue
    <3>5. PhaseOf(request'[r].status) = "open"
      BY <3>2 DEF PhaseOf, Active
    <3>6. request[r].status \in RequestStatus \ {"absent", "completed"}
      BY <3>2 DEF Active, RequestStatus
    <3>7. batch' = batch /\ documents' = documents /\ overlapped' = FALSE
      BY <1>2, BootEffect
    <3> QED
      BY <3>3, <3>4, <3>5, <3>6, <3>7, MoveStep
  <2> QED
    BY <2>1, <2>2
<1>3. CASE \/ ReadTables
           \/ \E b \in Batches : TakeBatch(b)
           \/ OpenBatch \/ Authenticate
           \/ \E r \in Requests : PickRequest(r)
           \/ NoRequestLeft \/ FlowCompletes \/ FlowNeedsAnswer \/ PollAnswer
           \/ GiveUpWaiting \/ SubmitSolution \/ RaiseException \/ StopGracefully
  <2>1. batch' = batch /\ request' = request /\ documents' = documents
        /\ overlapped' = overlapped
    BY <1>3 DEF ReadTables, TakeBatch, OpenBatch, Authenticate, PickRequest,
       NoRequestLeft, FlowCompletes, FlowNeedsAnswer, PollAnswer, GiveUpWaiting,
       SubmitSolution, RaiseException, StopGracefully, WorkerOnly, NothingWritten
  <2> QED
    BY <2>1, StutterStep
<1>4. CASE RefuseBatch
  <2>1. /\ wk.batch \in Batches /\ batch[wk.batch].status # "completed"
    BY <1>1, <1>4 DEF RefuseBatch, WorkerHoldsOpenWork, HoldsBatch
  <2>2. \A b \in Batches : batch'[b].status = "completed" <=> batch[b].status = "completed"
    BY <1>1, <1>4, <2>1 DEF RefuseBatch, BatchRow
  <2> QED
    BY <1>4, <2>2, StutterStep DEF RefuseBatch, WorkerOnly
<1>5. ASSUME HoldsRequest
      PROVE  /\ wk.req \in Requests /\ BatchOf[wk.req] = wk.batch
             /\ wk.batch \in Batches /\ batch[wk.batch].status # "completed"
             /\ request[wk.req].status \in RequestStatus \ {"absent", "completed"}
  <2>1. HoldsBatch
    BY <1>5 DEF HoldsRequest, HoldsBatch
  <2> QED
    BY <1>1, <1>5, <2>1 DEF WorkerHoldsOpenWork, RowsExist, RequestRow
<1>7. CASE BeginRequest \/ AskManualCaptcha
  <2>1. /\ HoldsRequest /\ batch' = batch
        /\ request'[wk.req].status
             \in {request[wk.req].status, "processing", "awaiting_captcha"}
        /\ \A q \in Requests : q # wk.req => request'[q] = request[q]
    BY <1>7, ExecuteEffect
  <2>2. documents' = documents /\ overlapped' = FALSE
    BY <1>7 DEF BeginRequest, AskManualCaptcha, WorkerOnly
  <2>3. CASE request'[wk.req].status = request[wk.req].status
    BY <2>1, <2>2, <2>3, StutterStep
  <2>4. CASE request'[wk.req].status \in {"processing", "awaiting_captcha"}
    <3>1. PhaseOf(request'[wk.req].status) = "open"
      BY <2>4 DEF PhaseOf, Active
    <3> QED
      BY <1>5, <2>1, <2>2, <3>1, MoveStep
  <2> QED
    BY <2>1, <2>3, <2>4
<1>8. CASE CloseRequest \/ PersistResult
  <2> DEFINE q == wk.req
  <2>1. /\ q \in Requests /\ HoldsRequest
        /\ batch'[wk.batch].status = batch[wk.batch].status
        /\ \A o \in Batches : o # wk.batch => batch'[o] = batch[o]
        /\ \A r \in Requests : r # q => request'[r] = request[r]
        /\ request'[q].status \in {request[q].status, "completed", "failed", "skipped"}
        /\ request'[q].status = "completed" =>
             q \notin documents /\ documents' = documents \cup {q}
        /\ request'[q].status # "completed" => documents' = documents
    BY <1>8, SettleEffect
  <2>2. overlapped' = FALSE
    BY <1>8 DEF CloseRequest, PersistResult, WorkerOnly
  <2>3. \A b \in Batches : batch'[b].status = "completed" <=> batch[b].status = "completed"
    BY <2>1
  <2>4. CASE request'[q].status = "completed"
    <3> DEFINE phase == [r \in Requests |-> PhaseOf(request[r].status)]
               finished == {b \in Batches : batch[b].status = "completed"}
    <3>1. phase' = [phase EXCEPT ![q] = "delivered"]
      BY <2>1, <2>4, PhaseOfStatus
    <3>2. phase[q] \notin {"absent", "delivered"}
      BY <1>5, <2>1 DEF PhaseOf, Active, RequestStatus
    <3>3. finished' = finished
      BY <2>3
    <3>4. BatchOf[q] \in Batches \ finished
      BY <1>5, <2>1
    <3>5. Orders!Deliver(q)
      BY <2>1, <2>4, <3>1, <3>2, <3>3, <3>4 DEF Orders!Deliver, Orders!Unfinished
    <3> QED
      BY <2>1, <2>2, <3>5 DEF Orders!Orderly
  <2>5. CASE request'[q].status \in {"failed", "skipped"}
    <3>1. PhaseOf(request'[q].status) \in {"failed", "skipped"}
      BY <2>5, PhaseOfStatus
    <3>2. documents' = documents /\ \A r \in Requests \ {q} : request'[r].status = request[r].status
      BY <2>1, <2>5
    <3>3. /\ batch[BatchOf[q]].status # "completed"
          /\ request[q].status \in RequestStatus \ {"absent", "completed"}
      BY <1>5, <2>1
    <3>4. PhaseOf(request'[q].status) \in {"open", "failed", "skipped"}
      BY <3>1
    <3> HIDE DEF q
    <3> QED
      BY <2>1, <2>2, <2>3, <3>2, <3>3, <3>4, MoveStep
  <2>6. CASE request'[q].status = request[q].status /\ request'[q].status # "completed"
    BY <2>1, <2>2, <2>3, <2>6, StutterStep
  <2> QED
    BY <2>1, <2>4, <2>5, <2>6
<1>10. CASE FailBatch
  <2> DEFINE b == wk.batch
             S == {r \in RequestsOf(b) : session.rows[r].status \in Active}
  <2>1. b \in Batches /\ batch[b].status # "completed"
    BY <1>1, <1>10 DEF FailBatch, WorkerHoldsOpenWork, HoldsBatch
  <2>2. documents' = documents /\ overlapped' = FALSE
    BY <1>10 DEF FailBatch, WorkerOnly
  <2>3. \A o \in Batches : batch'[o].status = "completed" <=> batch[o].status = "completed"
    BY <1>10, <2>1, FailEffect
  <2>4. /\ \A r \in S : /\ request[r].status \in Active \cup {"skipped"}
                       /\ request'[r].status = "failed"
        /\ \A r \in Requests \ S : request'[r].status = request[r].status
    BY <1>10, FailEffect DEF RequestsOf
  <2>5. S \in SUBSET RequestsOf(b)
    OBVIOUS
  <2> HIDE DEF S
  <2> QED
    BY <2>1, <2>2, <2>3, <2>4, <2>5, BreakOffStep
<1>11. CASE FinalizeBatch
  <2>1. PICK b \in Batches : wk.batch = b /\ batch[b].status # "completed"
    BY <1>1, <1>11 DEF FinalizeBatch, WorkerHoldsOpenWork, HoldsBatch
  <2>2. /\ \A r \in Requests : request'[r] = request[r]
        /\ documents' = documents /\ overlapped' = FALSE
        /\ \A o \in Batches : o # b => batch'[o] = batch[o]
        /\ batch'[b].status = "completed" =>
             \A r \in RequestsOf(b) : request[r].status \in {"completed", "skipped"}
    BY <1>11, <2>1, FinalizeEffect DEF FinalizeBatch, WorkerOnly
  <2>3. CASE batch'[b].status # "completed"
    BY <2>1, <2>2, <2>3, StutterStep
  <2>4. CASE batch'[b].status = "completed"
    <3> DEFINE phase == [q \in Requests |-> PhaseOf(request[q].status)]
               finished == {o \in Batches : batch[o].status = "completed"}
    <3>2. \A r \in Requests : BatchOf[r] = b => phase[r] \in {"delivered", "skipped"}
      BY <2>2, <2>4, PhaseOfStatus DEF RequestsOf
    <3>3. finished' = finished \cup {b} /\ b \in Batches \ finished
      BY <2>1, <2>2, <2>4
    <3>4. phase' = phase
      BY <2>2
    <3>5. Orders!Finish(b)
      BY <2>2, <3>2, <3>3, <3>4 DEF Orders!Finish, Orders!Unfinished, Orders!OrdersOf
    <3> QED
      BY <2>2, <3>5 DEF Orders!Orderly
  <2> QED
    BY <2>3, <2>4
<1> QED
  BY <1>2, <1>3, <1>4, <1>7, <1>8, <1>10, <1>11 DEF WorkerStep

(* A created batch places its orders.                                      *)
LEMMA CreateOrders ==
  ASSUME IInv, NEW b \in Batches, NEW S \in SUBSET Requests, CreateBatch(b, S),
         overlapped = FALSE
  PROVE  Orders!Orderly
<1> DEFINE phase == [q \in Requests |-> PhaseOf(request[q].status)]
           finished == {o \in Batches : batch[o].status = "completed"}
<1>1. /\ batch[b].status = "absent" /\ batch'[b].status = "pending"
      /\ \A o \in Batches : o # b => batch'[o] = batch[o]
  <2> DEFINE new == [AbsentBatch EXCEPT !.status = "pending"]
  <2>1. new \in BatchRow /\ new.status = "pending"
    BY DEF AbsentBatch, BatchRow, BatchStatus
  <2>2. \E rows : batch' = [batch EXCEPT ![b] = Recounted(new, rows, b)]
    BY DEF CreateBatch
  <2> HIDE DEF new
  <2>3. \A rows : Recounted(new, rows, b).status = "pending"
    BY <2>1, RecountedType
  <2> QED
    BY <2>2, <2>3 DEF CreateBatch, IInv, TypeOK
<1>2. /\ \A r \in Requests : BatchOf[r] # b => request'[r] = request[r]
      /\ \A r \in RequestsOf(b) : request'[r].status \in {"pending", "skipped"}
      /\ documents' = documents /\ overlapped' = FALSE
  BY DEF CreateBatch, RequestsOf, AbsentRequest
<1>3. \A r \in RequestsOf(b) : request[r].status = "absent"
  BY <1>1 DEF IInv, RowsExist, RequestsOf
<1>4. finished' = finished /\ b \in Batches \ finished
  BY <1>1
<1>5. /\ \A r \in RequestsOf(b) : phase[r] = "absent" /\ phase'[r] \in {"open", "skipped"}
      /\ \A r \in Requests \ RequestsOf(b) : phase'[r] = phase[r]
  BY <1>2, <1>3 DEF PhaseOf, Active, RequestsOf
<1>6. phase' \in [Requests -> Orders!Phases]
  <2>1. \A r \in Requests : phase'[r] \in Orders!Phases
    <3>1. \A s \in RequestStatus : PhaseOf(s) \in Orders!Phases
      BY DEF PhaseOf, RequestStatus, Active, Orders!Phases
    <3>2. \A r \in Requests : request'[r].status \in RequestStatus
      BY <1>2 DEF IInv, TypeOK, RequestRow, RequestStatus, RequestsOf
    <3> QED
      BY <3>1, <3>2
  <2> QED
    BY <2>1
<1>7. Orders!OrdersOf(b) = RequestsOf(b)
  BY DEF Orders!OrdersOf, RequestsOf
<1>8. Orders!Place(b)
  BY <1>2, <1>4, <1>5, <1>6, <1>7 DEF Orders!Place, Orders!Unfinished
<1> QED
  BY <1>2, <1>8 DEF Orders!Orderly

(* The refinement mapping, initial states and steps.                       *)
LEMMA OrdersInit == Init => Orders!Init
<1> SUFFICES ASSUME Init
             PROVE  Orders!Init
  OBVIOUS
<1>1. [r \in Requests |-> PhaseOf(request[r].status)] = [r \in Requests |-> "absent"]
  BY PhaseOfStatus DEF Init, AbsentRequest
<1>2. {b \in Batches : batch[b].status = "completed"} = {}
  BY DEF Init, AbsentBatch
<1> QED
  BY <1>1, <1>2 DEF Init, Orders!Init

LEMMA OrdersStep ==
  ASSUME IInv, GuardsWereMet, [Next]_vars
  PROVE  [Orders!Next]_(Orders!vars)
<1>1. TypeOK /\ TypeOK'
  BY NextType DEF IInv
<1>2. CASE overlapped' = TRUE
  BY <1>2, ArchiveGrows DEF Orders!Next, Orders!Disturb
<1>3. CASE overlapped' = FALSE
  <2>1. overlapped = FALSE
    BY <1>1, <1>3, ArchiveGrows DEF TypeOK
  <2>2. Orders!Orderly \/ UNCHANGED Orders!vars
    <3>1. ASSUME NEW h \in Handlers, Read(h)
          PROVE  UNCHANGED Orders!vars
      <4>1. batch' = batch /\ request' = request /\ documents' = documents
            /\ overlapped' = overlapped
        BY <3>1 DEF Read, ReadStart, ReadCancel, ReadRetry, ReadCaptchaAnswer, Receive, tables
      <4> QED
        BY <4>1, StutterStep
    <3>2. ASSUME NEW h \in Handlers, Commit(h)
          PROVE  Orders!Orderly \/ UNCHANGED Orders!vars
      BY <1>3, <3>2, CommitOrders
    <3>3. ASSUME NEW b \in Batches, NEW S \in SUBSET Requests, CreateBatch(b, S)
          PROVE  Orders!Orderly
      BY <2>1, <3>3, CreateOrders
    <3>4. CASE WorkerStep
      BY <2>1, <3>4, WorkerOrders
    <3>5. ASSUME NEW r \in Requests, DeadlinePasses(r)
          PROVE  UNCHANGED Orders!vars
      <4>1. /\ batch' = batch /\ documents' = documents /\ overlapped' = overlapped
            /\ \A q \in Requests : request'[q].status = request[q].status
        BY <1>1, <3>5 DEF DeadlinePasses, TypeOK, RequestRow
      <4> QED
        BY <4>1, StutterStep
    <3>6. CASE \/ \E u \in Users : ChangeCredentials(u)
               \/ RequestStop \/ Crash \/ UNCHANGED vars
      <4>1. batch' = batch /\ request' = request /\ documents' = documents
            /\ overlapped' = overlapped
        BY <3>6 DEF ChangeCredentials, RequestStop, Crash, tables, vars
      <4> QED
        BY <4>1, StutterStep
    <3> QED
      BY <3>1, <3>2, <3>3, <3>4, <3>5, <3>6 DEF Next
  <2> QED
    BY <2>2 DEF Orders!Next
<1> QED
  BY <1>1, <1>2, <1>3 DEF TypeOK

(* Every behaviour of the batches, with its threads, captchas, stops and   *)
(* crashes, is one of VisuraOrders: a delivered order stays delivered, its *)
(* document is filed once, only failed orders are asked for again, and a   *)
(* COMPLETED batch is final; until a call commits over changed rows.       *)
THEOREM Refinement == Spec => OrdersAreKept
<1>1. Init => GuardsWereMet
  BY DEF Init, GuardsWereMet, NoCall
<1>2. IInv /\ GuardsWereMet /\ [Next]_vars => GuardsWereMet'
  BY GuardsStep DEF IInv
<1>3. Init => Orders!Init
  BY OrdersInit
<1>4. IInv /\ GuardsWereMet /\ [Next]_vars => [Orders!Next]_(Orders!vars)
  BY OrdersStep
<1> QED
  BY <1>1, <1>2, <1>3, <1>4, Invariance, PTL DEF Spec, OrdersAreKept, Orders!Spec

-----------------------------------------------------------------------------
(* The progress feed.                                                      *)

(* A batch COMPLETED stays so, and no order of it changes phase.           *)
LEMMA CompletedIsFinal ==
  ASSUME IInv, GuardsWereMet, [Next]_vars, ~overlapped',
         NEW b \in Batches, batch[b].status = "completed"
  PROVE  /\ batch'[b].status = "completed"
         /\ \A r \in RequestsOf(b) :
              request'[r].status = "completed" => request[r].status = "completed"
<1> DEFINE phase == [q \in Requests |-> PhaseOf(request[q].status)]
           finished == {o \in Batches : batch[o].status = "completed"}
<1>1. Orders!Orderly \/ (phase' = phase /\ finished' = finished)
  BY OrdersStep DEF Orders!Next, Orders!Disturb, Orders!vars
<1>2. b \in finished
  OBVIOUS
<1>3. ASSUME Orders!Orderly
      PROVE  finished \subseteq finished' /\ \A r \in RequestsOf(b) : phase'[r] = phase[r]
  <2>1. CASE \E o \in Batches : Orders!Place(o)
    BY <1>2, <2>1 DEF Orders!Place, Orders!Unfinished, Orders!OrdersOf, RequestsOf
  <2>2. ASSUME NEW r \in Requests, NEW to \in {"open", "failed", "skipped"}, Orders!Move(r, to)
        PROVE  finished \subseteq finished' /\ \A q \in RequestsOf(b) : phase'[q] = phase[q]
    BY <1>2, <2>2 DEF Orders!Move, Orders!Unfinished, RequestsOf
  <2>3. CASE \E r \in Requests : Orders!Deliver(r)
    BY <1>2, <2>3 DEF Orders!Deliver, Orders!Unfinished, RequestsOf
  <2>4. ASSUME NEW o \in Batches, NEW from, NEW to, Orders!MoveAll(o, from, to)
        PROVE  finished \subseteq finished' /\ \A r \in RequestsOf(b) : phase'[r] = phase[r]
    BY <1>2, <2>4 DEF Orders!MoveAll, Orders!Unfinished, RequestsOf
  <2>5. CASE \E o \in Batches : Orders!Finish(o)
    BY <2>5 DEF Orders!Finish
  <2>6. CASE \E o \in Batches, S \in SUBSET Requests : Orders!BreakOff(o, S)
    BY <1>2, <2>6 DEF Orders!BreakOff, Orders!Unfinished, RequestsOf
  <2> QED
    BY <1>3, <2>1, <2>2, <2>3, <2>4, <2>5, <2>6 DEF Orders!Orderly
<1>4. b \in finished' /\ \A r \in RequestsOf(b) : phase'[r] = phase[r]
  BY <1>1, <1>2, <1>3
<1>5. ASSUME NEW r \in RequestsOf(b), request'[r].status = "completed"
      PROVE  request[r].status = "completed"
  <2>1. phase[r] = "delivered"
    BY <1>4, <1>5, PhaseOfStatus DEF RequestsOf
  <2>2. PhaseOf(request[r].status) = "delivered" /\ request[r].status \in RequestStatus
    BY <2>1 DEF RequestsOf, IInv, TypeOK, RequestRow
  <2> QED
    BY <2>2 DEF PhaseOf, RequestStatus, Active
<1> QED
  BY <1>4, <1>5

(* Counting more rows gives no less.                                       *)
LEMMA CountedMonotone ==
  ASSUME NEW s, NEW b, NEW rows1, NEW rows2,
         \A r \in RequestsOf(b) : rows1[r].status = s => rows2[r].status = s
  PROVE  CountedAs(s, rows1, b) <= CountedAs(s, rows2, b)
<1> DEFINE A == {r \in RequestsOf(b) : rows1[r].status = s}
           B == {r \in RequestsOf(b) : rows2[r].status = s}
<1>1. A \subseteq B
  OBVIOUS
<1>2. IsFiniteSet(B)
  BY FS_Subset DEF RequestsOf
<1>3. Cardinality(A) <= Cardinality(B)
  BY <1>1, <1>2, FS_Subset
<1> QED
  BY <1>3 DEF CountedAs

(* A step leaves the counter of completed rows of a batch, or sets it to   *)
(* no more than there are.                                                 *)
LEMMA CounterStep ==
  ASSUME IInv, ReadCompletedStays, [Next]_vars, ~overlapped', NEW b \in Batches
  PROVE  \/ batch'[b].completed = batch[b].completed
         \/ batch'[b].completed <= CountedAs("completed", request', b)
<1>1. /\ batch \in [Batches -> BatchRow] /\ request \in [Requests -> RequestRow]
      /\ TypeOK /\ CallsAreBound
  BY DEF IInv, TypeOK
<1>0. \A rows, o : CountedAs("completed", rows, o) \in Nat
  BY CountedAsNat
<1>2. ASSUME NEW h \in Handlers, NEW newRows \in [Requests -> RequestRow],
             NEW newRow \in BatchRow, call[h].op \in {"cancel", "retry"},
             CommitBatchAndRows(h, newRows, newRow)
      PROVE  \/ batch'[b].completed = batch[b].completed
             \/ batch'[b].completed <= CountedAs("completed", request', b)
  <2>1. /\ call[h].batch \in Batches /\ call[h].row = batch[call[h].batch]
        /\ \A r \in RequestsOf(call[h].batch) : request'[r] = newRows[r]
        /\ \A o \in Batches : o # call[h].batch => batch'[o] = batch[o]
    BY <1>1, <1>2, SerialBatchCall
  <2>2. CASE b = call[h].batch
    <3>1. batch'[b] = FlushBatch(batch[b], batch[b], Recounted(newRow, newRows, b))
      BY <1>1, <1>2, <2>1, <2>2 DEF CommitBatchAndRows
    <3>2. Recounted(newRow, newRows, b) \in BatchRow
      BY RecountedType
    <3>3. batch'[b] = Recounted(newRow, newRows, b)
      BY <1>1, <3>1, <3>2, FlushUnchanged
    <3>4. Recounted(newRow, newRows, b) = Recounted(newRow, request', b)
      BY <2>1, <2>2, RecountStable
    <3>5. batch'[b].completed = CountedAs("completed", request', b)
      BY <3>3, <3>4 DEF Recounted, BatchRow
    <3> QED
      BY <1>0, <3>5
  <2> QED
    BY <2>1, <2>2
<1>3. ASSUME NEW h \in Handlers, Commit(h)
      PROVE  \/ batch'[b].completed = batch[b].completed
             \/ batch'[b].completed <= CountedAs("completed", request', b)
  <2>1. /\ call[h] \in CallRecord /\ call[h].row \in BatchRow
        /\ \A r \in Requests : call[h].rows[r] \in RequestRow
    BY <1>1 DEF TypeOK, CallRecord
  <2>2. CASE CommitCancel(h)
    <3> DEFINE newRows == [r \in Requests |-> CancelledRow(call[h].rows[r])]
               newRow == [call[h].row EXCEPT !.status = "cancelled"]
    <3>1. newRows \in [Requests -> RequestRow] /\ newRow \in BatchRow
      BY <2>1, RowOperatorsType DEF BatchRow, BatchStatus
    <3>2. call[h].op \in {"cancel", "retry"} /\ CommitBatchAndRows(h, newRows, newRow)
      BY <2>2 DEF CommitCancel
    <3> HIDE DEF newRows, newRow
    <3> QED
      BY <1>2, <3>1, <3>2
  <2>3. CASE CommitRetry(h)
    <3> DEFINE newRows == [r \in Requests |-> RetriedRow(call[h].rows[r])]
               newRow == [call[h].row EXCEPT !.status = "pending"]
    <3>1. newRows \in [Requests -> RequestRow] /\ newRow \in BatchRow
      BY <2>1, RowOperatorsType DEF BatchRow, BatchStatus
    <3>2. call[h].op \in {"cancel", "retry"} /\ CommitBatchAndRows(h, newRows, newRow)
      BY <2>3 DEF CommitRetry
    <3> HIDE DEF newRows, newRow
    <3> QED
      BY <1>2, <3>1, <3>2
  <2>4. CASE CommitStart(h)
    BY <1>1, <2>1, <2>4 DEF CommitStart, FlushBatch, Column, BatchRow
  <2>5. CASE call[h].op \in {"solve", "skip"}
    BY <1>1, <1>3, <2>5, CommitScope
  <2> QED
    BY <1>3, <2>2, <2>3, <2>4, <2>5 DEF Commit, CommitSolve, CommitSkip
<1>4. ASSUME NEW o \in Batches, NEW row \in BatchRow,
             batch' = [batch EXCEPT ![o] = Recounted(row, request', o)]
      PROVE  \/ batch'[b].completed = batch[b].completed
             \/ batch'[b].completed <= CountedAs("completed", request', b)
  <2>1. Recounted(row, request', o).completed = CountedAs("completed", request', o)
    BY DEF Recounted, BatchRow
  <2> QED
    BY <1>0, <1>1, <1>4, <2>1
<1>5. ASSUME NEW o \in Batches, NEW S \in SUBSET Requests, CreateBatch(o, S)
      PROVE  \/ batch'[b].completed = batch[b].completed
             \/ batch'[b].completed <= CountedAs("completed", request', b)
  <2> DEFINE row == [AbsentBatch EXCEPT !.status = "pending"]
  <2>1. row \in BatchRow
    BY DEF AbsentBatch, BatchRow, BatchStatus
  <2>2. batch' = [batch EXCEPT ![o] = Recounted(row, request', o)]
    BY <1>5 DEF CreateBatch
  <2> QED
    BY <1>4, <2>1, <2>2
<1>6. ASSUME NEW o \in Batches, NEW rows, NEW row \in BatchRow,
             row.completed = CountedAs("completed", rows, o),
             batch'[o] = FlushBatch(batch[o], session.row, row),
             \A r \in RequestsOf(o) :
               rows[r].status = "completed" => request'[r].status = "completed",
             \A x \in Batches : x # o => batch'[x] = batch[x]
      PROVE  \/ batch'[b].completed = batch[b].completed
             \/ batch'[b].completed <= CountedAs("completed", request', b)
  <2>1. batch'[o].completed \in {batch[o].completed, row.completed}
    BY <1>6 DEF FlushBatch, Column
  <2>2. row.completed <= CountedAs("completed", request', o)
    BY <1>6, CountedMonotone
  <2> QED
    BY <1>6, <2>1, <2>2
<1>7. ASSUME NEW r \in Requests, session.rows[r].status = "completed", WorkerStep
      PROVE  request'[r].status = "completed"
  <2>1. ~overlapped
    BY ArchiveGrows
  <2> QED
    BY <1>7, <2>1, CompletedStepStays DEF ReadCompletedStays, Next
<1>8. ASSUME NEW new \in RequestRow, HoldsRequest, SaveRequest(new), WorkerStep
      PROVE  \/ batch'[b].completed = batch[b].completed
             \/ batch'[b].completed <= CountedAs("completed", request', b)
  <2> DEFINE rows == [session.rows EXCEPT ![wk.req] = new]
             row == Recounted(session.row, rows, wk.batch)
  <2>1. /\ wk.batch \in Batches /\ wk.req \in RequestsOf(wk.batch) /\ wk.pc # "down"
        /\ session.rows \in [Requests -> RequestRow] /\ session.row \in BatchRow
    BY <1>1, <1>8 DEF IInv, WorkerHoldsOpenWork, HoldsRequest, HoldsBatch, RequestsOf,
                      TypeOK, SessionRecord
  <2>2. row \in BatchRow /\ row.completed = CountedAs("completed", rows, wk.batch)
    BY <2>1, RecountedType DEF Recounted, BatchRow
  <2>3. Save(rows, row)
    BY <1>8 DEF SaveRequest
  <2>4. /\ rows[wk.req] = new
        /\ \A r \in Requests : r # wk.req => rows[r] = session.rows[r]
    BY <2>1 DEF RequestsOf
  <2>5. request'[wk.req].status
          = Column(request[wk.req].status, session.rows[wk.req].status, new.status)
    BY <1>1, <1>8, SaveRequestEffect DEF IInv
  <2>6. session.open /\ session.rows[wk.req].status # "completed"
    <3>1. session.open
      BY <2>3 DEF Save
    <3> QED
      BY <1>8, <3>1 DEF IInv, SessionIsRecent
  <2>7. \A r \in RequestsOf(wk.batch) :
          rows[r].status = "completed" => request'[r].status = "completed"
    BY <1>7, <1>8, <2>4, <2>5, <2>6 DEF RequestsOf, Column
  <2>8. /\ batch'[wk.batch] = FlushBatch(batch[wk.batch], session.row, row)
        /\ \A o \in Batches : o # wk.batch => batch'[o] = batch[o]
    BY <1>1, <2>1, <2>3, SaveEffect
  <2> HIDE DEF rows, row
  <2> QED
    BY <1>6, <2>1, <2>2, <2>7, <2>8
<1>9. CASE CloseRequest \/ PersistResult
  <2>1. HoldsRequest /\ session.rows[wk.req] \in RequestRow /\ WorkerStep
    BY <1>1, <1>9, SettleEffect DEF TypeOK, SessionRecord, WorkerStep
  <2>2. CASE CloseRequest
    <3> DEFINE new == [session.rows[wk.req] EXCEPT !.status = ClosingStatus(session.rows[wk.req])]
    <3>1. SaveRequest(new) /\ new \in RequestRow
      BY <2>1, <2>2 DEF CloseRequest, ClosingStatus, RequestRow, RequestStatus
    <3> QED
      BY <1>8, <2>1, <3>1
  <2>3. CASE PersistResult
    <3>1. wk.result \in {"completed", "failed", "skipped"}
      BY <2>3 DEF PersistResult, IInv, WorkerHoldsOpenWork
    <3>2. PersistedRow(session.rows[wk.req], wk.result) \in RequestRow
      BY <2>1, <3>1, RowOperatorsType
    <3> QED
      BY <1>8, <2>1, <2>3, <3>2 DEF PersistResult
  <2> QED
    BY <1>9, <2>2, <2>3
<1>10. ASSUME NEW rows \in [Requests -> RequestRow], NEW row \in BatchRow,
              NEW status \in BatchStatus, Save(rows, [row EXCEPT !.status = status]),
              row.completed = CountedAs("completed", rows, wk.batch),
              wk.pc # "down", HoldsBatch, WorkerStep,
              \A r \in RequestsOf(wk.batch) :
                rows[r].status = "completed" => session.rows[r].status = "completed"
       PROVE  \/ batch'[b].completed = batch[b].completed
              \/ batch'[b].completed <= CountedAs("completed", request', b)
  <2> DEFINE new == [row EXCEPT !.status = status]
  <2>1. wk.batch \in Batches
    BY <1>10 DEF IInv, WorkerHoldsOpenWork
  <2>2. new \in BatchRow /\ new.completed = row.completed
    BY <1>10 DEF BatchRow
  <2> HIDE DEF new
  <2>3. /\ batch'[wk.batch] = FlushBatch(batch[wk.batch], session.row, new)
        /\ \A o \in Batches : o # wk.batch => batch'[o] = batch[o]
    BY <1>1, <1>10, <2>1, SaveEffect DEF new
  <2>4. \A r \in RequestsOf(wk.batch) :
          rows[r].status = "completed" => request'[r].status = "completed"
    BY <1>7, <1>10 DEF RequestsOf
  <2> QED
    BY <1>6, <1>10, <2>1, <2>2, <2>3, <2>4
<1>11. CASE FailBatch
  <2> DEFINE rows == [r \in Requests |-> FailedRow(session.rows[r])]
             seen == [session.row EXCEPT !.status = "failed"]
             row == Recounted(seen, rows, wk.batch)
  <2>1. /\ session.rows \in [Requests -> RequestRow] /\ session.row \in BatchRow
        /\ wk.pc = "fail" /\ Save(rows, row)
    BY <1>1, <1>11 DEF FailBatch, TypeOK, SessionRecord
  <2>2. rows \in [Requests -> RequestRow]
    BY <2>1, RowOperatorsType
  <2>3. seen \in BatchRow /\ seen.status = "failed"
    BY <2>1 DEF BatchRow, BatchStatus
  <2>4. \A r \in Requests :
          rows[r].status = "completed" => session.rows[r].status = "completed"
    <3>1. ASSUME NEW x \in RequestRow, FailedRow(x).status = "completed"
          PROVE  x.status = "completed"
      BY <3>1 DEF FailedRow, RequestRow
    <3> QED
      BY <2>1, <3>1
  <2> HIDE DEF rows, seen
  <2>5. /\ row \in BatchRow /\ row.status = "failed"
        /\ row.completed = CountedAs("completed", rows, wk.batch)
    BY <2>3, RecountedType DEF Recounted, BatchRow
  <2> HIDE DEF row
  <2>6. row = [row EXCEPT !.status = "failed"]
    BY <2>5 DEF BatchRow
  <2>7. HoldsBatch /\ WorkerStep /\ "failed" \in BatchStatus /\ wk.pc # "down"
    BY <1>11, <2>1 DEF HoldsBatch, WorkerStep, BatchStatus
  <2>8. \A r \in RequestsOf(wk.batch) :
          rows[r].status = "completed" => session.rows[r].status = "completed"
    BY <2>4 DEF RequestsOf
  <2>9. Save(rows, [row EXCEPT !.status = "failed"])
    BY <2>1, <2>6
  <2> QED
    BY <1>10, <2>2, <2>5, <2>7, <2>8, <2>9
<1>12. CASE FinalizeBatch
  <2> DEFINE row == Recounted(session.row, session.rows, wk.batch)
             status == Verdict(row, session.rows, wk.batch)
  <2>1. /\ session.rows \in [Requests -> RequestRow] /\ session.row \in BatchRow
        /\ wk.pc = "finalize" /\ Save(session.rows, [row EXCEPT !.status = status])
    BY <1>1, <1>12 DEF FinalizeBatch, TypeOK, SessionRecord
  <2>2. row \in BatchRow /\ row.completed = CountedAs("completed", session.rows, wk.batch)
    BY <2>1, RecountedType DEF Recounted, BatchRow
  <2>3. status \in BatchStatus
    BY DEF Verdict, BatchStatus
  <2> HIDE DEF row, status
  <2> QED
    BY <1>10, <1>12, <2>1, <2>2, <2>3 DEF HoldsBatch, WorkerStep
<1>14. CASE RefuseBatch
  <2>1. wk.batch \in Batches
    BY <1>14 DEF RefuseBatch, HoldsBatch, IInv, WorkerHoldsOpenWork
  <2> QED
    BY <1>1, <1>14, <2>1 DEF RefuseBatch, BatchRow
<1>15. CASE batch' = batch
  BY <1>15
<1>16. CASE BeginRequest \/ AskManualCaptcha \/ Boot
  BY <1>15, <1>16, ExecuteEffect, BootEffect
<1>17. CASE WorkerStep
  BY <1>9, <1>11, <1>12, <1>14, <1>15, <1>16, <1>17 DEF WorkerStep, ReadTables, TakeBatch,
     OpenBatch, Authenticate, PickRequest, NoRequestLeft, FlowCompletes, FlowNeedsAnswer,
     PollAnswer, GiveUpWaiting, SubmitSolution, RaiseException, StopGracefully,
     NothingWritten
<1>13. CASE \/ \E h \in Handlers : Read(h)
            \/ \E u \in Users : ChangeCredentials(u)
            \/ \E r \in Requests : DeadlinePasses(r)
            \/ RequestStop \/ Crash \/ UNCHANGED vars
  BY <1>13, <1>15 DEF Read, ReadStart, ReadCancel, ReadRetry, ReadCaptchaAnswer, Receive,
     ChangeCredentials, DeadlinePasses, RequestStop, Crash, tables, vars
<1> QED
  BY <1>3, <1>5, <1>13, <1>17 DEF Next

(* A row read as COMPLETED stays so: no serial step takes it out.          *)
LEMMA ReadStep ==
  ASSUME IInv, ReadCompletedStays, [Next]_vars
  PROVE  ReadCompletedStays'
<1> SUFFICES ASSUME ~overlapped', NEW r \in Requests, session'.rows[r].status = "completed"
             PROVE  request'[r].status = "completed"
  BY DEF ReadCompletedStays
<1>1. ~overlapped /\ session \in SessionRecord
  BY ArchiveGrows DEF IInv, TypeOK
<1>2. session'.rows[r] \in {session.rows[r], request[r], AbsentRequest}
  <2>1. CASE session' = session
    BY <2>1
  <2>2. CASE session' = NoSession
    BY <2>2 DEF NoSession, Unread
  <2>3. CASE ReadTables
    BY <2>3 DEF ReadTables, ReadRows
  <2>4. ASSUME NEW new, SaveRequest(new)
        PROVE  session' = NoSession
    BY <2>4 DEF SaveRequest, Save
  <2>5. CASE WorkerStep
    BY <2>1, <2>2, <2>3, <2>4, <2>5 DEF WorkerStep, Boot, TakeBatch, OpenBatch, RefuseBatch,
       Authenticate, PickRequest, NoRequestLeft, CloseRequest, BeginRequest, FlowCompletes,
       FlowNeedsAnswer, AskManualCaptcha, PollAnswer, GiveUpWaiting, SubmitSolution,
       PersistResult, RaiseException, FailBatch, FinalizeBatch, StopGracefully, Save,
       NothingWritten
  <2>6. ASSUME NEW h \in Handlers, Read(h) \/ Commit(h)
        PROVE  session' = session
    BY <2>6 DEF Read, ReadStart, ReadCancel, ReadRetry, ReadCaptchaAnswer, Receive, Commit,
       CommitStart, CommitCancel, CommitRetry, CommitSolve, CommitSkip, CommitBatchAndRows,
       CommitCaptchaAnswer, Reply
  <2>7. CASE \/ \E b \in Batches, S \in SUBSET Requests : CreateBatch(b, S)
             \/ \E u \in Users : ChangeCredentials(u)
             \/ \E q \in Requests : DeadlinePasses(q)
             \/ RequestStop \/ Crash \/ UNCHANGED vars
    BY <2>1, <2>2, <2>7 DEF CreateBatch, ChangeCredentials, DeadlinePasses, RequestStop,
                            Crash, vars
  <2> QED
    BY <2>1, <2>5, <2>6, <2>7 DEF Next
<1> QED
  BY <1>1, <1>2, CompletedStepStays DEF ReadCompletedStays, AbsentRequest

(* The invariant of the feed at the start.                                 *)
LEMMA ProgressInitInv == ProgressInit => ProgressIInv
<1> SUFFICES ASSUME ProgressInit
             PROVE  ProgressIInv
  OBVIOUS
<1>1. IInv
  BY InitInv DEF ProgressInit
<1>2. GuardsWereMet
  BY DEF ProgressInit, Init, GuardsWereMet, NoCall
<1>3. CountersAreFounded
  <2>1. \A b \in Batches : batch[b].completed = 0 /\ CountedAs("completed", request, b) \in Nat
    BY CountedAsNat DEF ProgressInit, Init, AbsentBatch
  <2> QED
    BY <2>1 DEF CountersAreFounded
<1>4. feed = NoFeed /\ feed.pc = "closed" /\ feed.announced = {}
  BY DEF ProgressInit, NoFeed
<1>5. FeedTypeOK
  BY <1>4 DEF FeedTypeOK, FeedRecord, NoFeed, AbsentBatch, BatchRow, BatchStatus
<1>6. FeedIsTrue /\ FeedsTellAll
  BY <1>4 DEF FeedIsTrue, FeedsTellAll
<1>7. ReadCompletedStays
  BY DEF ProgressInit, Init, ReadCompletedStays, NoSession, Unread, AbsentRequest
<1> QED
  BY <1>1, <1>2, <1>3, <1>5, <1>6, <1>7 DEF ProgressIInv

(* A step of the tables keeps what the feed has told true.                 *)
LEMMA TablesStepInv ==
  ASSUME ProgressIInv, [Next]_vars, feed' = feed
  PROVE  ProgressIInv'
<1>1. /\ IInv /\ IInv' /\ GuardsWereMet /\ GuardsWereMet' /\ TypeOK /\ TypeOK'
      /\ ReadCompletedStays /\ ReadCompletedStays'
  BY NextInv, GuardsStep, ReadStep DEF ProgressIInv, IInv
<1>2. FeedTypeOK'
  <2>1. \A b \in Batches : batch[b].status # "absent" => batch'[b].status # "absent"
    <3> SUFFICES ASSUME NEW b \in Batches, batch[b].status # "absent"
                 PROVE  batch'[b].status # "absent"
      OBVIOUS
    <3>1. ASSUME NEW h \in Handlers, Commit(h)
          PROVE  batch'[b].status # "absent"
      BY <1>1, <3>1, CommitEffect DEF IInv
    <3>2. ASSUME NEW o \in Batches, NEW S \in SUBSET Requests, CreateBatch(o, S)
          PROVE  batch'[b].status # "absent"
      BY <1>1, <3>2 DEF CreateBatch, TypeOK
    <3>3. CASE batch' = batch
      BY <3>3
    <3>4. CASE CloseRequest \/ PersistResult
      BY <1>1, <3>4, SettleEffect
    <3>5. CASE FailBatch
      BY <1>1, <3>5, FailEffect
    <3>6. CASE FinalizeBatch
      BY <1>1, <3>6, FinalizeEffect
    <3>7. CASE RefuseBatch
      <4>1. wk.batch \in Batches
        BY <1>1, <3>7 DEF RefuseBatch, HoldsBatch, IInv, WorkerHoldsOpenWork
      <4> QED
        BY <1>1, <3>7, <4>1 DEF RefuseBatch, TypeOK, BatchRow
    <3>8. CASE BeginRequest \/ AskManualCaptcha \/ Boot
      BY <1>1, <3>3, <3>8, ExecuteEffect, BootEffect
    <3>10. CASE WorkerStep
      BY <3>3, <3>4, <3>5, <3>6, <3>7, <3>8, <3>10 DEF WorkerStep, ReadTables, TakeBatch,
         OpenBatch, Authenticate, PickRequest, NoRequestLeft, FlowCompletes,
         FlowNeedsAnswer, PollAnswer, GiveUpWaiting, SubmitSolution, RaiseException,
         StopGracefully, NothingWritten
    <3>11. CASE \/ \E h \in Handlers : Read(h)
                \/ \E u \in Users : ChangeCredentials(u)
                \/ \E r \in Requests : DeadlinePasses(r)
                \/ RequestStop \/ Crash \/ UNCHANGED vars
      BY <3>3, <3>11 DEF Read, ReadStart, ReadCancel, ReadRetry, ReadCaptchaAnswer, Receive,
         ChangeCredentials, DeadlinePasses, RequestStop, Crash, tables, vars
    <3> QED
      BY <3>1, <3>2, <3>10, <3>11 DEF Next
  <2> QED
    BY <2>1 DEF ProgressIInv, FeedTypeOK
<1>3. CASE overlapped'
  BY <1>1, <1>2, <1>3 DEF ProgressIInv, CountersAreFounded, FeedIsTrue, FeedsTellAll
<1>4. CASE ~overlapped'
  <2>1. ~overlapped
    BY <1>4, ArchiveGrows
  <2>2. ASSUME NEW b \in Batches
        PROVE  /\ \A r \in RequestsOf(b) :
                    request[r].status = "completed" => request'[r].status = "completed"
               /\ CountedAs("completed", request, b) <= CountedAs("completed", request', b)
               /\ CountedAs("completed", request, b) \in Nat
               /\ CountedAs("completed", request', b) \in Nat
               /\ Delivered(b) \subseteq Delivered(b)'
               /\ Delivered(b) = {r \in RequestsOf(b) : request[r].status = "completed"}
    <3>1. \A r \in RequestsOf(b) :
            request[r].status = "completed" => request'[r].status = "completed"
      BY <1>1, <1>4, CompletedStepStays DEF RequestsOf
    <3>2. CountedAs("completed", request, b) <= CountedAs("completed", request', b)
      BY <3>1, CountedMonotone
    <3>3. /\ Delivered(b) \subseteq Delivered(b)'
          /\ Delivered(b) = {r \in RequestsOf(b) : request[r].status = "completed"}
      BY <1>1, <3>1 DEF Delivered, IInv, CompletedHasDocument, RequestsOf
    <3> QED
      BY <3>1, <3>2, <3>3, CountedAsNat
  <2>3. CountersAreFounded'
    <3> SUFFICES ASSUME NEW b \in Batches
                 PROVE  batch'[b].completed <= CountedAs("completed", request', b)
      BY DEF CountersAreFounded
    <3>1. batch[b].completed <= CountedAs("completed", request, b)
      BY <2>1 DEF ProgressIInv, CountersAreFounded
    <3>2. batch[b].completed \in Nat
      BY <1>1 DEF TypeOK, BatchRow
    <3> QED
      BY <1>1, <1>4, <2>2, <3>1, <3>2, CounterStep
  <2>4. CASE feed.pc = "closed"
    BY <1>1, <1>2, <2>3, <2>4 DEF ProgressIInv, FeedIsTrue, FeedsTellAll
  <2>5. CASE feed.pc # "closed"
    <3>1. PICK b \in Batches : feed.batch = b
      BY <2>5 DEF ProgressIInv, FeedTypeOK
    <3>2. feed.row.completed \in Nat
      BY DEF ProgressIInv, FeedTypeOK, FeedRecord, BatchRow
    <3>3. FeedIsTrue'
      BY <1>1, <1>4, <2>1, <2>2, <2>5, <3>1, <3>2, CompletedIsFinal
      DEF ProgressIInv, FeedIsTrue
    <3>4. FeedsTellAll'
      <4> SUFFICES ASSUME feed.pc = "over"
                   PROVE  /\ Cardinality(feed.announced) >= feed.row.completed
                          /\ feed.row.status = "completed" =>
                               /\ batch'[b].status = "completed"
                               /\ feed.announced = Delivered(b)'
        BY <3>1 DEF FeedsTellAll
      <4>1. /\ Cardinality(feed.announced) >= feed.row.completed
            /\ feed.row.status = "completed" =>
                 /\ batch[b].status = "completed"
                 /\ feed.announced = Delivered(b)
        BY <2>1, <3>1 DEF ProgressIInv, FeedsTellAll
      <4>2. ASSUME feed.row.status = "completed"
            PROVE  batch'[b].status = "completed" /\ Delivered(b)' = Delivered(b)
        <5>1. /\ batch'[b].status = "completed"
              /\ \A r \in RequestsOf(b) :
                   request'[r].status = "completed" => request[r].status = "completed"
          BY <1>1, <1>4, <4>1, <4>2, CompletedIsFinal
        <5>2. Delivered(b)' \subseteq Delivered(b)
          BY <2>2, <5>1 DEF Delivered
        <5> QED
          BY <2>2, <5>1, <5>2
      <4> QED
        BY <4>1, <4>2
    <3> QED
      BY <1>1, <1>2, <2>3, <3>3, <3>4 DEF ProgressIInv
  <2> QED
    BY <2>4, <2>5
<1> QED
  BY <1>3, <1>4

(* A step of the feed leaves the tables alone.                             *)
LEMMA FeedStepInv ==
  ASSUME ProgressIInv, vars' = vars,
         (\E b \in Batches : OpenFeed(b)) \/ PollBatch \/ PollRequests \/ CloseFeed
  PROVE  ProgressIInv'
<1>1. /\ batch' = batch /\ request' = request /\ overlapped' = overlapped
      /\ IInv' /\ GuardsWereMet' /\ CountersAreFounded' /\ ReadCompletedStays'
  <2>1. IInv' /\ GuardsWereMet' /\ ReadCompletedStays'
    BY NextInv, GuardsStep, ReadStep DEF ProgressIInv, IInv
  <2> QED
    BY <2>1 DEF vars, ProgressIInv, CountersAreFounded
<1>2. feed \in FeedRecord /\ TypeOK
  BY DEF ProgressIInv, FeedTypeOK, IInv
<1>3. ASSUME feed'.pc = "closed", feed' = NoFeed
      PROVE  ProgressIInv'
  BY <1>1, <1>3 DEF ProgressIInv, FeedTypeOK, FeedRecord, NoFeed, AbsentBatch, BatchRow,
                    BatchStatus, FeedIsTrue, FeedsTellAll
<1>4. ASSUME NEW b \in Batches, OpenFeed(b)
      PROVE  ProgressIInv'
  <2>1. feed' = [NoFeed EXCEPT !.pc = "poll", !.batch = b] /\ batch[b].status # "absent"
    BY <1>4 DEF OpenFeed
  <2>2. /\ feed'.pc = "poll" /\ feed'.batch = b /\ feed'.announced = {}
        /\ feed' \in FeedRecord
    BY <2>1 DEF NoFeed, FeedRecord, AbsentBatch, BatchRow, BatchStatus
  <2> QED
    BY <1>1, <2>1, <2>2 DEF ProgressIInv, FeedTypeOK, FeedIsTrue, FeedsTellAll
<1>5. ASSUME feed.pc # "closed"
      PROVE  /\ feed.batch \in Batches /\ batch[feed.batch].status # "absent"
             /\ batch[feed.batch] \in BatchRow
  BY <1>2, <1>5 DEF ProgressIInv, FeedTypeOK, TypeOK
<1>6. CASE PollBatch
  <2>1. /\ feed.pc = "poll" /\ feed'.pc = "rows" /\ feed'.batch = feed.batch
        /\ feed'.row = batch[feed.batch] /\ feed'.announced = feed.announced
        /\ feed' \in FeedRecord
    BY <1>2, <1>5, <1>6 DEF PollBatch, FeedRecord
  <2>2. Delivered(feed.batch)' = Delivered(feed.batch)
    BY <1>1, <2>1 DEF Delivered
  <2>3. overlapped \/ batch[feed.batch].completed <= CountedAs("completed", request, feed.batch)
    BY <1>5, <2>1 DEF ProgressIInv, CountersAreFounded
  <2>4. FeedIsTrue'
    BY <1>1, <2>1, <2>2, <2>3 DEF ProgressIInv, FeedIsTrue
  <2> QED
    BY <1>1, <1>5, <2>1, <2>4 DEF ProgressIInv, FeedTypeOK, FeedsTellAll
<1>7. CASE PollRequests
  <2> DEFINE b == feed.batch
  <2>1. /\ feed.pc = "rows" /\ feed'.pc \in {"over", "poll"} /\ feed'.batch = b
        /\ feed'.row = feed.row /\ feed'.announced = feed.announced \cup Delivered(b)
        /\ feed' \in FeedRecord
    <3>1. Delivered(b) \in SUBSET Requests
      BY DEF Delivered, RequestsOf
    <3> QED
      BY <1>2, <1>7, <3>1 DEF PollRequests, FeedRecord
  <2>2. Delivered(b)' = Delivered(b)
    BY <1>1, <2>1 DEF Delivered
  <2>3. overlapped \/ feed'.announced = Delivered(b)
    BY <2>1 DEF ProgressIInv, FeedIsTrue
  <2>4. Cardinality(Delivered(b)) = CountedAs("completed", request, b)
    <3>1. b \in Batches
      BY <1>5, <2>1
    <3>2. Delivered(b) = {r \in RequestsOf(b) : request[r].status = "completed"}
      BY DEF Delivered, ProgressIInv, IInv, CompletedHasDocument, RequestsOf
    <3> QED
      BY <3>2 DEF CountedAs
  <2>5. overlapped \/ /\ feed.row.completed <= CountedAs("completed", request, b)
                      /\ feed.row.status = "completed" => batch[b].status = "completed"
    BY <2>1 DEF ProgressIInv, FeedIsTrue
  <2>6. FeedIsTrue'
    BY <1>1, <2>1, <2>2, <2>3, <2>5 DEF FeedIsTrue
  <2>7. FeedsTellAll'
    <3>1. feed.row.completed \in Nat /\ CountedAs("completed", request, b) \in Nat
      BY <1>2, CountedAsNat DEF FeedRecord, BatchRow
    <3> QED
      BY <1>1, <2>1, <2>2, <2>3, <2>4, <2>5, <3>1 DEF FeedsTellAll
  <2> QED
    BY <1>1, <1>5, <2>1, <2>6, <2>7 DEF ProgressIInv, FeedTypeOK
<1>8. CASE CloseFeed
  BY <1>3, <1>8 DEF CloseFeed, NoFeed
<1> QED
  BY <1>4, <1>6, <1>7, <1>8

(* The inductive invariant of the tables and the feed over them holds in   *)
(* every reachable state.                                                  *)
THEOREM ProgressInvariant == ProgressSpec => []ProgressIInv
<1>1. ProgressInit => ProgressIInv
  BY ProgressInitInv
<1>2. ProgressIInv /\ [ProgressNext]_progressVars => ProgressIInv'
  <2> SUFFICES ASSUME ProgressIInv, [ProgressNext]_progressVars
               PROVE  ProgressIInv'
    OBVIOUS
  <2>1. CASE (Next /\ UNCHANGED feed) \/ UNCHANGED progressVars
    BY <2>1, TablesStepInv DEF progressVars
  <2>2. CASE (\E b \in Batches : OpenFeed(b)) \/ PollBatch \/ PollRequests \/ CloseFeed
    <3>1. vars' = vars
      BY <2>2 DEF OpenFeed, PollBatch, PollRequests, CloseFeed
    <3> QED
      BY <2>2, <3>1, FeedStepInv
  <2> QED
    BY <2>1, <2>2 DEF ProgressNext
<1> QED
  BY <1>1, <1>2, PTL DEF ProgressSpec

(* Unless a call commits over changed rows, a feed that ends has announced *)
(* every document it counts, and one that ends with COMPLETED has told all *)
(* there will ever be to tell of the batch.                                *)
THEOREM FeedsHold == ProgressSpec => []FeedsTellAll
BY ProgressInvariant, PTL DEF ProgressIInv

(* The feed is of a batch that exists.                                     *)
THEOREM FeedTypes == ProgressSpec => []FeedTypeOK
BY ProgressInvariant, PTL DEF ProgressIInv
=============================================================================
