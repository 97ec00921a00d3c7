--------------------------- MODULE CatastoBatches ---------------------------
(***************************************************************************)
(* The Catasto visura queue: batches of requests that a user creates,      *)
(* starts, cancels and retries through the HTTP API, and that one worker   *)
(* process works off against the SISTER portal.                            *)
(*                                                                         *)
(* The API handlers (backend/app/services/catasto_batches.py and           *)
(* catasto_captcha.py) run in a thread pool, each in a database session of *)
(* its own, under READ COMMITTED and without row locks: a call reads its   *)
(* rows, decides, and commits later, so every call is two steps here and   *)
(* any other step may fall between them.  The worker                       *)
(* (modules/catasto/worker/worker.py) is one asyncio task.  What it does   *)
(* to the rows is read and committed in two steps as well, with any call   *)
(* in between.  It can crash and be restarted between any two steps.       *)
(*                                                                         *)
(* Abstracted away: row contents, wording (error_message,                  *)
(* current_operation), timestamps other than the order of started_at, the  *)
(* pages of the portal, and the OCR and external CAPTCHA attempts, of      *)
(* which only the outcome of the whole visura flow is kept.                *)
(***************************************************************************)
EXTENDS Naturals, FiniteSets

CONSTANTS
  Users,        \* application users
  Batches,      \* catasto_batches rows that may come to exist
  Requests,     \* catasto_visure_requests rows that may come to exist
  OwnerOf,      \* Batches -> Users, the user_id column
  BatchOf,      \* Requests -> Batches, the batch_id column
  RowIndex,     \* Requests -> Nat, unique in a batch
  Handlers,     \* threads that can be serving an API call at the same time
  None,         \* no batch, no request
  MaxCalls,     \* bound: API calls in one behaviour
  MaxRestarts   \* bound: crashes and SIGTERMs in one behaviour

ASSUME CatalogAssumption ==
  /\ IsFiniteSet(Requests)
  /\ OwnerOf \in [Batches -> Users]
  /\ BatchOf \in [Requests -> Batches]
  /\ RowIndex \in [Requests -> Nat]
  /\ \A r, q \in Requests :
       BatchOf[r] = BatchOf[q] /\ RowIndex[r] = RowIndex[q] => r = q

ASSUME NoneAssumption == None \notin Batches /\ None \notin Requests

ASSUME BoundsAssumption == MaxCalls \in Nat /\ MaxRestarts \in Nat

VARIABLES
  batch,          \* the catasto_batches table
  request,        \* the catasto_visure_requests table
  documents,      \* request_id values of the catasto_documents table
  hasCredentials, \* per user: is there a catasto_credentials row?
  call,           \* per handler: the API call it is serving and what it read
  calls,          \* API calls begun so far
  clock,          \* the latest started_at handed out
  overlapped,     \* has a call committed over rows changed since it read them?
  wk,             \* the worker's control state and locals
  session,        \* the worker's database session: what it has read
  stopRequested,  \* WorkerState.stop_requested
  restarts        \* crashes and SIGTERMs so far

tables == <<batch, request, documents, hasCredentials>>
vars == <<batch, request, documents, hasCredentials, call, calls, clock,
          overlapped, wk, session, stopRequested, restarts>>

-----------------------------------------------------------------------------
(* The tables.  "absent" is the status of a row not yet inserted.          *)

BatchStatus == {"absent", "pending", "processing", "completed", "failed",
                "cancelled"}
RequestStatus == {"absent", "pending", "processing", "awaiting_captcha",
                  "completed", "failed", "skipped"}
Expiry == {"null", "future", "past"}     \* captcha_expires_at

BatchRow == [status : BatchStatus,
             startedAt : Nat,            \* 0 is NULL, else the order of starts
             completed : Nat, failed : Nat, skipped : Nat]
RequestRow == [status : RequestStatus,
               solution : BOOLEAN,       \* a non-empty captcha_manual_solution
               skip : BOOLEAN,           \* captcha_skip_requested
               expiry : Expiry,
               document : BOOLEAN]       \* document_id is set

AbsentBatch == [status |-> "absent", startedAt |-> 0,
                completed |-> 0, failed |-> 0, skipped |-> 0]
AbsentRequest == [status |-> "absent", solution |-> FALSE, skip |-> FALSE,
                  expiry |-> "null", document |-> FALSE]

RequestsOf(b) == {r \in Requests : BatchOf[r] = b}

Active == {"pending", "processing", "awaiting_captcha"}

(* The counters recomputed from a set of request rows.                     *)
CountedAs(s, rows, b) == Cardinality({r \in RequestsOf(b) : rows[r].status = s})

Recounted(row, rows, b) ==
  [row EXCEPT !.completed = CountedAs("completed", rows, b),
              !.failed = CountedAs("failed", rows, b),
              !.skipped = CountedAs("skipped", rows, b)]

(* The unit of work: an UPDATE names only the columns whose new value      *)
(* differs from the value the session read.                                *)
Column(current, seen, new) == IF new = seen THEN current ELSE new

FlushBatch(current, seen, new) ==
  [status    |-> Column(current.status, seen.status, new.status),
   startedAt |-> Column(current.startedAt, seen.startedAt, new.startedAt),
   completed |-> Column(current.completed, seen.completed, new.completed),
   failed    |-> Column(current.failed, seen.failed, new.failed),
   skipped   |-> Column(current.skipped, seen.skipped, new.skipped)]

FlushRequest(current, seen, new) ==
  [status   |-> Column(current.status, seen.status, new.status),
   solution |-> Column(current.solution, seen.solution, new.solution),
   skip     |-> Column(current.skip, seen.skip, new.skip),
   expiry   |-> Column(current.expiry, seen.expiry, new.expiry),
   document |-> Column(current.document, seen.document, new.document)]

-----------------------------------------------------------------------------
(* API calls.  call[h] holds the operation a handler serves and the rows   *)
(* it has read; rows it did not read are AbsentRequest in its snapshot.    *)

Operations == {"none", "start", "cancel", "retry", "solve", "skip"}

CallRecord == [op : Operations,
               batch : Batches \cup {None},
               req : Requests \cup {None},
               row : BatchRow,
               rows : [Requests -> RequestRow]]

Unread == [r \in Requests |-> AbsentRequest]
ReadRows(S) == [r \in Requests |-> IF r \in S THEN request[r] ELSE AbsentRequest]

NoCall == [op |-> "none", batch |-> None, req |-> None, row |-> AbsentBatch,
           rows |-> Unread]

BatchCall(op, b, rows) ==
  [op |-> op, batch |-> b, req |-> None, row |-> batch[b], rows |-> rows]
CaptchaCall(op, r) ==
  [op |-> op, batch |-> None, req |-> r, row |-> AbsentBatch,
   rows |-> ReadRows({r})]

(* A handler accepts a call: the guards have passed on the rows read.      *)
Receive(h, c) ==
  /\ call[h].op = "none"
  /\ calls < MaxCalls
  /\ calls' = calls + 1
  /\ call' = [call EXCEPT ![h] = c]
  /\ UNCHANGED <<tables, clock, overlapped, wk, session, stopRequested, restarts>>

(* A handler commits: `stale' says whether what it read has changed.       *)
Reply(h, stale) ==
  /\ call' = [call EXCEPT ![h] = NoCall]
  /\ overlapped' = (overlapped \/ stale)
  /\ UNCHANGED <<documents, hasCredentials, calls, wk, session, stopRequested,
                 restarts>>

ProcessingElsewhere(b) ==
  \E o \in Batches \ {b} :
    OwnerOf[o] = OwnerOf[b] /\ batch[o].status = "processing"

CanStart(b) ==
  /\ hasCredentials[OwnerOf[b]]
  /\ ~ProcessingElsewhere(b)
  /\ batch[b].status \in {"pending", "failed", "cancelled"}

ReadStart(h, b) == CanStart(b) /\ Receive(h, BatchCall("start", b, Unread))

CommitStart(h) ==
  LET c == call[h]
      b == c.batch
      now == clock + 1
      new == [c.row EXCEPT !.status = "processing",
                           !.startedAt = IF @ = 0 THEN now ELSE @]
  IN /\ c.op = "start"
     /\ batch' = [batch EXCEPT ![b] = FlushBatch(@, c.row, new)]
     /\ clock' = IF c.row.startedAt = 0 THEN now ELSE clock
     /\ Reply(h, c.row # batch[b] \/ ~CanStart(b))
     /\ UNCHANGED request

ReadCancel(h, b) ==
  /\ batch[b].status \notin {"absent", "completed", "cancelled"}
  /\ Receive(h, BatchCall("cancel", b, ReadRows(RequestsOf(b))))

CancelledRow_KeepsAwaiting(row) ==
  IF row.status \in {"pending", "processing"}
  THEN [row EXCEPT !.status = "skipped"] ELSE row

CancelledRow(row) ==
  IF row.status \in Active THEN [row EXCEPT !.status = "skipped"] ELSE row

CommitBatchAndRows(h, newRows, newRow) ==
  LET c == call[h]
      b == c.batch
  IN /\ request' = [r \in Requests |->
                      IF BatchOf[r] = b
                      THEN FlushRequest(request[r], c.rows[r], newRows[r])
                      ELSE request[r]]
     /\ batch' = [batch EXCEPT ![b] =
                    FlushBatch(@, c.row, Recounted(newRow, newRows, b))]
     /\ Reply(h, c.row # batch[b] \/ c.rows # ReadRows(RequestsOf(b)))
     /\ UNCHANGED clock

CommitCancel(h) ==
  LET c == call[h]
  IN /\ c.op = "cancel"
     /\ CommitBatchAndRows(h, [r \in Requests |-> CancelledRow(c.rows[r])],
                           [c.row EXCEPT !.status = "cancelled"])

ReadRetry(h, b) ==
  /\ batch[b].status \notin {"absent", "processing"}
  /\ \E r \in RequestsOf(b) : request[r].status = "failed"
  /\ Receive(h, BatchCall("retry", b, ReadRows(RequestsOf(b))))

RetriedRow_SkippedToo(row) ==
  IF row.status \in {"failed", "skipped"}
  THEN [AbsentRequest EXCEPT !.status = "pending"] ELSE row

RetriedRow(row) ==
  IF row.status = "failed"
  THEN [AbsentRequest EXCEPT !.status = "pending"] ELSE row

CommitRetry(h) ==
  LET c == call[h]
  IN /\ c.op = "retry"
     /\ CommitBatchAndRows(h, [r \in Requests |-> RetriedRow(c.rows[r])],
                           [c.row EXCEPT !.status = "pending"])

(* The two answers to a manual CAPTCHA.                                    *)
ReadCaptchaAnswer(h, r, op) ==
  /\ request[r].status = "awaiting_captcha"
  /\ Receive(h, CaptchaCall(op, r))

CommitCaptchaAnswer(h, new, solution) ==
  LET c == call[h]
      r == c.req
  IN /\ request' = [request EXCEPT ![r] =
                      [FlushRequest(@, c.rows[r], new) EXCEPT
                         !.solution = solution]]
     /\ Reply(h, c.rows[r] # request[r])
     /\ UNCHANGED <<batch, clock>>

(* text.strip() may be empty, which reads as no solution; resubmitting the *)
(* very text that was read leaves the column out of the UPDATE.            *)
CommitSolve(h) ==
  LET c == call[h]
      r == c.req
  IN /\ c.op = "solve"
     /\ \E text \in BOOLEAN :
          \E written \in {Column(request[r].solution, c.rows[r].solution, text),
                          text} :
            CommitCaptchaAnswer(h, [c.rows[r] EXCEPT !.solution = text,
                                                     !.skip = FALSE], written)

CommitSkip(h) ==
  LET c == call[h]
      r == c.req
      new == [c.rows[r] EXCEPT !.solution = FALSE, !.skip = TRUE]
  IN /\ c.op = "skip"
     /\ CommitCaptchaAnswer(h, new,
          Column(request[r].solution, c.rows[r].solution, new.solution))

(* Creation inserts rows nobody else can see yet: one step.  The rows of S *)
(* carry the municipality UE/EU, which validation turns into SKIPPED rows. *)
CreateBatch(b, S) ==
  LET rows == [r \in Requests |->
                 IF BatchOf[r] # b THEN request[r]
                 ELSE [AbsentRequest EXCEPT
                         !.status = IF r \in S THEN "skipped" ELSE "pending"]]
  IN /\ batch[b].status = "absent"
     /\ request' = rows
     /\ batch' = [batch EXCEPT ![b] =
                    Recounted([AbsentBatch EXCEPT !.status = "pending"], rows, b)]
     /\ UNCHANGED <<documents, hasCredentials, call, calls, clock, overlapped,
                    wk, session, stopRequested, restarts>>

(* POST and DELETE /catasto/credentials, one short transaction each.       *)
ChangeCredentials(u) ==
  /\ calls < MaxCalls
  /\ calls' = calls + 1
  /\ hasCredentials' = [hasCredentials EXCEPT ![u] = ~@]
  /\ UNCHANGED <<batch, request, documents, call, clock, overlapped, wk,
                 session, stopRequested, restarts>>

-----------------------------------------------------------------------------
(* The worker.                                                             *)

Pcs == {"down",      \* not running, or recovering what the last one left
        "idle",      \* run: polling for a batch
        "taken",     \* _next_batch_id returned an id
        "refuse",    \* _process_batch: no credentials found
        "auth",      \* _process_batch: browser started, logging in
        "loop",      \* _process_batch: head of the request loop
        "begin",     \* _next_request_id returned an id
        "flow",      \* execute_visura_flow before the manual CAPTCHA
        "ask",       \* _wait_for_manual_captcha, not yet waiting
        "wait",      \* _wait_for_manual_captcha
        "submit",    \* a manual solution goes to the portal
        "persist",   \* a flow result is in hand
        "fail",      \* an exception has reached _process_batch
        "finalize"}  \* _next_request_id returned None

(* Where the worker is about to write rows it reads first.                 *)
Writing == {"down", "begin", "ask", "persist", "fail", "finalize"}

(* The worker has taken wk.batch / has wk.req in its hands.                *)
HoldsBatch == wk.pc \notin {"down", "idle"}
HoldsRequest == wk.pc \in {"begin", "flow", "ask", "wait", "submit", "persist"}

Results == {"none", "completed", "failed", "skipped"}

WorkerRecord == [pc : Pcs,
                 batch : Batches \cup {None},
                 req : Requests \cup {None},
                 result : Results,   \* VisuraFlowResult.status
                 late : BOOLEAN]     \* the local CAPTCHA deadline has passed

WorkerAt(pc) == [pc |-> pc, batch |-> None, req |-> None, result |-> "none",
                 late |-> FALSE]

SessionRecord == [open : BOOLEAN, row : BatchRow, rows : [Requests -> RequestRow]]
NoSession == [open |-> FALSE, row |-> AbsentBatch, rows |-> Unread]

(* What a worker step leaves alone.                                        *)
WorkerOnly ==
  UNCHANGED <<hasCredentials, call, calls, clock, overlapped, stopRequested,
              restarts>>
NothingWritten == UNCHANGED <<batch, request, documents, session>>

(* The rows the worker's session is about: at boot, all of them.           *)
InScope == IF wk.pc = "down" THEN Requests ELSE RequestsOf(wk.batch)

ReadTables ==
  /\ wk.pc \in Writing
  /\ ~session.open
  /\ session' = [open |-> TRUE,
                 row |-> IF wk.pc = "down" THEN AbsentBatch ELSE batch[wk.batch],
                 rows |-> ReadRows(InScope)]
  /\ WorkerOnly
  /\ UNCHANGED <<batch, request, documents, wk>>

(* The commit of what the session has read, given its new values.          *)
Save(newRows, newRow) ==
  /\ session.open
  /\ session' = NoSession
  /\ request' = [r \in Requests |->
                   IF r \in InScope
                   THEN FlushRequest(request[r], session.rows[r], newRows[r])
                   ELSE request[r]]
  /\ batch' = IF wk.pc = "down" THEN batch
              ELSE [batch EXCEPT ![wk.batch] = FlushBatch(@, session.row, newRow)]

(* The one row in hand, and the counters of its batch.                     *)
SaveRequest(new) ==
  LET rows == [session.rows EXCEPT ![wk.req] = new]
  IN Save(rows, Recounted(session.row, rows, wk.batch))

RecoveredRow_LeavesProcessing(row) == row

RecoveredRow(row) ==
  IF row.status = "processing" THEN [row EXCEPT !.status = "pending"] ELSE row

Boot ==
  /\ wk.pc = "down"
  /\ Save([r \in Requests |-> RecoveredRow(session.rows[r])], session.row)
  /\ wk' = WorkerAt("idle")
  /\ stopRequested' = FALSE
  /\ UNCHANGED <<documents, hasCredentials, call, calls, clock, overlapped,
                 restarts>>

TakeBatch(b) ==
  /\ wk.pc = "idle"
  /\ ~stopRequested
  /\ batch[b].status = "processing"
  /\ \A o \in Batches : batch[o].status = "processing"
                          => batch[b].startedAt <= batch[o].startedAt
  /\ wk' = [wk EXCEPT !.pc = "taken", !.batch = b]
  /\ WorkerOnly /\ NothingWritten

OpenBatch ==
  /\ wk.pc = "taken"
  /\ wk' = [wk EXCEPT !.pc = IF hasCredentials[OwnerOf[wk.batch]] THEN "auth"
                                                                  ELSE "refuse"]
  /\ WorkerOnly /\ NothingWritten

(* One column, written whatever it has become meanwhile.                   *)
RefuseBatch ==
  /\ wk.pc = "refuse"
  /\ batch' = [batch EXCEPT ![wk.batch].status = "failed"]
  /\ wk' = WorkerAt("idle")
  /\ WorkerOnly
  /\ UNCHANGED <<request, documents, session>>

Authenticate ==
  /\ wk.pc = "auth"
  /\ wk' = [wk EXCEPT !.pc = "loop"]
  /\ WorkerOnly /\ NothingWritten

Eligible_ForgetsExpired(row) ==
  \/ row.status \in {"pending", "processing"}
  \/ row.status = "awaiting_captcha" /\ (row.skip \/ row.solution)

Eligible(row) ==
  \/ row.status \in {"pending", "processing"}
  \/ /\ row.status = "awaiting_captcha"
     /\ row.skip \/ row.solution \/ row.expiry = "past"

(* The worker stays in "loop", sleeping, while the only rows left wait for *)
(* a CAPTCHA answer that has not come.                                     *)
PickRequest(r) ==
  /\ wk.pc = "loop"
  /\ ~stopRequested
  /\ BatchOf[r] = wk.batch
  /\ Eligible(request[r])
  /\ \A q \in RequestsOf(wk.batch) :
       Eligible(request[q]) => RowIndex[r] <= RowIndex[q]
  /\ wk' = [wk EXCEPT !.pc = "begin", !.req = r]
  /\ WorkerOnly /\ NothingWritten

NoRequestLeft ==
  /\ wk.pc = "loop"
  /\ ~stopRequested
  /\ \A r \in RequestsOf(wk.batch) : request[r].status \notin Active
  /\ wk' = [wk EXCEPT !.pc = "finalize"]
  /\ WorkerOnly /\ NothingWritten

ClosingStatus_Timeout(row) ==
  IF row.status # "awaiting_captcha" \/ row.solution THEN "none"
  ELSE IF row.expiry = "past" THEN "timeout"
  ELSE IF row.skip THEN "skipped" ELSE "none"

(* _process_request closes an AWAITING row that needs no flow: the         *)
(* deadline is looked at before the skip, a solution before both.          *)
ClosingStatus(row) ==
  IF row.status # "awaiting_captcha" \/ row.solution THEN "none"
  ELSE IF row.expiry = "past" THEN "failed"
  ELSE IF row.skip THEN "skipped" ELSE "none"

CloseRequest ==
  LET row == session.rows[wk.req]
  IN /\ wk.pc = "begin"
     /\ ClosingStatus(row) # "none"
     /\ SaveRequest([row EXCEPT !.status = ClosingStatus(row)])
     /\ wk' = [wk EXCEPT !.pc = "loop", !.req = None]
     /\ WorkerOnly
     /\ UNCHANGED documents

BeginRequest ==
  LET row == session.rows[wk.req]
  IN /\ wk.pc = "begin"
     /\ ClosingStatus(row) = "none"
     /\ Save([session.rows EXCEPT ![wk.req] = [row EXCEPT !.status = "processing"]],
             session.row)
     /\ wk' = [wk EXCEPT !.pc = "flow"]
     /\ WorkerOnly
     /\ UNCHANGED documents

(* OCR or the external service solved the CAPTCHA and the PDF is saved, or *)
(* neither has, and a person is asked.                                     *)
FlowCompletes ==
  /\ wk.pc = "flow"
  /\ wk' = [wk EXCEPT !.pc = "persist", !.result = "completed"]
  /\ WorkerOnly /\ NothingWritten

FlowNeedsAnswer ==
  /\ wk.pc = "flow"
  /\ wk' = [wk EXCEPT !.pc = "ask"]
  /\ WorkerOnly /\ NothingWritten

(* The new deadline differs from any the row had.                          *)
AskedRow(row) ==
  [row EXCEPT !.status = "awaiting_captcha", !.solution = FALSE, !.skip = FALSE]

AskManualCaptcha ==
  LET r == wk.req
      row == session.rows[r]
  IN /\ wk.pc = "ask"
     /\ session.open
     /\ session' = NoSession
     /\ request' = [request EXCEPT ![r] =
                      [FlushRequest(@, row, AskedRow(row)) EXCEPT !.expiry = "future"]]
     /\ wk' = [wk EXCEPT !.pc = "wait", !.late = FALSE]
     /\ WorkerOnly
     /\ UNCHANGED <<batch, documents>>

PollAnswer ==
  LET row == request[wk.req]
  IN /\ wk.pc = "wait"
     /\ ~wk.late /\ ~stopRequested
     /\ row.skip \/ row.solution
     /\ wk' = IF row.skip
              THEN [wk EXCEPT !.pc = "persist", !.result = "skipped"]
              ELSE [wk EXCEPT !.pc = "submit"]
     /\ WorkerOnly /\ NothingWritten

GiveUpWaiting ==
  /\ wk.pc = "wait"
  /\ wk.late \/ stopRequested
  /\ wk' = [wk EXCEPT !.pc = "persist", !.result = "failed"]
  /\ WorkerOnly /\ NothingWritten

SubmitSolution ==
  /\ wk.pc = "submit"
  /\ \E accepted \in BOOLEAN :
       wk' = [wk EXCEPT !.pc = "persist",
                        !.result = IF accepted THEN "completed" ELSE "failed"]
  /\ WorkerOnly /\ NothingWritten

(* The documents table allows one row per request_id.                      *)
FilingConflicts ==
  wk.pc = "persist" /\ session.open /\ wk.result = "completed" /\ wk.req \in documents

PersistedRow_ForgetsManualDocument(row, result) ==
  [row EXCEPT !.status = result,
              !.document = (result = "completed" /\ ~row.solution) \/ @,
              !.solution = FALSE,
              !.skip = FALSE]

PersistedRow(row, result) ==
  [row EXCEPT !.status = result,
              !.document = result = "completed" \/ @,
              !.solution = FALSE,
              !.skip = FALSE]

PersistResult ==
  /\ wk.pc = "persist"
  /\ ~FilingConflicts
  /\ SaveRequest(PersistedRow(session.rows[wk.req], wk.result))
  /\ documents' = IF wk.result = "completed" THEN documents \cup {wk.req} ELSE documents
  /\ wk' = [wk EXCEPT !.pc = "loop", !.req = None, !.result = "none", !.late = FALSE]
  /\ WorkerOnly

(* The login failed, a page call of the flow failed (Chromium gone         *)
(* included), or filing hit the constraint: the transaction is undone.     *)
RaiseException ==
  /\ wk.pc \in {"auth", "flow", "submit"} \/ FilingConflicts
  /\ wk' = [wk EXCEPT !.pc = "fail"]
  /\ session' = NoSession
  /\ WorkerOnly
  /\ UNCHANGED <<batch, request, documents>>

FailedRow(row) ==
  IF row.status \in Active
  THEN [row EXCEPT !.status = "failed", !.solution = FALSE, !.skip = FALSE]
  ELSE row

FailBatch ==
  LET rows == [r \in Requests |-> FailedRow(session.rows[r])]
  IN /\ wk.pc = "fail"
     /\ Save(rows, Recounted([session.row EXCEPT !.status = "failed"], rows, wk.batch))
     /\ wk' = WorkerAt("idle")
     /\ WorkerOnly
     /\ UNCHANGED documents

Verdict_IgnoresPending(row, rows, b) ==
  IF row.failed # 0 THEN "failed" ELSE "completed"

Verdict(row, rows, b) ==
  LET Has(s) == \E r \in RequestsOf(b) : rows[r].status = s
  IN IF \A r \in RequestsOf(b) : rows[r].status \in {"completed", "skipped"}
     THEN "completed"
     ELSE IF Has("pending") THEN "processing"
     ELSE IF row.failed # 0 THEN "failed" ELSE "completed"

FinalizeBatch ==
  LET row == Recounted(session.row, session.rows, wk.batch)
  IN /\ wk.pc = "finalize"
     /\ Save(session.rows,
             [row EXCEPT !.status = Verdict(row, session.rows, wk.batch)])
     /\ wk' = WorkerAt("idle")
     /\ WorkerOnly
     /\ UNCHANGED documents

(* run and _process_batch look at the flag at the head of their loops.     *)
StopGracefully ==
  /\ wk.pc \in {"idle", "loop"}
  /\ stopRequested
  /\ wk' = WorkerAt("down")
  /\ WorkerOnly /\ NothingWritten

-----------------------------------------------------------------------------
(* The environment: time, signals and crashes.                             *)

WaitsFor(r) == wk.pc = "wait" /\ wk.req = r

DeadlinePasses(r) ==
  /\ request[r].expiry = "future" \/ (WaitsFor(r) /\ ~wk.late)
  /\ request' = [request EXCEPT ![r].expiry = IF @ = "future" THEN "past" ELSE @]
  /\ wk' = [wk EXCEPT !.late = @ \/ WaitsFor(r)]
  /\ UNCHANGED <<batch, documents, hasCredentials, call, calls, clock,
                 overlapped, session, stopRequested, restarts>>

RequestStop ==
  /\ wk.pc # "down"
  /\ ~stopRequested
  /\ restarts < MaxRestarts
  /\ restarts' = restarts + 1
  /\ stopRequested' = TRUE
  /\ UNCHANGED <<tables, call, calls, clock, overlapped, wk, session>>

Crash ==
  /\ wk.pc # "down" \/ session.open
  /\ restarts < MaxRestarts
  /\ restarts' = restarts + 1
  /\ wk' = WorkerAt("down")
  /\ session' = NoSession
  /\ UNCHANGED <<tables, call, calls, clock, overlapped, stopRequested>>

-----------------------------------------------------------------------------
Init ==
  /\ batch = [b \in Batches |-> AbsentBatch]
  /\ request = [r \in Requests |-> AbsentRequest]
  /\ documents = {}
  /\ hasCredentials \in [Users -> BOOLEAN]
  /\ call = [h \in Handlers |-> NoCall]
  /\ calls = 0
  /\ clock = 0
  /\ overlapped = FALSE
  /\ wk = WorkerAt("down")
  /\ session = NoSession
  /\ stopRequested = FALSE
  /\ restarts = 0

Read(h) ==
  \/ \E b \in Batches : ReadStart(h, b) \/ ReadCancel(h, b) \/ ReadRetry(h, b)
  \/ \E r \in Requests, op \in {"solve", "skip"} : ReadCaptchaAnswer(h, r, op)

Commit(h) ==
  \/ CommitStart(h)
  \/ CommitCancel(h)
  \/ CommitRetry(h)
  \/ CommitSolve(h)
  \/ CommitSkip(h)

WorkerStep ==
  \/ ReadTables
  \/ Boot
  \/ \E b \in Batches : TakeBatch(b)
  \/ OpenBatch
  \/ RefuseBatch
  \/ Authenticate
  \/ \E r \in Requests : PickRequest(r)
  \/ NoRequestLeft
  \/ CloseRequest
  \/ BeginRequest
  \/ FlowCompletes
  \/ FlowNeedsAnswer
  \/ AskManualCaptcha
  \/ PollAnswer
  \/ GiveUpWaiting
  \/ SubmitSolution
  \/ PersistResult
  \/ RaiseException
  \/ FailBatch
  \/ FinalizeBatch
  \/ StopGracefully

Next ==
  \/ \E h \in Handlers : Read(h) \/ Commit(h)
  \/ \E b \in Batches, S \in SUBSET Requests : S \subseteq RequestsOf(b) /\ CreateBatch(b, S)
  \/ \E u \in Users : ChangeCredentials(u)
  \/ WorkerStep
  \/ \E r \in Requests : DeadlinePasses(r)
  \/ RequestStop
  \/ Crash

Spec == Init /\ [][Next]_vars

(* A request thread runs to its end, the worker runs while it is up and is *)
(* restarted when it is down (restart: unless-stopped), time passes.       *)
FairSpec ==
  /\ Spec
  /\ \A h \in Handlers : WF_vars(Commit(h))
  /\ WF_vars(WorkerStep)
  /\ \A r \in Requests : WF_vars(DeadlinePasses(r))
-----------------------------------------------------------------------------
(* The tables, the calls and the locals of the worker are of the types the *)
(* code gives them.                                                        *)
TypeOK ==
  /\ batch \in [Batches -> BatchRow]
  /\ request \in [Requests -> RequestRow]
  /\ documents \subseteq Requests
  /\ hasCredentials \in [Users -> BOOLEAN]
  /\ call \in [Handlers -> CallRecord]
  /\ calls \in Nat
  /\ clock \in Nat
  /\ overlapped \in BOOLEAN
  /\ wk \in WorkerRecord
  /\ session \in SessionRecord
  /\ stopRequested \in BOOLEAN
  /\ restarts \in Nat

(* A PROCESSING row is the one the running worker is executing, or one     *)
(* that a dead worker left for recovery: no row is ever stuck PROCESSING   *)
(* under a worker that has moved on, and two are never executed at once.   *)
ProcessingIsOwned ==
  \A r \in Requests :
    request[r].status = "processing" =>
      wk.pc = "down" \/ (wk.req = r /\ wk.pc \in {"flow", "ask", "persist", "fail"})

(* Whatever calls overlap, a COMPLETED row has its document_id, and the    *)
(* document is in the archive.                                             *)
CompletedHasDocument ==
  \A r \in Requests :
    request[r].status = "completed" => request[r].document /\ r \in documents

Settled(b) ==
  /\ \A r \in RequestsOf(b) : request[r].status \in {"completed", "skipped"}
  /\ Recounted(batch[b], request, b) = batch[b]
  /\ ~(HoldsBatch /\ wk.batch = b)

(* Unless some call committed over rows that had changed under it, a       *)
(* COMPLETED batch has only completed and skipped rows, counters that      *)
(* agree with them, and is not in the worker's hands.                      *)
CompletedBatchIsSettled ==
  overlapped \/ \A b \in Batches : batch[b].status = "completed" => Settled(b)

Emptied(b) ==
  /\ \A r, q \in RequestsOf(b) :
       request[r].status \in Active /\ request[q].status \in Active => r = q
  /\ HoldsRequest /\ wk.batch = b =>
       \A r \in RequestsOf(b) : request[r].status \in Active => r = wk.req

(* Unless calls overlapped, cancelling leaves at most one row of the batch *)
(* alive: the one the worker had picked.  Nothing else of the queue runs.  *)
CancelEmptiesQueue ==
  overlapped \/ \A b \in Batches : batch[b].status = "cancelled" => Emptied(b)

(* No step but an overlapping commit takes a row out of COMPLETED: not the *)
(* recovery at boot, not the failure of a whole batch, not a retry.        *)
CompletedRowsStay ==
  [][\A r \in Requests :
       request[r].status = "completed" /\ ~overlapped'
         => request'[r].status = "completed"]_vars

(* Every started batch is eventually completed, failed or cancelled: no    *)
(* WAIT for a CAPTCHA and no restart keeps it PROCESSING for ever.         *)
StartedBatchEnds ==
  \A b \in Batches :
    batch[b].status = "processing" ~> batch[b].status # "processing"

-----------------------------------------------------------------------------
(* The promise to the owner of a batch, and this system as one way to keep *)
(* it: a request stands for an order, its status for the order's phase.    *)

PhaseOf(status) ==
  IF status = "completed" THEN "delivered"
  ELSE IF status \in Active THEN "open" ELSE status

Orders == INSTANCE VisuraOrders WITH
            Orders <- Requests,
            phase <- [r \in Requests |-> PhaseOf(request[r].status)],
            filed <- documents,
            finished <- {b \in Batches : batch[b].status = "completed"},
            disturbed <- overlapped

(* Whatever threads, crashes, stops and CAPTCHAs do: no document is filed  *)
(* twice or lost, a delivered request stays delivered, only failed ones    *)
(* are asked for again, and a COMPLETED batch, with nothing left to do, is *)
(* never touched again; until a call commits over changed rows.            *)
OrdersAreKept == Orders!Spec

-----------------------------------------------------------------------------
(* The inductive invariant behind the properties above.                    *)

(* A call carries the batch or the request that its operation is about,    *)
(* and the batch exists.                                                   *)
CallsAreBound ==
  \A h \in Handlers :
    /\ call[h].op \in {"start", "cancel", "retry"} =>
         call[h].batch \in Batches /\ batch[call[h].batch].status # "absent"
    /\ call[h].op \in {"solve", "skip"} => call[h].req \in Requests

(* What a call has read is what its guards let through.                    *)
GuardsWereMet ==
  \A h \in Handlers :
    LET c == call[h]
    IN /\ c.op = "cancel" => c.row.status \notin {"absent", "completed", "cancelled"}
       /\ c.op = "retry" =>
            /\ c.row.status \notin {"absent", "processing"}
            /\ \E r \in RequestsOf(c.batch) : c.rows[r].status = "failed"

(* A batch and its rows come to exist together.                            *)
RowsExist ==
  \A r \in Requests :
    (batch[BatchOf[r]].status = "absent") <=> (request[r].status = "absent")

(* A document_id names a filed document, and a retry that would erase it   *)
(* read the row after its one filing: the row is not COMPLETED any more.   *)
DocumentsAreFiled ==
  /\ \A r \in Requests : request[r].document => r \in documents
  /\ \A h \in Handlers, r \in Requests :
       /\ call[h].op = "retry"
       /\ call[h].rows[r].status = "failed"
       /\ call[h].rows[r].document
       => r \in documents /\ request[r].status # "completed"

(* What the worker holds is a batch not COMPLETED and a row of that batch  *)
(* not COMPLETED; about to finalize, it has left no row in execution.      *)
WorkerHoldsOpenWork ==
  /\ HoldsBatch => /\ wk.batch \in Batches
                   /\ batch[wk.batch].status \notin {"absent", "completed"}
  /\ HoldsRequest => /\ wk.req \in Requests
                     /\ BatchOf[wk.req] = wk.batch
                     /\ request[wk.req].status # "completed"
  /\ wk.pc = "finalize" =>
       \A r \in RequestsOf(wk.batch) :
         request[r].status \notin {"processing", "awaiting_captcha"}
  /\ wk.pc = "persist" => wk.result \in {"completed", "failed", "skipped"}
  /\ wk.pc = "fail" =>
       \A r \in Requests : request[r].status = "processing" => BatchOf[r] = wk.batch

(* Rows the worker has read and those now in the tables: since the read,   *)
(* calls have at most answered, skipped or asked again.                    *)
SessionIsRecent ==
  session.open =>
    /\ wk.pc \in Writing
    /\ wk.pc # "down" => session.row.status \notin {"absent", "completed"}
    /\ HoldsRequest => session.rows[wk.req].status # "completed"
    /\ wk.pc = "finalize" =>
         \A r \in RequestsOf(wk.batch) :
           session.rows[r].status \in {"completed", "failed", "skipped", "pending"}
    /\ \A r \in InScope :
         LET seen == session.rows[r]
         IN /\ request[r].status \in {"processing", "awaiting_captcha", "completed"}
                 => seen.status = request[r].status
            /\ seen.status \in Active => request[r].status \in Active \cup {"skipped"}
            /\ seen.document => r \in documents

(* One row at most is in execution, and the worker has read of no other.   *)
OneInExecution ==
  \A r, q \in Requests :
    /\ request[r].status = "processing" /\ request[q].status = "processing" => r = q
    /\ session.open /\ session.rows[r].status = "processing"
       /\ session.rows[q].status = "processing" => r = q

(* Unless calls overlapped, none completed or cancelled the batch of a row *)
(* to be recovered but kept that row as its last; and the rows of a batch  *)
(* read as done are still done, its counters those read or those due.      *)
RecoveryIsDue ==
  session.open /\ wk.pc = "down" =>
    \A r \in Requests :
      session.rows[r].status = "processing" =>
        /\ batch[BatchOf[r]].status # "completed"
        /\ batch[BatchOf[r]].status = "cancelled" =>
             \A q \in RequestsOf(BatchOf[r]) : request[q].status \in Active => q = r

VerdictIsDue ==
  LET b == wk.batch
      due == Recounted(session.row, session.rows, b)
  IN session.open /\ wk.pc = "finalize"
     /\ (\A r \in RequestsOf(b) : session.rows[r].status \in {"completed", "skipped"}) =>
       /\ \A r \in RequestsOf(b) : request[r].status = session.rows[r].status
       /\ batch[b].completed \in {session.row.completed, due.completed}
       /\ batch[b].failed \in {session.row.failed, due.failed}
       /\ batch[b].skipped \in {session.row.skipped, due.skipped}

WritesAreDue == overlapped \/ (RecoveryIsDue /\ VerdictIsDue)

(* What every step of a call, of the worker and of the environment keeps:  *)
(* types, the safety properties, and what they rest on.                    *)
IInv ==
  /\ TypeOK
  /\ CallsAreBound
  /\ RowsExist
  /\ WorkerHoldsOpenWork
  /\ ProcessingIsOwned
  /\ DocumentsAreFiled
  /\ CompletedHasDocument
  /\ CompletedBatchIsSettled
  /\ CancelEmptiesQueue
  /\ SessionIsRecent
  /\ OneInExecution
  /\ WritesAreDue

-----------------------------------------------------------------------------
(* What the product document says of the queue, and the code does not do.  *)

(* PRD: one batch at a time per user.                                      *)
OneBatchPerUser ==
  \A b, o \in Batches :
    batch[b].status = "processing" /\ batch[o].status = "processing"
    /\ OwnerOf[b] = OwnerOf[o] => b = o

(* PRD: on shutdown the worker completes the current visura, then stops.   *)
(* A row whose CAPTCHA deadline is still open is not given up.             *)
ShutdownCompletesCurrent ==
  [][(wk.pc = "wait" /\ ~wk.late) => wk'.result # "failed"]_vars
=============================================================================
