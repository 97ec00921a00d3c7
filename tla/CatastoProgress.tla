---------------------------- MODULE CatastoProgress ----------------------------
(***************************************************************************)
(* The progress feed of a batch (modules/catasto/routes.py,                *)
(* batch_updates_websocket): a coroutine that polls the tables of          *)
(* CatastoBatches and pushes what changed, until it has seen the batch in  *)
(* a terminal status.  Each poll reads the batch and then its requests, in *)
(* two statements that the worker and the API calls may commit between.    *)
(*                                                                         *)
(* Of the messages, those of a delivered document and of the end of the    *)
(* batch are kept; progress texts and captcha_needed are left out, and so  *)
(* is the comparison with the last poll, which only spares repetitions.    *)
(***************************************************************************)
EXTENDS CatastoBatches

VARIABLE feed      \* one client's feed

progressVars == <<vars, feed>>

FeedRecord == [pc : {"closed", "poll", "rows", "over"},
               batch : Batches \cup {None},
               row : BatchRow,                 \* the batch as this poll read it
               announced : SUBSET Requests]    \* visura_completed sent

NoFeed == [pc |-> "closed", batch |-> None, row |-> AbsentBatch, announced |-> {}]

Terminal == {"completed", "failed", "cancelled"}

OpenFeed(b) ==
  /\ feed.pc = "closed"
  /\ batch[b].status # "absent"
  /\ feed' = [NoFeed EXCEPT !.pc = "poll", !.batch = b]
  /\ UNCHANGED vars

PollBatch ==
  /\ feed.pc = "poll"
  /\ feed' = [feed EXCEPT !.pc = "rows", !.row = batch[feed.batch]]
  /\ UNCHANGED vars

Delivered(b) ==
  {r \in RequestsOf(b) : request[r].status = "completed" /\ request[r].document}

(* Sends what is new, then batch_completed with the counters of the batch  *)
(* row read before, and returns; or sleeps and polls again.                *)
PollRequests_EndFirst ==
  /\ feed.pc = "rows"
  /\ feed' = IF feed.row.status \in Terminal
             THEN [feed EXCEPT !.pc = "over"]
             ELSE [feed EXCEPT !.announced = @ \cup Delivered(feed.batch), !.pc = "poll"]
  /\ UNCHANGED vars

PollRequests_CancelledGoesOn ==
  /\ feed.pc = "rows"
  /\ feed' = [feed EXCEPT
                !.announced = @ \cup Delivered(feed.batch),
                !.pc = IF feed.row.status \in {"completed", "failed"} THEN "over"
                                                                    ELSE "poll"]
  /\ UNCHANGED vars

PollRequests ==
  /\ feed.pc = "rows"
  /\ feed' = [feed EXCEPT
                !.announced = @ \cup Delivered(feed.batch),
                !.pc = IF feed.row.status \in Terminal THEN "over" ELSE "poll"]
  /\ UNCHANGED vars

(* The client goes away, or has read the end; it may come back.            *)
CloseFeed ==
  /\ feed.pc # "closed"
  /\ feed' = NoFeed
  /\ UNCHANGED vars

ProgressInit == Init /\ feed = NoFeed

ProgressNext ==
  \/ Next /\ UNCHANGED feed
  \/ \E b \in Batches : OpenFeed(b)
  \/ PollBatch
  \/ PollRequests
  \/ CloseFeed

ProgressSpec == ProgressInit /\ [][ProgressNext]_progressVars

(* The fairness of CatastoBatches, and a coroutine that goes on polling.   *)
FairProgressSpec ==
  /\ ProgressSpec
  /\ \A h \in Handlers : WF_vars(Commit(h))
  /\ WF_vars(WorkerStep)
  /\ \A r \in Requests : WF_vars(DeadlinePasses(r))
  /\ WF_progressVars(PollBatch \/ PollRequests)

-----------------------------------------------------------------------------
(* The feed is of a batch that exists.                                     *)
FeedTypeOK ==
  /\ feed \in FeedRecord
  /\ feed.pc # "closed" => /\ feed.batch \in Batches
                           /\ batch[feed.batch].status # "absent"

(* When a feed ends, it has announced at least the documents it counts,    *)
(* and if it ends with COMPLETED it has told everything: the batch is      *)
(* still COMPLETED and every document in it has been announced; unless     *)
(* some call committed over rows that had changed under it.                *)
FeedsTellAll ==
  overlapped \/
    (feed.pc = "over" =>
       /\ Cardinality(feed.announced) >= feed.row.completed
       /\ feed.row.status = "completed" =>
            /\ batch[feed.batch].status = "completed"
            /\ feed.announced = Delivered(feed.batch))

(* A client that stays is told the end: whoever follows a batch that runs  *)
(* gets batch_completed, unless the batch is asked for again before the    *)
(* feed has looked, and is then left PENDING.                              *)
FeedsEnd ==
  \A b \in Batches :
    feed.pc \in {"poll", "rows"} /\ feed.batch = b /\ batch[b].status = "processing"
      ~> feed.pc \in {"closed", "over"} \/ batch[b].status = "pending"

-----------------------------------------------------------------------------
(* The inductive invariant behind FeedsTellAll.                            *)

(* A batch never counts more documents than its requests have.             *)
CountersAreFounded ==
  overlapped \/ \A b \in Batches :
    batch[b].completed <= CountedAs("completed", request, b)

(* A row that the worker has read as COMPLETED still is.                   *)
ReadCompletedStays ==
  overlapped \/ \A r \in Requests :
    session.rows[r].status = "completed" => request[r].status = "completed"

(* What a feed has read and told is still so.                              *)
FeedIsTrue ==
  overlapped \/
    LET b == feed.batch
    IN /\ feed.pc # "closed" => feed.announced \subseteq Delivered(b)
       /\ feed.pc \in {"rows", "over"} =>
            /\ feed.row.completed <= CountedAs("completed", request, b)
            /\ feed.row.status = "completed" => batch[b].status = "completed"

(* What every step keeps once a feed follows a batch.                      *)
ProgressIInv ==
  /\ IInv
  /\ GuardsWereMet
  /\ ReadCompletedStays
  /\ CountersAreFounded
  /\ FeedTypeOK
  /\ FeedIsTrue
  /\ FeedsTellAll
=============================================================================
