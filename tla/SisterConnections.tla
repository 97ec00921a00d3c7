-------------------------- MODULE SisterConnections --------------------------
(***************************************************************************)
(* The SISTER credentials of the users, the tests of them that the API     *)
(* queues (backend/app/services/catasto_credentials.py), and the worker    *)
(* that serves the tests before the batches and logs in to the portal      *)
(* (modules/catasto/worker/worker.py, browser_session.py).                 *)
(*                                                                         *)
(* An API call reads, then commits; the tables are not locked in between.  *)
(* The portal answers as it likes: a page call may time out or fail, and   *)
(* the page may at any time say that the account is in use elsewhere.      *)
(*                                                                         *)
(* Abstracted away: what a batch does once its login is over (module       *)
(* CatastoBatches), office, agreement and messages, the privacy notice,    *)
(* the traces and debug artefacts, and the deletion of an account.         *)
(***************************************************************************)
EXTENDS Naturals

CONSTANTS
  Users,
  Secrets,      \* username and password pairs the users may type in
  Right,        \* those the portal knows
  Handlers,     \* threads serving API calls
  None,
  MaxTests,     \* bound: connection tests queued in one behaviour
  MaxCalls,     \* bound: API calls begun in one behaviour
  MaxRestarts   \* bound: crashes of the worker in one behaviour

ASSUME ConnectionsAssumption ==
  /\ Right \subseteq Secrets
  /\ None \notin Users \cup Secrets
  /\ MaxTests \in Nat /\ MaxCalls \in Nat /\ MaxRestarts \in Nat

VARIABLES
  credential,   \* catasto_credentials, one row per user at most
  issued,       \* row ids of catasto_credentials handed out so far
  tests,        \* catasto_connection_tests, in the order of created_at
  queued,       \* how many of them exist
  call,         \* per handler: the call it serves and what it has read
  calls,        \* calls begun so far
  accepted,     \* the pairs the portal has let in so far
  batch,        \* a batch in the worker's queue
  wk,           \* the worker's control state and locals
  login,        \* the state of BrowserSession.login
  restarts      \* crashes so far

store == <<credential, issued, tests, queued>>
vars == <<credential, issued, tests, queued, call, calls, accepted, batch, wk,
          login, restarts>>

Ids == Nat                          \* 0 is NULL
TestIds == 1 .. MaxTests

(* had: every pair the row has held since it was inserted. *)
CredentialRow == [id : Ids, secret : Secrets \cup {None}, verified : BOOLEAN,
                  had : SUBSET Secrets]
NoCredential == [id |-> 0, secret |-> None, verified |-> FALSE, had |-> {}]

TestStatus == {"absent", "pending", "processing", "completed", "failed"}
TestRow == [status : TestStatus, user : Users \cup {None}, cred : Ids,
            secret : Secrets \cup {None}, persist : BOOLEAN]
AbsentTest == [status |-> "absent", user |-> None, cred |-> 0, secret |-> None,
               persist |-> FALSE]

------------------------------------------------------------------------------
(* The API calls. *)

Operations == {"none", "save", "drop", "test_saved", "test_typed"}
CallRecord == [op : Operations, user : Users \cup {None},
               secret : Secrets \cup {None}, seen : CredentialRow]
NoCall == [op |-> "none", user |-> None, secret |-> None, seen |-> NoCredential]

WorkerUntouched == UNCHANGED <<accepted, batch, wk, login, restarts>>

Begin(h, op, u, secret) ==
  /\ call[h].op = "none"
  /\ calls < MaxCalls /\ calls' = calls + 1
  /\ call' = [call EXCEPT ![h] = [op |-> op, user |-> u, secret |-> secret,
                                  seen |-> credential[u]]]
  /\ UNCHANGED store /\ WorkerUntouched

Exists(u) == credential[u].id # 0

ReadForSave(h, u, secret) == Begin(h, "save", u, secret)
ReadForDrop(h, u) == Exists(u) /\ Begin(h, "drop", u, None)
ReadForSavedTest(h, u) == Exists(u) /\ Begin(h, "test_saved", u, None)
ReadForTypedTest(h, u, secret) == Begin(h, "test_typed", u, secret)

Ends(h) == call' = [call EXCEPT ![h] = NoCall] /\ UNCHANGED calls /\ WorkerUntouched

(* The row read is still there. *)
SameRow(c) == credential[c.user].id = c.seen.id

(* verified_at is kept when the pair changes. *)
Saved(row, secret) == [row EXCEPT !.secret = secret, !.had = @ \cup {secret}]

CommitSave(h) ==
  LET c == call[h]
      new == [NoCredential EXCEPT !.id = issued + 1]
  IN  /\ c.op = "save"
      /\ SameRow(c)
      /\ credential' = [credential EXCEPT ![c.user] =
                          Saved(IF c.seen.id = 0 THEN new ELSE @, c.secret)]
      /\ issued' = IF c.seen.id = 0 THEN issued + 1 ELSE issued
      /\ UNCHANGED <<tests, queued>>
      /\ Ends(h)

(* ON DELETE SET NULL. *)
CommitDrop(h) ==
  LET c == call[h]
  IN  /\ c.op = "drop"
      /\ SameRow(c)
      /\ credential' = [credential EXCEPT ![c.user] = NoCredential]
      /\ tests' = [t \in TestIds |-> IF tests[t].cred = c.seen.id
                                       THEN [tests[t] EXCEPT !.cred = 0] ELSE tests[t]]
      /\ UNCHANGED <<issued, queued>>
      /\ Ends(h)

QueuedTest_StampsTyped(c) ==
  [status |-> "pending", user |-> c.user, cred |-> c.seen.id,
   secret |-> IF c.op = "test_saved" THEN c.seen.secret ELSE c.secret,
   persist |-> TRUE]

QueuedTest(c) ==
  IF c.op = "test_saved"
    THEN [status |-> "pending", user |-> c.user, cred |-> c.seen.id,
          secret |-> c.seen.secret, persist |-> TRUE]
    ELSE [status |-> "pending", user |-> c.user, cred |-> 0,
          secret |-> c.secret, persist |-> FALSE]

(* The foreign key refuses a credential_id that is gone. *)
CommitTest(h) ==
  LET c == call[h]
  IN  /\ c.op \in {"test_saved", "test_typed"}
      /\ queued < MaxTests /\ queued' = queued + 1
      /\ QueuedTest(c).cred \in {0, credential[c.user].id}
      /\ tests' = [tests EXCEPT ![queued'] = QueuedTest(c)]
      /\ UNCHANGED <<credential, issued>>
      /\ Ends(h)

(* A constraint, a row that is gone, or a lost connection. *)
CallFails(h) ==
  /\ call[h].op # "none"
  /\ UNCHANGED store
  /\ Ends(h)

StartBatch ==
  /\ batch # "waiting"
  /\ calls < MaxCalls /\ calls' = calls + 1
  /\ batch' = "waiting"
  /\ UNCHANGED <<store, call, accepted, wk, login, restarts>>

------------------------------------------------------------------------------
(* The worker. *)

Pcs == {"down", "idle",
        "claimed",    \* _process_connection_test was called
        "started",    \* the row is PROCESSING, the browser is being started
        "probe",      \* test_connection is under way
        "probed",     \* its result is in hand
        "login"}      \* _process_batch: ensure_authenticated

WorkerRecord == [pc : Pcs, test : TestIds \cup {0}, secret : Secrets \cup {None},
                 authenticated : BOOLEAN]
WorkerAt(pc) == [pc |-> pc, test |-> 0, secret |-> None, authenticated |-> FALSE]

WorkerStays == UNCHANGED <<credential, issued, queued, call, calls, restarts>>
TestOnly == WorkerStays /\ UNCHANGED <<batch, login>>

Pending == {t \in TestIds : tests[t].status = "pending"}

Recovered_Everything(row) ==
  IF row.status \in {"processing", "failed"} THEN [row EXCEPT !.status = "pending"] ELSE row

Recovered(row) ==
  IF row.status = "processing" THEN [row EXCEPT !.status = "pending"] ELSE row

Boot ==
  /\ wk.pc = "down"
  /\ wk' = WorkerAt("idle")
  /\ tests' = [t \in TestIds |-> Recovered(tests[t])]
  /\ UNCHANGED accepted
  /\ TestOnly

ClaimTest(t) ==
  /\ wk.pc = "idle"
  /\ t \in Pending /\ \A other \in Pending : t <= other
  /\ wk' = [wk EXCEPT !.pc = "claimed", !.test = t]
  /\ UNCHANGED <<tests, accepted>>
  /\ TestOnly

BeginTest ==
  /\ wk.pc = "claimed"
  /\ wk' = [wk EXCEPT !.pc = "started"]
  /\ tests' = [tests EXCEPT ![wk.test].status = "processing"]
  /\ UNCHANGED accepted
  /\ TestOnly

OpenPortal ==
  /\ wk.pc = "started"
  /\ wk' = [wk EXCEPT !.pc = "probe", !.secret = tests[wk.test].secret]
  /\ UNCHANGED <<tests, accepted>>
  /\ TestOnly

(* The menu link appears, or it does not: wrong pair, account in use, page *)
(* late or unreachable.                                                    *)
Probe ==
  /\ wk.pc = "probe"
  /\ \/ /\ wk.secret \in Right
        /\ accepted' = accepted \cup {wk.secret}
        /\ wk' = [wk EXCEPT !.pc = "probed", !.authenticated = TRUE]
     \/ /\ wk' = [wk EXCEPT !.pc = "probed", !.authenticated = FALSE]
        /\ UNCHANGED accepted
  /\ UNCHANGED tests
  /\ TestOnly

Verified(row, test) ==
  IF test.persist /\ test.cred # 0 /\ row.id = test.cred
    THEN [row EXCEPT !.verified = TRUE] ELSE row

StampResult ==
  LET test == tests[wk.test]
  IN  /\ wk.pc = "probed"
      /\ tests' = [tests EXCEPT ![wk.test].status =
                     IF wk.authenticated THEN "completed" ELSE "failed"]
      /\ credential' = IF wk.authenticated
                         THEN [u \in Users |-> Verified(credential[u], test)]
                         ELSE credential
      /\ wk' = WorkerAt("idle")
      /\ UNCHANGED <<issued, queued, call, calls, restarts, accepted, batch, login>>

(* The browser does not start, the password cannot be decrypted. *)
TestFails ==
  /\ wk.pc = "started"
  /\ tests' = [tests EXCEPT ![wk.test].status = "failed"]
  /\ wk' = WorkerAt("idle")
  /\ UNCHANGED accepted
  /\ TestOnly

TakeBatch ==
  /\ wk.pc = "idle"
  /\ Pending = {}
  /\ batch = "waiting"
  /\ wk' = WorkerAt("login")
  /\ login' = [pc |-> "submit", frame |-> "outer", tries |-> 0, submits |-> 0,
               recoveries |-> 0]
  /\ UNCHANGED <<tests, accepted, batch>>
  /\ WorkerStays

------------------------------------------------------------------------------
(* BrowserSession.login.  A frame is a call of it: the outer one may       *)
(* recover a locked session; the inner one runs inside its try block, the  *)
(* last one inside one of its except blocks, both with                     *)
(* allow_session_recovery=False.                                           *)

MenuTries == 3
Frames == {"outer", "inner", "last"}

LoginPcs == {"none",
             "submit",       \* typing the pair in and awaiting the page after
             "menu",         \* _goto_visura_menu_with_retry
             "raised",       \* an exception reached the except blocks
             "close_try",    \* _recover_locked_session inside the try block
             "close_late"}   \* the same inside an except block

LoginRecord == [pc : LoginPcs, frame : Frames, tries : 0 .. MenuTries - 1,
                submits : Nat, recoveries : Nat]
NoLogin == [pc |-> "none", frame |-> "outer", tries |-> 0, submits |-> 0,
            recoveries |-> 0]

LoginOnly == UNCHANGED <<tests, accepted, batch, wk>> /\ WorkerStays
GoesTo(pc) == login' = [login EXCEPT !.pc = pc]

(* The login of the batch is over: it goes on, or all of it fails. *)
LoginEnds(outcome) ==
  /\ batch' = outcome
  /\ login' = NoLogin
  /\ wk' = WorkerAt("idle")
  /\ UNCHANGED <<tests, accepted>>
  /\ WorkerStays

(* _raise_locked_session_error passes every except block above it. *)
RaisesLocked == LoginEnds("locked")

Submit(state) ==
  /\ login.pc = "submit"
  /\ CASE state = "timeout" ->
            login' = [login EXCEPT !.pc = "raised", !.submits = @ + 1] /\ LoginOnly
       [] state = "in" ->
            login' = [login EXCEPT !.pc = "menu", !.submits = @ + 1] /\ LoginOnly
       [] state = "locked" ->
            IF login.frame = "outer"
              THEN login' = [login EXCEPT !.pc = "close_try", !.submits = @ + 1] /\ LoginOnly
              ELSE RaisesLocked

ReachMenu ==
  /\ login.pc = "menu"
  /\ LoginEnds("ready")

MenuTimesOut_OneMore(explained) ==
  /\ login.pc = "menu"
  /\ login' = IF explained \/ login.tries = MenuTries
                THEN [login EXCEPT !.pc = "raised", !.tries = 0]
                ELSE [login EXCEPT !.tries = @ + 1]
  /\ LoginOnly

MenuTimesOut_NeverGivesUp(explained) ==
  /\ login.pc = "menu"
  /\ login' = [login EXCEPT !.tries = (@ + 1) % MenuTries]
  /\ LoginOnly

(* A page that explains the timeout ends the attempts. *)
MenuTimesOut(explained) ==
  /\ login.pc = "menu"
  /\ login' = IF explained \/ login.tries + 1 = MenuTries
                THEN [login EXCEPT !.pc = "raised", !.tries = 0]
                ELSE [login EXCEPT !.tries = @ + 1]
  /\ LoginOnly

MayRecover_Always == TRUE
MayRecover == login.frame = "outer"

(* The except blocks look at the page once more. *)
Classify(locked) ==
  /\ login.pc = "raised"
  /\ IF locked /\ MayRecover THEN GoesTo("close_late") /\ LoginOnly
     ELSE IF locked THEN RaisesLocked
     ELSE IF login.frame = "inner"
       THEN login' = [login EXCEPT !.frame = "outer"] /\ LoginOnly
       ELSE LoginEnds("failed")

(* _recover_locked_session: close the session at the portal, wait, restart *)
(* the browser.                                                            *)
Retries(frame) ==
  login' = [login EXCEPT !.pc = "submit", !.frame = frame, !.tries = 0,
                         !.recoveries = @ + 1]

CloseSession(frame) ==
  /\ login.pc = IF frame = "inner" THEN "close_try" ELSE "close_late"
  /\ frame # "outer"
  /\ Retries(frame)
  /\ LoginOnly

CloseInTryFails ==
  /\ login.pc = "close_try"
  /\ login' = [login EXCEPT !.pc = "raised"]
  /\ LoginOnly

CloseLateFails ==
  /\ login.pc = "close_late"
  /\ LoginEnds("failed")

Crash ==
  /\ wk.pc # "down"
  /\ restarts < MaxRestarts /\ restarts' = restarts + 1
  /\ wk' = WorkerAt("down")
  /\ login' = NoLogin
  /\ UNCHANGED <<store, call, calls, accepted, batch>>

------------------------------------------------------------------------------
Init ==
  /\ credential = [u \in Users |-> NoCredential]
  /\ issued = 0
  /\ tests = [t \in TestIds |-> AbsentTest]
  /\ queued = 0
  /\ call = [h \in Handlers |-> NoCall]
  /\ calls = 0
  /\ accepted = {}
  /\ batch = "none"
  /\ wk = WorkerAt("down")
  /\ login = NoLogin
  /\ restarts = 0

Reads(h) ==
  \E u \in Users : \/ ReadForDrop(h, u)
                   \/ ReadForSavedTest(h, u)
                   \/ \E secret \in Secrets : \/ ReadForSave(h, u, secret)
                                              \/ ReadForTypedTest(h, u, secret)

Answers(h) == CommitSave(h) \/ CommitDrop(h) \/ CommitTest(h) \/ CallFails(h)

LoginStep ==
  \/ \E state \in {"timeout", "in", "locked"} : Submit(state)
  \/ ReachMenu
  \/ \E explained \in BOOLEAN : MenuTimesOut(explained)
  \/ \E locked \in BOOLEAN : Classify(locked)
  \/ \E frame \in Frames : CloseSession(frame)
  \/ CloseInTryFails
  \/ CloseLateFails

WorkerStep ==
  \/ Boot
  \/ \E t \in TestIds : ClaimTest(t)
  \/ BeginTest
  \/ OpenPortal
  \/ Probe
  \/ StampResult
  \/ TestFails
  \/ TakeBatch
  \/ LoginStep

Next ==
  \/ \E h \in Handlers : Reads(h) \/ Answers(h)
  \/ StartBatch
  \/ WorkerStep
  \/ Crash

Spec == Init /\ [][Next]_vars

(* The worker runs while it is up and is restarted when it is down         *)
(* (restart: unless-stopped); every call on a page has a timeout of its    *)
(* own; a request thread runs to its end.                                  *)
FairSpec ==
  /\ Spec
  /\ WF_vars(WorkerStep)
  /\ \A h \in Handlers : WF_vars(Answers(h))
------------------------------------------------------------------------------
Outcomes == {"none", "waiting", "ready", "failed", "locked"}

(* The tables, the calls and the locals of the worker are of their types.  *)
TypeOK ==
  /\ credential \in [Users -> CredentialRow]
  /\ issued \in Nat
  /\ tests \in [TestIds -> TestRow]
  /\ queued \in 0 .. MaxTests
  /\ call \in [Handlers -> CallRecord]
  /\ calls \in 0 .. MaxCalls
  /\ accepted \subseteq Secrets
  /\ batch \in Outcomes
  /\ wk \in WorkerRecord
  /\ login \in LoginRecord
  /\ restarts \in 0 .. MaxRestarts

(* verified_at is stamped on the row found when the probe is over, which   *)
(* may have been edited, or dropped and saved anew, since its pair was     *)
(* copied into the test: still a row is only verified if the portal let in *)
(* a pair that this very row has held.                                     *)
VerifiedWasAccepted ==
  \A u \in Users : credential[u].verified
    => \E secret \in credential[u].had : secret \in accepted

(* A test is PROCESSING only while the worker has it in hand, or while a   *)
(* worker that died has yet to come up and put it back in the queue.       *)
TestsAreHeld ==
  \A t \in TestIds : tests[t].status = "processing"
    => wk.pc = "down" \/ (wk.test = t /\ wk.pc \in {"started", "probe", "probed"})

(* However the portal answers, one login types the credentials in at most  *)
(* three times and closes the user's other session at most twice.          *)
LoginIsBounded == login.submits <= 3 /\ login.recoveries <= 2

(* A test that has its outcome is never run again nor told otherwise, a    *)
(* crash and the recovery at boot included.                                *)
OutcomesStay ==
  [][\A t \in TestIds : tests[t].status \in {"completed", "failed"}
       => tests'[t].status = tests[t].status]_vars

(* A batch is failed for a locked account only after the worker has once   *)
(* closed the other session and logged in anew.                            *)
LockedAfterRecovery ==
  [][batch = "waiting" /\ batch' = "locked" => login.recoveries > 0]_vars

(* Every queued test gets its outcome, and every batch its turn, as long   *)
(* as users queue finitely many tests.                                     *)
TestsEnd ==
  \A t \in TestIds :
    tests[t].status = "pending" ~> tests[t].status \in {"completed", "failed"}
BatchesGetTheirTurn == batch = "waiting" ~> batch # "waiting"
EveryoneIsServed == TestsEnd /\ BatchesGetTheirTurn

------------------------------------------------------------------------------
(* The inductive invariant behind them.                                    *)

(* Row ids are handed out once.                                            *)
IdsAreUnique ==
  /\ \A u \in Users : credential[u].id <= issued
  /\ \A u, v \in Users : credential[u].id = credential[v].id /\ Exists(u) => u = v
  /\ \A u \in Users : Exists(u) => credential[u].secret \in credential[u].had
  /\ \A u \in Users : credential[u].secret # None => Exists(u)

(* A call that still finds its row finds one that has held the pair it     *)
(* read; calls are about a user, and name a pair where they write one.     *)
CallsAreBound ==
  \A h \in Handlers :
    LET c == call[h]
    IN  c.op # "none" =>
          /\ c.user \in Users
          /\ c.seen.id <= issued
          /\ c.op \in {"save", "test_typed"} => c.secret \in Secrets
          /\ c.op \in {"drop", "test_saved"} => c.seen.id # 0
          /\ c.seen.id # 0 => /\ c.seen.secret \in Secrets
                              /\ \A u \in Users \ {c.user} : credential[u].id # c.seen.id
          /\ SameRow(c) /\ c.seen.id # 0 => c.seen.secret \in credential[c.user].had

(* A test that names a row names one that has held its pair.               *)
TestsAreBound ==
  \A t \in TestIds :
    /\ t > queued => tests[t] = AbsentTest
    /\ t <= queued => tests[t].status # "absent" /\ tests[t].user \in Users
    /\ tests[t].cred # 0 =>
         \A u \in Users : credential[u].id = tests[t].cred
                              => tests[t].secret \in credential[u].had
    /\ tests[t].cred <= issued

(* What the worker has in hand.                                            *)
WorkerIsBound ==
  /\ wk.pc \in {"claimed", "started", "probe", "probed"}
       => /\ wk.test \in TestIds
          /\ tests[wk.test].status = IF wk.pc = "claimed" THEN "pending" ELSE "processing"
  /\ wk.pc \in {"probe", "probed"} => wk.secret = tests[wk.test].secret
  /\ wk.authenticated => wk.pc = "probed" /\ wk.secret \in accepted
  /\ login.pc # "none" <=> wk.pc = "login"
  /\ wk.pc = "login" => batch = "waiting"

(* How far a login can have come in each frame.                            *)
LoginProgress ==
  /\ login.submits = IF login.pc \in {"none", "submit"} THEN login.recoveries
                     ELSE login.recoveries + 1
  /\ login.frame = "outer" =>
       login.recoveries <= IF login.pc \in {"raised", "close_late"} THEN 1 ELSE 0
  /\ login.frame = "inner" => login.recoveries = 1
  /\ login.frame = "last" => login.recoveries \in 1 .. 2
  /\ login.pc \in {"close_try", "close_late"} => login.frame = "outer"

(* What every step of a call, of the worker, of a login and of a crash keeps. *)
IInv ==
  /\ TypeOK
  /\ IdsAreUnique
  /\ CallsAreBound
  /\ TestsAreBound
  /\ WorkerIsBound
  /\ TestsAreHeld
  /\ VerifiedWasAccepted
  /\ LoginProgress
  /\ LoginIsBounded
==============================================================================
