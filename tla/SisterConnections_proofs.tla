----------------------- MODULE SisterConnections_proofs -----------------------
(***************************************************************************)
(* Proofs about the SISTER credentials, their tests and the logins, for    *)
(* every set of users, pairs and handlers.  The invariant of module        *)
(* SisterConnections is inductive; the safety properties are conjuncts of  *)
(* it, and the two action properties follow from it step by step.          *)
(***************************************************************************)
EXTENDS SisterConnections, TLAPS

USE ConnectionsAssumption

(* Everything the API and the tests own is left alone. *)
Quiet == UNCHANGED <<credential, issued, tests, queued, call, calls, accepted, restarts>>

(* The parts of the invariant about rows, calls and tests hold in a state  *)
(* that has the same rows, calls and tests.                                *)
LEMMA QuietKeeps ==
  ASSUME IInv, Quiet
  PROVE  /\ IdsAreUnique' /\ CallsAreBound' /\ TestsAreBound' /\ VerifiedWasAccepted'
         /\ credential' \in [Users -> CredentialRow]
         /\ issued' \in Nat
         /\ tests' \in [TestIds -> TestRow]
         /\ queued' \in 0 .. MaxTests
         /\ call' \in [Handlers -> CallRecord]
         /\ calls' \in 0 .. MaxCalls
         /\ accepted' \subseteq Secrets
         /\ restarts' \in 0 .. MaxRestarts
  BY DEF IInv, Quiet, IdsAreUnique, CallsAreBound, TestsAreBound, VerifiedWasAccepted,
         TypeOK, Exists, SameRow

(* The rows a worker that is neither down nor testing leaves PROCESSING:   *)
(* none.                                                                   *)
LEMMA LoginHoldsNoTest ==
  ASSUME IInv, wk.pc \in {"idle", "login", "claimed"}
  PROVE  \A t \in TestIds : tests[t].status # "processing"
  BY DEF IInv, TestsAreHeld

(* A login that goes on, with the worker in it and everything else still,  *)
(* keeps the invariant if its own record does.                             *)
LEMMA LoginGoesOn ==
  ASSUME IInv, LoginOnly, login.pc # "none", login'.pc # "none",
         login' \in LoginRecord, LoginProgress', LoginIsBounded'
  PROVE  IInv'
  <1>1. Quiet /\ batch' = batch /\ wk' = wk
    BY DEF LoginOnly, WorkerStays, Quiet
  <1>2. TypeOK'
    BY <1>1, QuietKeeps DEF IInv, TypeOK
  <1>3. WorkerIsBound' /\ TestsAreHeld'
    BY <1>1 DEF IInv, WorkerIsBound, TestsAreHeld, Quiet
  <1> QED
    BY <1>1, <1>2, <1>3, QuietKeeps DEF IInv

(* The end of a login leaves the worker idle and the batch with an outcome. *)
LEMMA LoginEndsWell ==
  ASSUME IInv, login.pc # "none", NEW outcome \in {"ready", "failed", "locked"},
         LoginEnds(outcome)
  PROVE  IInv'
  <1>1. Quiet /\ batch' = outcome /\ wk' = WorkerAt("idle") /\ login' = NoLogin
    BY DEF LoginEnds, WorkerStays, Quiet
  <1>2. wk.pc = "login"
    BY DEF IInv, WorkerIsBound
  <1>3. TypeOK'
    BY <1>1, QuietKeeps
    DEF TypeOK, Outcomes, WorkerAt, WorkerRecord, Pcs, NoLogin, LoginRecord, LoginPcs,
        Frames, MenuTries
  <1>4. WorkerIsBound'
    BY <1>1 DEF WorkerIsBound, WorkerAt, NoLogin
  <1>5. TestsAreHeld'
    BY <1>1, <1>2, LoginHoldsNoTest DEF TestsAreHeld, Quiet
  <1>6. LoginProgress' /\ LoginIsBounded'
    BY <1>1 DEF LoginProgress, LoginIsBounded, NoLogin
  <1> QED
    BY <1>1, <1>3, <1>4, <1>5, <1>6, QuietKeeps DEF IInv

(* Each step of BrowserSession.login keeps the invariant. *)
LEMMA LoginKeeps ==
  ASSUME IInv, LoginStep
  PROVE  IInv'
  <1> USE DEF LoginRecord, LoginPcs, Frames, MenuTries
  <1>0. login \in LoginRecord /\ LoginProgress /\ LoginIsBounded
    BY DEF IInv, TypeOK
  <1>1. ASSUME NEW state \in {"timeout", "in", "locked"}, Submit(state)
        PROVE  IInv'
    <2>0. login.pc = "submit"
      BY <1>1 DEF Submit
    <2>1. CASE RaisesLocked
      BY <2>0, <2>1, LoginEndsWell DEF RaisesLocked
    <2>2. ASSUME NEW pc \in {"raised", "menu", "close_try"}, LoginOnly,
                 login' = [login EXCEPT !.pc = pc, !.submits = @ + 1],
                 pc = "close_try" => login.frame = "outer"
          PROVE  IInv'
      <3>0. login' = [pc |-> pc, frame |-> login.frame, tries |-> login.tries,
                      submits |-> login.submits + 1, recoveries |-> login.recoveries]
        BY <1>0, <2>2
      <3>1. login' \in LoginRecord /\ login'.pc = pc
        BY <1>0, <3>0
      <3>2. LoginProgress' /\ LoginIsBounded'
        BY <1>0, <2>0, <2>2 DEF LoginProgress, LoginIsBounded
      <3> QED
        BY <2>0, <2>2, <3>1, <3>2, LoginGoesOn
    <2>3. CASE state = "timeout"
      BY <1>1, <2>2, <2>3 DEF Submit
    <2>4. CASE state = "in"
      BY <1>1, <2>2, <2>4 DEF Submit
    <2>5. CASE state = "locked"
      BY <1>1, <2>1, <2>2, <2>5 DEF Submit
    <2> QED
      BY <1>1, <2>3, <2>4, <2>5
  <1>2. CASE ReachMenu
    BY <1>2, LoginEndsWell DEF ReachMenu
  <1>3. ASSUME NEW explained \in BOOLEAN, MenuTimesOut(explained)
        PROVE  IInv'
    <2>1. login' \in LoginRecord /\ login'.pc \in {"menu", "raised"}
      <3>1. ~explained /\ login.tries + 1 # MenuTries
              => login' = [pc |-> "menu", frame |-> login.frame, tries |-> login.tries + 1,
                           submits |-> login.submits, recoveries |-> login.recoveries]
        BY <1>0, <1>3 DEF MenuTimesOut
      <3>2. explained \/ login.tries + 1 = MenuTries
              => login' = [pc |-> "raised", frame |-> login.frame, tries |-> 0,
                           submits |-> login.submits, recoveries |-> login.recoveries]
        BY <1>0, <1>3 DEF MenuTimesOut
      <3> QED
        BY <1>0, <3>1, <3>2
    <2>2. LoginProgress' /\ LoginIsBounded'
      BY <1>0, <1>3 DEF MenuTimesOut, LoginProgress, LoginIsBounded
    <2> QED
      BY <1>3, <2>1, <2>2, LoginGoesOn DEF MenuTimesOut
  <1>4. ASSUME NEW locked \in BOOLEAN, Classify(locked)
        PROVE  IInv'
    <2>0. login.pc = "raised"
      BY <1>4 DEF Classify
    <2>1. CASE RaisesLocked \/ LoginEnds("failed")
      BY <2>0, <2>1, LoginEndsWell DEF RaisesLocked
    <2>2. CASE LoginOnly /\ locked /\ MayRecover /\ GoesTo("close_late")
      <3>1. login' \in LoginRecord /\ login'.pc = "close_late"
        BY <1>0, <2>2 DEF GoesTo
      <3>2. LoginProgress' /\ LoginIsBounded'
        BY <1>0, <2>0, <2>2 DEF GoesTo, MayRecover, LoginProgress, LoginIsBounded
      <3> QED
        BY <2>0, <2>2, <3>1, <3>2, LoginGoesOn
    <2>3. CASE /\ LoginOnly /\ login.frame = "inner"
               /\ login' = [login EXCEPT !.frame = "outer"]
      <3>1. login' \in LoginRecord /\ login'.pc = "raised"
        BY <1>0, <2>0, <2>3
      <3>2. LoginProgress' /\ LoginIsBounded'
        BY <1>0, <2>0, <2>3 DEF LoginProgress, LoginIsBounded
      <3> QED
        BY <2>0, <2>3, <3>1, <3>2, LoginGoesOn
    <2> QED
      BY <1>4, <2>1, <2>2, <2>3 DEF Classify
  <1>5. ASSUME NEW frame \in Frames, CloseSession(frame)
        PROVE  IInv'
    <2>1. login.pc \in {"close_try", "close_late"} /\ login.frame = "outer"
          /\ frame \in {"inner", "last"}
          /\ login.pc = IF frame = "inner" THEN "close_try" ELSE "close_late"
      BY <1>0, <1>5 DEF CloseSession, LoginProgress
    <2>2. login' \in LoginRecord /\ login'.pc = "submit"
      <3>1. login' = [pc |-> "submit", frame |-> frame, tries |-> 0,
                      submits |-> login.submits, recoveries |-> login.recoveries + 1]
        BY <1>0, <1>5 DEF CloseSession, Retries
      <3> QED
        BY <1>0, <1>5, <3>1
    <2>3. LoginProgress' /\ LoginIsBounded'
      BY <1>0, <1>5, <2>1 DEF CloseSession, Retries, LoginProgress, LoginIsBounded
    <2> QED
      BY <1>5, <2>1, <2>2, <2>3, LoginGoesOn DEF CloseSession
  <1>6. CASE CloseInTryFails
    <2>1. login' \in LoginRecord /\ login'.pc = "raised"
      BY <1>0, <1>6 DEF CloseInTryFails
    <2>2. LoginProgress' /\ LoginIsBounded'
      BY <1>0, <1>6 DEF CloseInTryFails, LoginProgress, LoginIsBounded
    <2> QED
      BY <1>6, <2>1, <2>2, LoginGoesOn DEF CloseInTryFails
  <1>7. CASE CloseLateFails
    BY <1>7, LoginEndsWell DEF CloseLateFails
  <1> QED
    BY <1>1, <1>2, <1>3, <1>4, <1>5, <1>6, <1>7 DEF LoginStep

------------------------------------------------------------------------------
(* The steps of the worker outside a login, one by one.                    *)

(* A step of the worker that only moves its own record, or the row of the  *)
(* test it has in hand, leaves the tables sound.                           *)
LEMMA WorkerKeepsTables ==
  ASSUME IInv,
         UNCHANGED <<credential, issued, queued, call, calls, batch, login, restarts>>,
         accepted \subseteq accepted', accepted' \subseteq Secrets,
         tests' \in [TestIds -> TestRow],
         \A t \in TestIds :
           /\ tests'[t] = [tests[t] EXCEPT !.status = tests'[t].status]
           /\ tests'[t].status = "absent" <=> tests[t].status = "absent",
         wk' \in WorkerRecord
  PROVE  /\ TypeOK' /\ IdsAreUnique' /\ CallsAreBound' /\ TestsAreBound'
         /\ VerifiedWasAccepted' /\ LoginProgress' /\ LoginIsBounded'
  <1>1. TypeOK'
    BY DEF IInv, TypeOK
  <1>2. IdsAreUnique' /\ CallsAreBound'
    BY DEF IInv, IdsAreUnique, CallsAreBound, Exists, SameRow
  <1>3. TestsAreBound'
    <2>1. \A t \in TestIds : tests[t] \in TestRow
      BY DEF IInv, TypeOK
    <2>2. \A t \in TestIds : /\ tests'[t].cred = tests[t].cred
                             /\ tests'[t].secret = tests[t].secret
                             /\ tests'[t].user = tests[t].user
      BY <2>1 DEF TestRow
    <2>3. \A t \in TestIds : tests[t] = AbsentTest => tests'[t] = AbsentTest
      <3> TAKE t \in TestIds
      <3> HAVE tests[t] = AbsentTest
      <3>1. tests'[t].status = "absent"
        BY DEF AbsentTest
      <3> QED
        BY <3>1 DEF AbsentTest
    <2> QED
      BY <2>2, <2>3 DEF IInv, TestsAreBound
  <1>4. VerifiedWasAccepted' /\ LoginProgress' /\ LoginIsBounded'
    BY DEF IInv, VerifiedWasAccepted, LoginProgress, LoginIsBounded
  <1> QED
    BY <1>1, <1>2, <1>3, <1>4

(* Recovery at boot, and every step of a test, keep the invariant. *)
LEMMA TestingKeeps ==
  ASSUME IInv,
         \/ Boot \/ (\E t \in TestIds : ClaimTest(t)) \/ BeginTest
         \/ OpenPortal \/ Probe \/ TestFails
  PROVE  IInv'
  <1> USE DEF WorkerRecord, WorkerAt, Pcs
  <1>0. /\ wk \in WorkerRecord /\ tests \in [TestIds -> TestRow]
        /\ accepted \subseteq Secrets
        /\ WorkerIsBound /\ TestsAreHeld /\ TestsAreBound
    BY DEF IInv, TypeOK
  <1>1. CASE Boot
    <2>1. /\ UNCHANGED <<credential, issued, queued, call, calls, batch, login, restarts>>
          /\ accepted' = accepted /\ wk' = WorkerAt("idle") /\ wk.pc = "down"
          /\ \A t \in TestIds : tests'[t] = Recovered(tests[t])
          /\ tests' = [t \in TestIds |-> Recovered(tests[t])]
      BY <1>1 DEF Boot, TestOnly, WorkerStays
    <2>2. \A t \in TestIds : /\ tests'[t] = [tests[t] EXCEPT !.status = tests'[t].status]
                             /\ tests'[t] \in TestRow
                             /\ tests'[t].status # "processing"
                             /\ tests'[t].status = "absent" <=> tests[t].status = "absent"
      BY <1>0, <2>1 DEF Recovered, TestRow, TestStatus
    <2>3. tests' \in [TestIds -> TestRow]
      BY <2>1, <2>2
    <2>4. WorkerIsBound' /\ TestsAreHeld'
      BY <1>0, <2>1, <2>2 DEF WorkerIsBound, TestsAreHeld
    <2> QED
      BY <1>0, <2>1, <2>2, <2>3, <2>4, WorkerKeepsTables DEF IInv
  <1>2. ASSUME NEW t \in TestIds, ClaimTest(t)
        PROVE  IInv'
    <2>1. /\ UNCHANGED <<credential, issued, queued, call, calls, batch, login, restarts>>
          /\ accepted' = accepted /\ tests' = tests /\ wk.pc = "idle"
          /\ tests[t].status = "pending"
          /\ wk' = [wk EXCEPT !.pc = "claimed", !.test = t]
      BY <1>2 DEF ClaimTest, TestOnly, WorkerStays, Pending
    <2>2. wk' = [pc |-> "claimed", test |-> t, secret |-> wk.secret,
                 authenticated |-> wk.authenticated]
      BY <1>0, <2>1
    <2>3. \A x \in TestIds : tests'[x] = [tests[x] EXCEPT !.status = tests'[x].status]
      BY <1>0, <2>1 DEF TestRow
    <2>4. WorkerIsBound' /\ TestsAreHeld'
      BY <1>0, <2>1, <2>2 DEF WorkerIsBound, TestsAreHeld
    <2> QED
      BY <1>0, <2>1, <2>2, <2>3, <2>4, WorkerKeepsTables DEF IInv
  <1>3. CASE BeginTest
    <2>1. /\ UNCHANGED <<credential, issued, queued, call, calls, batch, login, restarts>>
          /\ accepted' = accepted /\ wk.pc = "claimed" /\ wk.test \in TestIds
          /\ tests[wk.test].status = "pending"
          /\ tests' = [tests EXCEPT ![wk.test].status = "processing"]
          /\ wk' = [wk EXCEPT !.pc = "started"]
      BY <1>0, <1>3 DEF BeginTest, TestOnly, WorkerStays, WorkerIsBound
    <2>2. wk' \in WorkerRecord /\ wk'.pc = "started" /\ wk'.test = wk.test
          /\ wk'.authenticated = wk.authenticated
      BY <1>0, <2>1
    <2>3. /\ tests' \in [TestIds -> TestRow]
          /\ \A x \in TestIds :
               /\ tests'[x] = [tests[x] EXCEPT !.status = tests'[x].status]
               /\ tests'[x].status = IF x = wk.test THEN "processing" ELSE tests[x].status
      BY <1>0, <2>1 DEF TestRow, TestStatus
    <2>4. WorkerIsBound' /\ TestsAreHeld'
      BY <1>0, <2>1, <2>2, <2>3 DEF WorkerIsBound, TestsAreHeld
    <2> QED
      BY <1>0, <2>1, <2>2, <2>3, <2>4, WorkerKeepsTables DEF IInv
  <1>4. CASE OpenPortal \/ Probe
    <2>1. /\ UNCHANGED <<credential, issued, queued, call, calls, batch, login, restarts>>
          /\ tests' = tests /\ wk.pc \in {"started", "probe"} /\ wk.test \in TestIds
          /\ tests[wk.test].status = "processing"
      BY <1>0, <1>4 DEF OpenPortal, Probe, TestOnly, WorkerStays, WorkerIsBound
    <2>2. /\ accepted \subseteq accepted' /\ accepted' \subseteq Secrets
          /\ wk' \in WorkerRecord /\ wk'.test = wk.test
          /\ wk'.pc \in {"probe", "probed"}
          /\ wk'.secret = tests[wk.test].secret
          /\ wk'.authenticated => wk'.pc = "probed" /\ wk'.secret \in accepted'
      <3>1. tests[wk.test].secret \in Secrets \cup {None}
        BY <1>0, <2>1 DEF TestRow
      <3>2. CASE OpenPortal
        <4>1. wk' = [pc |-> "probe", test |-> wk.test, secret |-> tests[wk.test].secret,
                     authenticated |-> wk.authenticated]
          BY <1>0, <3>2 DEF OpenPortal
        <4> QED
          BY <1>0, <2>1, <3>1, <3>2, <4>1 DEF OpenPortal, WorkerIsBound
      <3>3. CASE Probe
        <4>1. \E a \in BOOLEAN :
                /\ wk' = [pc |-> "probed", test |-> wk.test, secret |-> wk.secret,
                          authenticated |-> a]
                /\ a => wk.secret \in Right
                /\ accepted' = IF a THEN accepted \cup {wk.secret} ELSE accepted
          BY <1>0, <3>3 DEF Probe
        <4>2. wk.pc = "probe"
          BY <3>3 DEF Probe
        <4> QED
          BY <1>0, <2>1, <4>1, <4>2 DEF WorkerIsBound
      <3> QED
        BY <1>4, <3>2, <3>3
    <2>3. \A x \in TestIds : tests'[x] = [tests[x] EXCEPT !.status = tests'[x].status]
      BY <1>0, <2>1 DEF TestRow
    <2>4. WorkerIsBound' /\ TestsAreHeld'
      BY <1>0, <2>1, <2>2 DEF WorkerIsBound, TestsAreHeld
    <2> QED
      BY <1>0, <2>1, <2>2, <2>3, <2>4, WorkerKeepsTables DEF IInv
  <1>5. CASE TestFails
    <2>1. /\ UNCHANGED <<credential, issued, queued, call, calls, batch, login, restarts>>
          /\ accepted' = accepted /\ wk.pc = "started" /\ wk.test \in TestIds
          /\ tests' = [tests EXCEPT ![wk.test].status = "failed"]
          /\ tests[wk.test].status = "processing"
          /\ wk' = WorkerAt("idle")
      BY <1>0, <1>5 DEF TestFails, TestOnly, WorkerStays, WorkerIsBound
    <2>2. /\ tests' \in [TestIds -> TestRow]
          /\ \A x \in TestIds :
               /\ tests'[x] = [tests[x] EXCEPT !.status = tests'[x].status]
               /\ tests'[x].status = IF x = wk.test THEN "failed" ELSE tests[x].status
      BY <1>0, <2>1 DEF TestRow, TestStatus
    <2>3. WorkerIsBound' /\ TestsAreHeld'
      BY <1>0, <2>1, <2>2 DEF WorkerIsBound, TestsAreHeld
    <2>4. wk' \in WorkerRecord
      BY <2>1
    <2> QED
      BY <1>0, <2>1, <2>2, <2>3, <2>4, WorkerKeepsTables DEF IInv
  <1> QED
    BY <1>1, <1>2, <1>3, <1>4, <1>5

(* The outcome of a test, and the stamp it may leave on a row, keep the    *)
(* invariant: the row still has the id the test was queued with, so it has *)
(* held the pair the portal let in.                                        *)
LEMMA StampKeeps ==
  ASSUME IInv, StampResult
  PROVE  IInv'
  <1> DEFINE test == tests[wk.test]
  <1>0. /\ credential \in [Users -> CredentialRow] /\ tests \in [TestIds -> TestRow]
        /\ wk.test \in TestIds /\ test.status = "processing" /\ wk.secret = test.secret
        /\ wk.authenticated => wk.secret \in accepted
        /\ wk \in WorkerRecord
    BY DEF IInv, TypeOK, WorkerIsBound, StampResult
  <1>1. /\ UNCHANGED <<issued, queued, call, calls, restarts, accepted, batch, login>>
        /\ wk' = WorkerAt("idle") /\ wk.pc = "probed"
    BY DEF StampResult
  <1>2. /\ tests' \in [TestIds -> TestRow]
        /\ \A x \in TestIds :
             /\ tests'[x].cred = tests[x].cred /\ tests'[x].secret = tests[x].secret
             /\ tests'[x].user = tests[x].user
             /\ x # wk.test => tests'[x] = tests[x]
        /\ tests'[wk.test].status \in {"completed", "failed"}
    BY <1>0 DEF StampResult, TestRow, TestStatus
  <1>3. /\ credential' \in [Users -> CredentialRow]
        /\ \A u \in Users :
             /\ credential'[u].id = credential[u].id
             /\ credential'[u].secret = credential[u].secret
             /\ credential'[u].had = credential[u].had
             /\ credential'[u].verified =>
                  \/ credential[u].verified
                  \/ wk.authenticated /\ test.cred # 0 /\ credential[u].id = test.cred
    BY <1>0 DEF StampResult, Verified, CredentialRow
  <1>4. TypeOK'
    BY <1>1, <1>2, <1>3 DEF IInv, TypeOK, WorkerAt, WorkerRecord, Pcs
  <1>5. IdsAreUnique' /\ CallsAreBound'
    BY <1>1, <1>3 DEF IInv, IdsAreUnique, CallsAreBound, Exists, SameRow
  <1>6. TestsAreBound'
    BY <1>0, <1>1, <1>2, <1>3 DEF IInv, TestsAreBound, AbsentTest
  <1>7. VerifiedWasAccepted'
    <2> SUFFICES ASSUME NEW u \in Users, credential'[u].verified
                 PROVE  \E secret \in credential'[u].had : secret \in accepted'
      BY DEF VerifiedWasAccepted
    <2>1. CASE credential[u].verified
      BY <1>1, <1>3, <2>1 DEF IInv, VerifiedWasAccepted
    <2>2. CASE wk.authenticated /\ test.cred # 0 /\ credential[u].id = test.cred
      BY <1>0, <1>1, <1>3, <2>2 DEF IInv, TestsAreBound
    <2> QED
      BY <1>3, <2>1, <2>2
  <1>8. WorkerIsBound' /\ TestsAreHeld'
    BY <1>0, <1>1, <1>2 DEF IInv, WorkerIsBound, TestsAreHeld, WorkerAt
  <1>9. LoginProgress' /\ LoginIsBounded'
    BY <1>1 DEF IInv, LoginProgress, LoginIsBounded
  <1> QED
    BY <1>4, <1>5, <1>6, <1>7, <1>8, <1>9 DEF IInv

(* Taking a batch, and a crash, keep the invariant. *)
LEMMA TakeAndCrashKeep ==
  ASSUME IInv, TakeBatch \/ Crash
  PROVE  IInv'
  <1> USE DEF WorkerRecord, WorkerAt, Pcs, LoginRecord, LoginPcs, Frames, MenuTries, NoLogin
  <1>1. CASE TakeBatch
    <2>1. Quiet /\ batch' = batch /\ batch = "waiting" /\ wk.pc = "idle"
          /\ wk' = WorkerAt("login") /\ login'.pc = "submit" /\ login' \in LoginRecord
          /\ login'.submits = 0 /\ login'.recoveries = 0 /\ login'.frame = "outer"
      BY <1>1 DEF TakeBatch, WorkerStays, Quiet
    <2>2. TypeOK'
      BY <2>1, QuietKeeps DEF IInv, TypeOK
    <2>3. WorkerIsBound' /\ LoginProgress' /\ LoginIsBounded'
      BY <2>1 DEF WorkerIsBound, LoginProgress, LoginIsBounded
    <2>4. TestsAreHeld'
      BY <2>1, LoginHoldsNoTest DEF TestsAreHeld, Quiet
    <2> QED
      BY <2>1, <2>2, <2>3, <2>4, QuietKeeps DEF IInv
  <1>2. CASE Crash
    <2>1. UNCHANGED <<store, call, calls, accepted, batch>> /\ restarts' = restarts + 1
          /\ restarts < MaxRestarts /\ wk' = WorkerAt("down") /\ login' = NoLogin
      BY <1>2 DEF Crash
    <2>2. TypeOK'
      BY <2>1 DEF IInv, TypeOK, store
    <2>3. IdsAreUnique' /\ CallsAreBound' /\ TestsAreBound' /\ VerifiedWasAccepted'
      BY <2>1 DEF IInv, IdsAreUnique, CallsAreBound, TestsAreBound, VerifiedWasAccepted,
                  Exists, SameRow, store
    <2>4. WorkerIsBound' /\ TestsAreHeld' /\ LoginProgress' /\ LoginIsBounded'
      BY <2>1 DEF WorkerIsBound, TestsAreHeld, LoginProgress, LoginIsBounded
    <2> QED
      BY <2>2, <2>3, <2>4 DEF IInv
  <1> QED
    BY <1>1, <1>2

------------------------------------------------------------------------------
(* The calls of the API. *)

(* A step that leaves the worker, its login and the rows PROCESSING alone  *)
(* keeps what the invariant says of them.                                  *)
LEMMA CallsKeepWorker ==
  ASSUME IInv, UNCHANGED <<accepted, wk, login, restarts>>,
         batch' = batch \/ wk.pc # "login",
         \A t \in TestIds :
           /\ t <= queued => tests'[t].status = tests[t].status
                             /\ tests'[t].secret = tests[t].secret
           /\ t > queued => tests'[t].status # "processing"
  PROVE  WorkerIsBound' /\ TestsAreHeld' /\ LoginProgress' /\ LoginIsBounded'
  <1>1. \A t \in TestIds : tests[t].status \in {"pending", "processing"} => t <= queued
    BY DEF IInv, TypeOK, TestsAreBound, AbsentTest, TestIds
  <1>2. \A t \in TestIds : t <= queued \/ t > queued
    BY DEF IInv, TypeOK, TestIds
  <1>3. TestsAreHeld'
    BY <1>2 DEF IInv, TestsAreHeld
  <1>4. WorkerIsBound'
    BY <1>1 DEF IInv, WorkerIsBound
  <1> QED
    BY <1>3, <1>4 DEF IInv, LoginProgress, LoginIsBounded

(* What a call keeps of the tables when it ends without writing. *)
LEMMA ReplyKeeps ==
  ASSUME IInv, UNCHANGED <<store, calls, accepted, batch, wk, login, restarts>>,
         NEW h \in Handlers, call' = [call EXCEPT ![h] = NoCall]
  PROVE  IInv'
  <1>1. NoCall \in CallRecord
    BY DEF NoCall, CallRecord, Operations, NoCredential, CredentialRow, Ids
  <1>2. TypeOK'
    BY <1>1 DEF IInv, TypeOK, store
  <1>3. \A k \in Handlers : k # h => call'[k] = call[k]
    BY DEF IInv, TypeOK
  <1>4. call'[h].op = "none"
    BY DEF IInv, TypeOK, NoCall
  <1>5. CallsAreBound'
    BY <1>3, <1>4 DEF IInv, CallsAreBound, SameRow, store
  <1>6. IdsAreUnique' /\ TestsAreBound' /\ VerifiedWasAccepted'
    BY DEF IInv, IdsAreUnique, TestsAreBound, VerifiedWasAccepted, Exists, store
  <1>7. WorkerIsBound' /\ TestsAreHeld' /\ LoginProgress' /\ LoginIsBounded'
    BY DEF IInv, WorkerIsBound, TestsAreHeld, LoginProgress, LoginIsBounded, store
  <1> QED
    BY <1>2, <1>5, <1>6, <1>7 DEF IInv

(* A call that begins has read the row as it is. *)
LEMMA ReadKeeps ==
  ASSUME IInv, NEW h \in Handlers, Reads(h)
  PROVE  IInv'
  <1>1. PICK op \in Operations, u \in Users, secret \in Secrets \cup {None} :
          /\ Begin(h, op, u, secret)
          /\ op \in {"save", "test_typed"} => secret \in Secrets
          /\ op \in {"drop", "test_saved"} => Exists(u)
    BY DEF Reads, ReadForDrop, ReadForSavedTest, ReadForSave, ReadForTypedTest, Operations
  <1> DEFINE c == [op |-> op, user |-> u, secret |-> secret, seen |-> credential[u]]
  <1>2. /\ call' = [call EXCEPT ![h] = c] /\ calls < MaxCalls /\ calls' = calls + 1
        /\ UNCHANGED <<store, accepted, batch, wk, login, restarts>>
    BY <1>1 DEF Begin, WorkerUntouched
  <1>3. c \in CallRecord
    BY <1>1 DEF IInv, TypeOK, CallRecord
  <1>4. TypeOK'
    BY <1>2, <1>3 DEF IInv, TypeOK, store
  <1>5. \A k \in Handlers : call'[k] = IF k = h THEN c ELSE call[k]
    BY <1>2 DEF IInv, TypeOK
  <1>6. CallsAreBound'
    <2>1. /\ c.seen.id <= issued
          /\ c.op \in {"drop", "test_saved"} => c.seen.id # 0
          /\ c.seen.id # 0 =>
               /\ c.seen.secret \in credential[u].had
               /\ \A v \in Users \ {u} : credential[v].id # c.seen.id
      BY <1>1 DEF IInv, IdsAreUnique, Exists
    <2>2. c.seen.id # 0 => c.seen.secret \in Secrets
      BY <2>1 DEF IInv, TypeOK, CredentialRow
    <2>3. ASSUME NEW k \in Handlers, k # h
          PROVE  LET d == call'[k]
                 IN  d.op # "none" =>
                       /\ d.user \in Users
                       /\ d.seen.id <= issued
                       /\ d.op \in {"save", "test_typed"} => d.secret \in Secrets
                       /\ d.op \in {"drop", "test_saved"} => d.seen.id # 0
                       /\ d.seen.id # 0 => /\ d.seen.secret \in Secrets
                                           /\ \A v \in Users \ {d.user} : credential[v].id # d.seen.id
                       /\ SameRow(d) /\ d.seen.id # 0 => d.seen.secret \in credential[d.user].had
      BY <1>5, <2>3 DEF IInv, CallsAreBound
    <2>4. credential' = credential /\ issued' = issued
      BY <1>2 DEF store
    <2> HIDE DEF c
    <2>5. c.user = u /\ c.secret = secret /\ c.op = op
      BY DEF c
    <2> QED
      BY <1>1, <1>5, <2>1, <2>2, <2>3, <2>4, <2>5 DEF CallsAreBound, SameRow
  <1>7. IdsAreUnique' /\ TestsAreBound' /\ VerifiedWasAccepted'
    BY <1>2 DEF IInv, IdsAreUnique, TestsAreBound, VerifiedWasAccepted, Exists, store
  <1>8. WorkerIsBound' /\ TestsAreHeld' /\ LoginProgress' /\ LoginIsBounded'
    BY <1>2 DEF IInv, WorkerIsBound, TestsAreHeld, LoginProgress, LoginIsBounded, store
  <1> QED
    BY <1>4, <1>6, <1>7, <1>8 DEF IInv

(* What saving changes of a row. *)
LEMMA SavedRow ==
  ASSUME NEW row \in CredentialRow, NEW secret \in Secrets
  PROVE  /\ Saved(row, secret) \in CredentialRow
         /\ Saved(row, secret).id = row.id
         /\ Saved(row, secret).secret = secret
         /\ Saved(row, secret).verified = row.verified
         /\ Saved(row, secret).had = row.had \cup {secret}
  BY DEF CredentialRow, Saved

(* Saving a pair over the row that was read, or in a new row, keeps the    *)
(* invariant: the rows and tests that name the row still find their pair   *)
(* among those it has held.                                                *)
LEMMA SaveKeeps ==
  ASSUME IInv, NEW h \in Handlers, CommitSave(h)
  PROVE  IInv'
  <1> DEFINE c == call[h]
             u == c.user
  <1>0. /\ credential \in [Users -> CredentialRow] /\ issued \in Nat
        /\ call \in [Handlers -> CallRecord]
        /\ IdsAreUnique /\ CallsAreBound /\ TestsAreBound /\ VerifiedWasAccepted
    BY DEF IInv, TypeOK
  <1>1. /\ u \in Users /\ c.secret \in Secrets /\ c.seen.id <= issued
        /\ credential[u].id = c.seen.id /\ c.op = "save"
    BY <1>0 DEF CommitSave, CallsAreBound, SameRow
  <1>2. /\ call' = [call EXCEPT ![h] = NoCall] /\ calls' = calls
        /\ UNCHANGED <<tests, queued, accepted, batch, wk, login, restarts>>
    BY DEF CommitSave, Ends, WorkerUntouched
  <1>3. issued' = IF c.seen.id = 0 THEN issued + 1 ELSE issued
    BY DEF CommitSave
  <1>4. /\ credential' \in [Users -> CredentialRow]
        /\ \A v \in Users : v # u => credential'[v] = credential[v]
        /\ c.seen.id = 0 => /\ credential'[u].id = issued + 1
                            /\ credential'[u].secret = c.secret
                            /\ credential'[u].had = {c.secret}
                            /\ credential'[u].verified = FALSE
        /\ c.seen.id # 0 => /\ credential'[u].id = credential[u].id
                            /\ credential'[u].secret = c.secret
                            /\ credential'[u].had = credential[u].had \cup {c.secret}
                            /\ credential'[u].verified = credential[u].verified
    <2>1. CASE c.seen.id = 0
      <3> DEFINE new == [NoCredential EXCEPT !.id = issued + 1]
      <3>0. NoCredential \in CredentialRow
        BY DEF NoCredential, CredentialRow, Ids
      <3>1. /\ new \in CredentialRow /\ new.id = issued + 1
            /\ new.verified = FALSE /\ new.had = {}
        <4>1. \A x \in CredentialRow, n \in Nat :
                LET y == [x EXCEPT !.id = n]
                IN  /\ y \in CredentialRow /\ y.id = n
                    /\ y.verified = x.verified /\ y.had = x.had
          BY DEF CredentialRow, Ids
        <4>2. NoCredential.verified = FALSE /\ NoCredential.had = {}
          BY DEF NoCredential
        <4>3. issued + 1 \in Nat
          BY <1>0
        <4> QED
          BY <3>0, <4>1, <4>2, <4>3
      <3>2. credential' = [credential EXCEPT ![u] = Saved(new, c.secret)]
        BY <2>1 DEF CommitSave
      <3> HIDE DEF new
      <3> QED
        BY <1>0, <1>1, <2>1, <3>1, <3>2, SavedRow
    <2>2. CASE c.seen.id # 0
      <3>1. credential' = [credential EXCEPT ![u] = Saved(credential[u], c.secret)]
        BY <2>2 DEF CommitSave
      <3> QED
        BY <1>0, <1>1, <2>2, <3>1, SavedRow
    <2> QED
      BY <2>1, <2>2
  <1>5. NoCall \in CallRecord
    BY DEF NoCall, CallRecord, Operations, NoCredential, CredentialRow, Ids
  <1>6. TypeOK'
    BY <1>0, <1>2, <1>3, <1>4, <1>5 DEF IInv, TypeOK
  <1>7. \A v \in Users : credential[v] \in CredentialRow /\ credential[v].id \in Nat
    BY <1>0 DEF CredentialRow, Ids
  <1>8. IdsAreUnique'
    BY <1>0, <1>1, <1>3, <1>4, <1>7 DEF IdsAreUnique, Exists
  <1>9. CallsAreBound'
    <2> SUFFICES ASSUME NEW k \in Handlers, call'[k].op # "none"
                 PROVE  LET d == call'[k]
                        IN  /\ d.user \in Users
                            /\ d.seen.id <= issued'
                            /\ d.op \in {"save", "test_typed"} => d.secret \in Secrets
                            /\ d.op \in {"drop", "test_saved"} => d.seen.id # 0
                            /\ d.seen.id # 0 => /\ d.seen.secret \in Secrets
                                                /\ \A v \in Users \ {d.user} : credential'[v].id # d.seen.id
                            /\ credential'[d.user].id = d.seen.id /\ d.seen.id # 0
                                 => d.seen.secret \in credential'[d.user].had
      BY DEF CallsAreBound, SameRow
    <2>1. call'[k] = call[k] /\ call[k] \in CallRecord
      BY <1>0, <1>2 DEF NoCall
    <2> DEFINE d == call[k]
    <2>2. d.seen.id \in Nat
      BY <2>1 DEF CallRecord, CredentialRow, Ids
    <2>3. /\ d.user \in Users
          /\ d.seen.id <= issued
          /\ d.op \in {"save", "test_typed"} => d.secret \in Secrets
          /\ d.op \in {"drop", "test_saved"} => d.seen.id # 0
          /\ d.seen.id # 0 => /\ d.seen.secret \in Secrets
                              /\ \A v \in Users \ {d.user} : credential[v].id # d.seen.id
          /\ SameRow(d) /\ d.seen.id # 0 => d.seen.secret \in credential[d.user].had
      BY <1>0, <2>1 DEF CallsAreBound
    <2>4. d.seen.id <= issued'
      BY <1>0, <1>3, <2>2, <2>3
    <2>5. d.seen.id # 0 => \A v \in Users \ {d.user} : credential'[v].id # d.seen.id
      BY <1>0, <1>1, <1>4, <2>2, <2>3
    <2>6. credential'[d.user].id = d.seen.id /\ d.seen.id # 0 => d.seen.secret \in credential'[d.user].had
      BY <1>0, <1>1, <1>4, <2>1, <2>2, <2>3 DEF SameRow
    <2> QED
      BY <2>1, <2>3, <2>4, <2>5, <2>6
  <1>10. TestsAreBound'
    <2>1. \A t \in TestIds : tests[t].cred \in Nat
      BY DEF IInv, TypeOK, TestRow, Ids
    <2> QED
      BY <1>0, <1>1, <1>2, <1>3, <1>4, <1>7, <2>1 DEF TestsAreBound
  <1>11. VerifiedWasAccepted'
    BY <1>0, <1>1, <1>2, <1>4 DEF VerifiedWasAccepted
  <1>12. WorkerIsBound' /\ TestsAreHeld' /\ LoginProgress' /\ LoginIsBounded'
    BY <1>2 DEF IInv, WorkerIsBound, TestsAreHeld, LoginProgress, LoginIsBounded
  <1> QED
    BY <1>6, <1>8, <1>9, <1>10, <1>11, <1>12 DEF IInv

(* Dropping the row that was read keeps the invariant: the tests that      *)
(* named it name no row any more.                                          *)
LEMMA DropKeeps ==
  ASSUME IInv, NEW h \in Handlers, CommitDrop(h)
  PROVE  IInv'
  <1> DEFINE c == call[h]
             u == c.user
  <1>0. /\ credential \in [Users -> CredentialRow] /\ tests \in [TestIds -> TestRow]
        /\ call \in [Handlers -> CallRecord]
        /\ IdsAreUnique /\ CallsAreBound /\ TestsAreBound /\ VerifiedWasAccepted
    BY DEF IInv, TypeOK
  <1>1. u \in Users /\ credential[u].id = c.seen.id /\ c.seen.id # 0
    BY <1>0 DEF CommitDrop, CallsAreBound, SameRow
  <1>2. /\ call' = [call EXCEPT ![h] = NoCall] /\ calls' = calls
        /\ UNCHANGED <<issued, queued, accepted, batch, wk, login, restarts>>
        /\ credential' = [credential EXCEPT ![u] = NoCredential]
    BY DEF CommitDrop, Ends, WorkerUntouched
  <1>3. NoCall \in CallRecord /\ NoCredential \in CredentialRow
    BY DEF NoCall, CallRecord, Operations, NoCredential, CredentialRow, Ids
  <1>4. /\ tests' \in [TestIds -> TestRow]
        /\ \A t \in TestIds :
             /\ tests'[t].status = tests[t].status /\ tests'[t].user = tests[t].user
             /\ tests'[t].secret = tests[t].secret
             /\ tests'[t].cred = IF tests[t].cred = c.seen.id THEN 0 ELSE tests[t].cred
             /\ tests[t] = AbsentTest => tests'[t] = AbsentTest
    <2>1. tests' = [t \in TestIds |-> IF tests[t].cred = c.seen.id
                                       THEN [tests[t] EXCEPT !.cred = 0] ELSE tests[t]]
      BY DEF CommitDrop
    <2>2. \A t \in TestIds :
            /\ tests[t] \in TestRow
            /\ [tests[t] EXCEPT !.cred = 0] \in TestRow
      BY <1>0 DEF TestRow, Ids
    <2>3. \A t \in TestIds : tests[t] = AbsentTest => tests[t].cred # c.seen.id
      BY <1>1 DEF AbsentTest
    <2> QED
      BY <2>1, <2>2, <2>3 DEF TestRow
  <1>5. TypeOK'
    BY <1>2, <1>3, <1>4 DEF IInv, TypeOK
  <1>6. \A v \in Users : credential'[v] = IF v = u THEN NoCredential ELSE credential[v]
    BY <1>0, <1>2
  <1>7. IdsAreUnique'
    BY <1>0, <1>1, <1>2, <1>6 DEF IInv, TypeOK, IdsAreUnique, Exists, NoCredential
  <1>8. CallsAreBound'
    <2>1. \A k \in Handlers : call'[k].op # "none" => call'[k] = call[k]
      BY <1>0, <1>2 DEF NoCall
    <2> QED
      BY <1>0, <1>2, <1>6, <2>1 DEF CallsAreBound, SameRow, NoCredential
  <1>9. TestsAreBound'
    BY <1>0, <1>1, <1>2, <1>4, <1>6 DEF IInv, TypeOK, TestsAreBound, NoCredential
  <1>10. VerifiedWasAccepted'
    BY <1>0, <1>2, <1>6 DEF VerifiedWasAccepted, NoCredential
  <1>11. WorkerIsBound' /\ TestsAreHeld' /\ LoginProgress' /\ LoginIsBounded'
    BY <1>2, <1>4 DEF IInv, WorkerIsBound, TestsAreHeld, LoginProgress, LoginIsBounded
  <1> QED
    BY <1>5, <1>7, <1>8, <1>9, <1>10, <1>11 DEF IInv

(* A test that is queued names a row only if that row is still there and   *)
(* has held the pair the test carries.                                     *)
LEMMA QueueKeeps ==
  ASSUME IInv, NEW h \in Handlers, CommitTest(h)
  PROVE  IInv'
  <1> DEFINE c == call[h]
             new == QueuedTest(c)
  <1>0. /\ credential \in [Users -> CredentialRow] /\ tests \in [TestIds -> TestRow]
        /\ call \in [Handlers -> CallRecord] /\ queued \in 0 .. MaxTests
        /\ IdsAreUnique /\ CallsAreBound /\ TestsAreBound /\ VerifiedWasAccepted
    BY DEF IInv, TypeOK
  <1>1. /\ call' = [call EXCEPT ![h] = NoCall] /\ calls' = calls
        /\ UNCHANGED <<credential, issued, accepted, batch, wk, login, restarts>>
        /\ queued' = queued + 1 /\ queued' \in TestIds
        /\ tests' = [tests EXCEPT ![queued'] = new]
        /\ c.op \in {"test_saved", "test_typed"}
        /\ new.cred \in {0, credential[c.user].id}
    BY <1>0 DEF CommitTest, Ends, WorkerUntouched, TestIds
  <1>2. /\ c.user \in Users /\ c.seen.id <= issued /\ c.seen.id \in Nat
        /\ c.op = "test_typed" => c.secret \in Secrets
        /\ c.op = "test_saved" => c.seen.id # 0 /\ c.seen.secret \in Secrets
        /\ SameRow(c) /\ c.seen.id # 0 => c.seen.secret \in credential[c.user].had
    BY <1>0, <1>1 DEF CallsAreBound, CallRecord, CredentialRow, Ids
  <1>3. /\ new \in TestRow /\ new.status = "pending" /\ new.user = c.user
        /\ new.cred # 0 => /\ new.cred = c.seen.id /\ new.secret = c.seen.secret
                           /\ SameRow(c)
        /\ new.cred <= issued
    <2>1. CASE c.op = "test_saved"
      BY <1>0, <1>1, <1>2, <2>1 DEF QueuedTest, TestRow, TestStatus, Ids, SameRow
    <2>2. CASE c.op = "test_typed"
      BY <1>0, <1>1, <1>2, <2>2 DEF QueuedTest, TestRow, TestStatus, Ids, SameRow, IInv, TypeOK
    <2> QED
      BY <1>1, <2>1, <2>2
  <1>4. NoCall \in CallRecord
    BY DEF NoCall, CallRecord, Operations, NoCredential, CredentialRow, Ids
  <1> HIDE DEF new
  <1>5. \A t \in TestIds : tests'[t] = IF t = queued' THEN new ELSE tests[t]
    BY <1>0, <1>1
  <1>6. TypeOK'
    BY <1>0, <1>1, <1>3, <1>4 DEF IInv, TypeOK, TestIds
  <1>7. IdsAreUnique' /\ VerifiedWasAccepted'
    BY <1>0, <1>1 DEF IdsAreUnique, VerifiedWasAccepted, Exists
  <1>8. CallsAreBound'
    <2>1. \A k \in Handlers : call'[k].op # "none" => call'[k] = call[k]
      BY <1>0, <1>1 DEF NoCall
    <2> QED
      BY <1>0, <1>1, <2>1 DEF CallsAreBound, SameRow
  <1>9. TestsAreBound'
    <2>1. \A t \in TestIds : t <= queued => t # queued'
      BY <1>0, <1>1 DEF TestIds
    <2>2. \A t \in TestIds : t > queued' => t > queued /\ t # queued'
      BY <1>0, <1>1 DEF TestIds
    <2>3. \A t \in TestIds : t <= queued' => t <= queued \/ t = queued'
      BY <1>0, <1>1 DEF TestIds
    <2>4. new.cred # 0 => \A v \in Users : credential[v].id = new.cred
                                             => new.secret \in credential[v].had
      BY <1>0, <1>2, <1>3 DEF IdsAreUnique, SameRow, Exists
    <2> QED
      BY <1>0, <1>1, <1>2, <1>3, <1>5, <2>1, <2>2, <2>3, <2>4 DEF TestsAreBound
  <1>10. WorkerIsBound' /\ TestsAreHeld' /\ LoginProgress' /\ LoginIsBounded'
    <2>1. \A t \in TestIds : t <= queued => t # queued'
      BY <1>0, <1>1 DEF TestIds
    <2>2. \A t \in TestIds : t > queued => tests[t].status = "absent"
      BY <1>0 DEF TestsAreBound, AbsentTest
    <2> QED
      BY <1>1, <1>3, <1>5, <2>1, <2>2, CallsKeepWorker
  <1> QED
    BY <1>6, <1>7, <1>8, <1>9, <1>10 DEF IInv

------------------------------------------------------------------------------
(* The theorems. *)

(* The invariant holds at the start. *)
LEMMA ConnectionsInit == Init => IInv
  <1> SUFFICES ASSUME Init PROVE IInv
    OBVIOUS
  <1> USE DEF Init, NoCredential, AbsentTest, NoCall, NoLogin, WorkerAt
  <1>1. TypeOK
    BY DEF TypeOK, CredentialRow, Ids, TestRow, TestStatus, CallRecord, Operations,
           Outcomes, WorkerRecord, Pcs, LoginRecord, LoginPcs, Frames, MenuTries
  <1>2. IdsAreUnique /\ CallsAreBound
    BY DEF IdsAreUnique, CallsAreBound, Exists
  <1>3. TestsAreBound
    BY DEF TestsAreBound, TestIds
  <1>4. WorkerIsBound /\ TestsAreHeld /\ VerifiedWasAccepted
    BY DEF WorkerIsBound, TestsAreHeld, VerifiedWasAccepted
  <1>5. LoginProgress /\ LoginIsBounded
    BY DEF LoginProgress, LoginIsBounded
  <1> QED
    BY <1>1, <1>2, <1>3, <1>4, <1>5 DEF IInv

(* Every step keeps it. *)
LEMMA ConnectionsStep == IInv /\ [Next]_vars => IInv'
  <1> SUFFICES ASSUME IInv, [Next]_vars PROVE IInv'
    OBVIOUS
  <1>1. ASSUME NEW h \in Handlers, Reads(h) \/ Answers(h)
        PROVE  IInv'
    <2>1. CASE Reads(h)
      BY <2>1, ReadKeeps
    <2>2. CASE CommitSave(h)
      BY <2>2, SaveKeeps
    <2>3. CASE CommitDrop(h)
      BY <2>3, DropKeeps
    <2>4. CASE CommitTest(h)
      BY <2>4, QueueKeeps
    <2>5. CASE CallFails(h)
      BY <2>5, ReplyKeeps DEF CallFails, Ends, WorkerUntouched
    <2> QED
      BY <1>1, <2>1, <2>2, <2>3, <2>4, <2>5 DEF Answers
  <1>2. CASE StartBatch
    <2>1. /\ batch' = "waiting" /\ calls' = calls + 1 /\ calls < MaxCalls
          /\ UNCHANGED <<store, call, accepted, wk, login, restarts>> /\ batch # "waiting"
      BY <1>2 DEF StartBatch
    <2>2. TypeOK'
      BY <2>1 DEF IInv, TypeOK, store, Outcomes
    <2>3. IdsAreUnique' /\ CallsAreBound' /\ TestsAreBound' /\ VerifiedWasAccepted'
      BY <2>1 DEF IInv, IdsAreUnique, CallsAreBound, TestsAreBound, VerifiedWasAccepted,
                  Exists, SameRow, store
    <2>4. WorkerIsBound' /\ TestsAreHeld' /\ LoginProgress' /\ LoginIsBounded'
      BY <2>1 DEF IInv, WorkerIsBound, TestsAreHeld, LoginProgress, LoginIsBounded, store
    <2> QED
      BY <2>2, <2>3, <2>4 DEF IInv
  <1>3. CASE WorkerStep
    BY <1>3, TestingKeeps, StampKeeps, TakeAndCrashKeep, LoginKeeps DEF WorkerStep
  <1>4. CASE Crash
    BY <1>4, TakeAndCrashKeep
  <1>5. CASE UNCHANGED vars
    <2>1. TypeOK'
      BY <1>5 DEF IInv, TypeOK, vars
    <2>2. IdsAreUnique' /\ CallsAreBound' /\ TestsAreBound' /\ VerifiedWasAccepted'
      BY <1>5 DEF IInv, IdsAreUnique, CallsAreBound, TestsAreBound, VerifiedWasAccepted,
                  Exists, SameRow, vars
    <2>3. WorkerIsBound' /\ TestsAreHeld' /\ LoginProgress' /\ LoginIsBounded'
      BY <1>5 DEF IInv, WorkerIsBound, TestsAreHeld, LoginProgress, LoginIsBounded, vars
    <2> QED
      BY <2>1, <2>2, <2>3 DEF IInv
  <1> QED
    BY <1>1, <1>2, <1>3, <1>4, <1>5 DEF Next

(* The inductive invariant of rows, tests, worker and login holds in every *)
(* reachable state, whatever overlaps, fails or dies.                      *)
THEOREM ConnectionsInvariant == Spec => []IInv
  BY ConnectionsInit, ConnectionsStep, PTL DEF Spec

(* Rows, calls, tests and the locals of the worker keep their types. *)
THEOREM ConnectionTypes == Spec => []TypeOK
  <1>1. IInv => TypeOK
    BY DEF IInv
  <1> QED
    BY <1>1, ConnectionsInvariant, PTL

(* A row of catasto_credentials is stamped verified only if the portal has *)
(* let in a pair that this row has held, edits and re-creations during the *)
(* test included.                                                          *)
THEOREM VerifiedHolds == Spec => []VerifiedWasAccepted
  <1>1. IInv => VerifiedWasAccepted
    BY DEF IInv
  <1> QED
    BY <1>1, ConnectionsInvariant, PTL

(* No test stays PROCESSING that no worker has in hand or will recover. *)
THEOREM TestsHeld == Spec => []TestsAreHeld
  <1>1. IInv => TestsAreHeld
    BY DEF IInv
  <1> QED
    BY <1>1, ConnectionsInvariant, PTL

(* One login types the pair in three times and closes the other session    *)
(* twice at most, whatever the portal answers.                             *)
THEOREM LoginBounded == Spec => []LoginIsBounded
  <1>1. IInv => LoginIsBounded
    BY DEF IInv
  <1> QED
    BY <1>1, ConnectionsInvariant, PTL

(* No step changes the outcome of a test. *)
THEOREM OutcomesKept == Spec => OutcomesStay
  <1> DEFINE Settled(t) == tests[t].status \in {"completed", "failed"}
  <1>1. ASSUME IInv, [Next]_vars, NEW t \in TestIds, Settled(t)
        PROVE  tests'[t].status = tests[t].status
    <2>0. /\ tests \in [TestIds -> TestRow] /\ WorkerIsBound /\ TestsAreBound
          /\ queued \in 0 .. MaxTests
      BY <1>1 DEF IInv, TypeOK
    <2>1. ASSUME NEW h \in Handlers, CommitTest(h)
          PROVE  tests'[t].status = tests[t].status
      <3>1. t <= queued
        BY <1>1, <2>0 DEF TestsAreBound, AbsentTest, TestIds
      <3> QED
        BY <1>1, <2>0, <2>1, <3>1 DEF CommitTest, TestIds
    <2>2. ASSUME NEW h \in Handlers, CommitDrop(h)
          PROVE  tests'[t].status = tests[t].status
      <3>1. tests'[t] \in {tests[t], [tests[t] EXCEPT !.cred = 0]}
        BY <1>1, <2>2 DEF CommitDrop
      <3> QED
        BY <2>0, <3>1 DEF TestRow
    <2>3. ASSUME NEW h \in Handlers, Reads(h) \/ CommitSave(h) \/ CallFails(h)
          PROVE  tests'[t].status = tests[t].status
      BY <2>3 DEF Reads, ReadForDrop, ReadForSavedTest, ReadForSave, ReadForTypedTest,
                  Begin, CommitSave, CallFails, Ends, store
    <2>4. CASE Boot
      BY <1>1, <2>0, <2>4 DEF Boot, Recovered
    <2>5. CASE BeginTest \/ TestFails \/ StampResult
      <3>1. wk.test \in TestIds /\ tests[wk.test].status \in {"pending", "processing"}
        BY <2>0, <2>5 DEF BeginTest, TestFails, StampResult, WorkerIsBound
      <3> QED
        BY <1>1, <2>0, <2>5, <3>1 DEF BeginTest, TestFails, StampResult
    <2>6. CASE (\E x \in TestIds : ClaimTest(x)) \/ OpenPortal \/ Probe \/ TakeBatch
      BY <2>6 DEF ClaimTest, OpenPortal, Probe, TakeBatch
    <2>7. CASE LoginStep
      BY <2>7 DEF LoginStep, Submit, ReachMenu, MenuTimesOut, Classify, CloseSession,
                  CloseInTryFails, CloseLateFails, RaisesLocked, LoginEnds, LoginOnly
    <2>8. CASE StartBatch \/ Crash \/ UNCHANGED vars
      BY <2>8 DEF StartBatch, Crash, vars, store
    <2> QED
      BY <1>1, <2>1, <2>2, <2>3, <2>4, <2>5, <2>6, <2>7, <2>8
      DEF Next, Answers, WorkerStep
  <1>2. IInv /\ [Next]_vars
          => [\A t \in TestIds : tests[t].status \in {"completed", "failed"}
                => tests'[t].status = tests[t].status]_vars
    BY <1>1
  <1> QED
    BY <1>2, ConnectionsInvariant, PTL DEF Spec, OutcomesStay

(* No step fails a batch for a locked account before the session held      *)
(* elsewhere was closed once.                                              *)
THEOREM LockedOnlyAfterRecovery == Spec => LockedAfterRecovery
  <1>1. ASSUME IInv, [Next]_vars, batch = "waiting", batch' = "locked"
        PROVE  login.recoveries > 0
    <2>0. login \in LoginRecord /\ LoginProgress
      BY <1>1 DEF IInv, TypeOK
    <2>1. LoginStep
      BY <1>1 DEF Next, Reads, ReadForDrop, ReadForSavedTest, ReadForSave,
                  ReadForTypedTest, Begin, Answers, CommitSave, CommitDrop, CommitTest,
                  CallFails, Ends, WorkerUntouched, StartBatch, WorkerStep, Boot, ClaimTest,
                  BeginTest, OpenPortal, Probe, StampResult, TestFails, TakeBatch,
                  TestOnly, Crash, vars
    <2>2. login.frame # "outer"
      BY <1>1, <2>1 DEF LoginStep, Submit, ReachMenu, MenuTimesOut, Classify, CloseSession,
                        CloseInTryFails, CloseLateFails, RaisesLocked, LoginEnds, LoginOnly,
                        MayRecover
    <2>3. login.frame \in {"inner", "last"}
      BY <2>0, <2>2 DEF LoginRecord, Frames
    <2> QED
      BY <2>0, <2>3 DEF LoginProgress
  <1>2. IInv /\ [Next]_vars
          => [batch = "waiting" /\ batch' = "locked" => login.recoveries > 0]_vars
    BY <1>1
  <1> QED
    BY <1>2, ConnectionsInvariant, PTL DEF Spec, LockedAfterRecovery
==============================================================================
