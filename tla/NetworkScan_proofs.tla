------------------------- MODULE NetworkScan_proofs -------------------------
(* Proofs about NetworkScan, for every set of scanners and addresses.  All *)
(* steps but Commit move one scanner and leave the tables alone: QuietStep *)
(* says what such a step must respect.                                     *)
EXTENDS NetworkScan, TLAPS

USE ScanAssumption

LEMMA StepFacts ==
  ASSUME NEW s \in Scanners, NEW rec, scan \in [Scanners -> LocalRecord],
         Step(s, rec)
  PROVE  /\ scan'[s] = rec
         /\ \A k \in Scanners \ {s} : scan'[k] = scan[k]
         /\ rec \in LocalRecord => scan' \in [Scanners -> LocalRecord]
  BY DEF Step

(* The locks of another scanner are among those a scanner waits for.       *)
LEMMA LockedBy ==
  ASSUME IInv, NEW s \in Scanners, NEW k \in Scanners \ {s}
  PROVE  /\ scan[k].sent \subseteq Locked(s)
         /\ scan[k].sent \cap scan[s].sent = {}
  <1>1. scan[k].sent \subseteq Locked(s)
    <2>1. CASE scan[k].pc \in InTransaction
      BY <2>1 DEF Locked, Others
    <2>2. CASE scan[k].pc \notin InTransaction
      BY <2>2 DEF IInv, WritesAreExclusive, Owned
    <2> QED
      BY <2>1, <2>2
  <1>2. scan[s].sent \cap Locked(s) = {}
    BY DEF IInv, WritesAreExclusive
  <1> QED
    BY <1>1, <1>2

LEMMA IdleFacts ==
  /\ Idle \in LocalRecord /\ Idle.pc = "idle"
  /\ Idle.sent = {} /\ Idle.new = {} /\ Idle.gone = {}
  BY DEF Idle, LocalRecord, InTransaction, Loaded, Statuses

LEMMA InitInv == Init => IInv
  <1> SUFFICES ASSUME Init PROVE IInv
    OBVIOUS
  <1>1. \A s \in Scanners : scan[s] = Idle
    BY DEF Init
  <1>2. TypeOK
    BY IdleFacts DEF Init, TypeOK, Statuses
  <1>3. IdsAreIssued /\ VisitsCoverSeen /\ LoneIsUndisturbed
    BY <1>1, IdleFacts
       DEF Init, IdsAreIssued, VisitsCoverSeen, Visited, LoneIsUndisturbed,
           Undisturbed, InTransaction, Loaded
  <1>4. WritesAreExclusive
    BY <1>1, IdleFacts DEF WritesAreExclusive, Owned
  <1>5. DevicesAreAnnouncedOnce /\ ReportsAreFounded
    BY DEF Init, DevicesAreAnnouncedOnce, ReportsAreFounded
  <1>6. OnlineSinceAlert /\ OneAlertPerOutage
    BY DEF Init, OnlineSinceAlert, OneAlertPerOutage
  <1> QED
    BY <1>2, <1>3, <1>4, <1>5, <1>6 DEF IInv

(* What OneAlertPerOutage depends on.                                      *)
LEMMA SameOutages ==
  ASSUME OneAlertPerOutage, scans' = scans, alerts' = alerts, before' = before,
         overlapped' = overlapped
  PROVE  OneAlertPerOutage'
  BY DEF OneAlertPerOutage

-----------------------------------------------------------------------------
(* The steps that leave the tables alone.                                  *)

KeepsId(s, rec) ==
  /\ nextId' = nextId
  /\ rec.pc \in InTransaction => scan[s].pc \in InTransaction /\ rec.id = scan[s].id

TakesId(rec) == nextId' = nextId + 1 /\ rec.id = nextId + 1

LEMMA QuietStep ==
  ASSUME IInv, NEW s \in Scanners, NEW rec \in LocalRecord, Step(s, rec),
         UNCHANGED <<tables, overlapped>>,
         KeepsId(s, rec) \/ TakesId(rec),
         Owned(rec), Visited(rec), Undisturbed(rec),
         rec.sent \cap Locked(s) = {}
  PROVE  IInv'
  <1> USE DEF IInv
  <1>1. /\ scan'[s] = rec /\ scan' \in [Scanners -> LocalRecord]
        /\ \A k \in Scanners \ {s} : scan'[k] = scan[k]
    BY StepFacts DEF TypeOK
  <1>2. /\ status' = status /\ lastScan' = lastScan /\ scans' = scans
        /\ alerts' = alerts /\ before' = before /\ overlapped' = overlapped
    BY DEF tables
  <1>3. nextId' \in Nat /\ nextId <= nextId'
    BY DEF KeepsId, TakesId, TypeOK
  <1>4. TypeOK'
    BY <1>1, <1>2, <1>3 DEF TypeOK
  <1>5. IdsAreIssued'
    <2>1. /\ \A x \in scans : x.id \in 1..nextId'
          /\ \A p \in before : \E x, y \in scans : p = <<x.id, y.id>>
      BY <1>3 DEF IdsAreIssued, TypeOK
    <2>2. ASSUME NEW k \in Scanners, scan'[k].pc \in InTransaction
          PROVE  /\ scan'[k].id \in 1..nextId'
                 /\ \A x \in scans : x.id # scan'[k].id
      <3>1. CASE k = s /\ TakesId(rec)
        BY <1>1, <3>1 DEF IdsAreIssued, TakesId, TypeOK
      <3>2. CASE k # s \/ KeepsId(s, rec)
        <4>1. scan[k].pc \in InTransaction /\ scan'[k].id = scan[k].id
          BY <1>1, <2>2, <3>2 DEF KeepsId
        <4> QED
          BY <1>3, <4>1 DEF IdsAreIssued, TypeOK
      <3> QED
        BY <3>1, <3>2
    <2>3. ASSUME NEW k \in Scanners, NEW l \in Scanners, k # l,
                 scan'[k].pc \in InTransaction, scan'[l].pc \in InTransaction
          PROVE  scan'[k].id # scan'[l].id
      <3>1. CASE KeepsId(s, rec)
        <4>1. /\ scan[k].pc \in InTransaction /\ scan'[k].id = scan[k].id
              /\ scan[l].pc \in InTransaction /\ scan'[l].id = scan[l].id
          BY <1>1, <2>3, <3>1 DEF KeepsId
        <4> QED
          BY <2>3, <4>1 DEF IdsAreIssued, Others
      <3>2. CASE TakesId(rec)
        <4>1. \A m \in Scanners \ {s} : scan'[m].pc \in InTransaction =>
                scan'[m].id \in 1..nextId
          BY <1>1 DEF IdsAreIssued
        <4>2. CASE k # s /\ l # s
          BY <1>1, <2>3, <4>2 DEF IdsAreIssued, Others
        <4>3. CASE k = s \/ l = s
          BY <1>1, <2>3, <3>2, <4>1, <4>3 DEF TakesId, TypeOK
        <4> QED
          BY <4>2, <4>3
      <3> QED
        BY <3>1, <3>2
    <2> QED
      BY <1>2, <2>1, <2>2, <2>3 DEF IdsAreIssued, Others
  <1>6. WritesAreExclusive'
    <2>1. \A k \in Scanners : Owned(scan[k])'
      BY <1>1, <1>2 DEF WritesAreExclusive, Owned
    <2>2. ASSUME NEW k \in Scanners, NEW l \in Scanners, k # l
          PROVE  scan'[k].sent \cap scan'[l].sent = {}
      BY <1>1, <2>2, LockedBy
    <2>3. \A k \in Scanners : scan'[k].sent \cap Locked(k)' = {}
      BY <2>2 DEF Locked, Others
    <2> QED
      BY <2>1, <2>3 DEF WritesAreExclusive
  <1>7. VisitsCoverSeen'
    BY <1>1, <1>2 DEF VisitsCoverSeen, Visited
  <1>8. LoneIsUndisturbed'
    BY <1>1, <1>2 DEF LoneIsUndisturbed, Undisturbed, Missed
  <1>9. DevicesAreAnnouncedOnce' /\ ReportsAreFounded'
    BY <1>2 DEF DevicesAreAnnouncedOnce, ReportsAreFounded
  <1>10. OnlineSinceAlert'
    BY <1>2 DEF OnlineSinceAlert
  <1>11. OneAlertPerOutage'
    BY <1>2, SameOutages
  <1> QED
    BY <1>4, <1>5, <1>6, <1>7, <1>8, <1>9, <1>10, <1>11

(* Discovery, and every way in which a scan is rolled back.                *)
LEMMA OutsideInv ==
  ASSUME IInv, NEW s \in Scanners, Discover(s) \/ RefuseDuplicate(s) \/ Fail(s)
  PROVE  IInv'
  <1>1. PICK rec \in LocalRecord :
          /\ Step(s, rec) /\ rec.pc \in {"idle", "discovered"}
          /\ rec.sent = {} /\ rec.new = {} /\ rec.gone = {}
          /\ UNCHANGED <<tables, nextId, overlapped>>
    <2>1. CASE Discover(s)
      <3>1. PICK seen \in SUBSET Hosts :
              Step(s, [Idle EXCEPT !.pc = "discovered", !.seen = seen])
        BY <2>1 DEF Discover
      <3> DEFINE rec == [Idle EXCEPT !.pc = "discovered", !.seen = seen]
      <3>2. rec \in LocalRecord
        BY IdleFacts DEF LocalRecord
      <3>3. rec.pc = "discovered" /\ rec.sent = {} /\ rec.new = {} /\ rec.gone = {}
        BY DEF Idle
      <3> QED
        BY <2>1, <3>1, <3>2, <3>3 DEF Discover
    <2>2. CASE RefuseDuplicate(s) \/ Fail(s)
      BY <2>2, IdleFacts DEF RefuseDuplicate, Fail
    <2> QED
      BY <2>1, <2>2
  <1>2. KeepsId(s, rec) /\ Owned(rec) /\ Visited(rec) /\ Undisturbed(rec)
    BY <1>1 DEF KeepsId, Owned, Visited, Undisturbed, InTransaction, Loaded
  <1> QED
    BY <1>1, <1>2, QuietStep

(* What the invariant says of one scan in a transaction.                   *)
LEMMA ScanFacts ==
  ASSUME IInv, NEW s \in Scanners
  PROVE  /\ scan[s] \in LocalRecord
         /\ Owned(scan[s]) /\ Visited(scan[s]) /\ Undisturbed(scan[s])
         /\ scan[s].sent \cap Locked(s) = {}
  BY DEF IInv, TypeOK, WritesAreExclusive, VisitsCoverSeen, LoneIsUndisturbed

LEMMA InsertScanInv ==
  ASSUME IInv, NEW s \in Scanners, InsertScan(s)
  PROVE  IInv'
  <1> DEFINE rec == [scan[s] EXCEPT !.pc = "inserted", !.id = nextId + 1]
  <1>1. Step(s, rec) /\ scan[s].pc = "discovered" /\ nextId' = nextId + 1
        /\ UNCHANGED <<tables, overlapped>>
    BY DEF InsertScan
  <1>2. scan[s].sent = {} /\ scan[s].new = {} /\ scan[s].gone = {}
    BY <1>1, ScanFacts DEF Owned, Visited, InTransaction, Loaded
  <1>3. /\ rec \in LocalRecord /\ rec.pc = "inserted" /\ rec.id = nextId + 1
        /\ rec.sent = {} /\ rec.new = {} /\ rec.gone = {}
    <2>1. nextId + 1 \in Nat
      BY DEF IInv, TypeOK
    <2> QED
      BY <1>2, <2>1, ScanFacts DEF LocalRecord, InTransaction
  <1> HIDE DEF rec
  <1>4. TakesId(rec) /\ Owned(rec) /\ Visited(rec) /\ Undisturbed(rec)
    BY <1>1, <1>3 DEF TakesId, Owned, Visited, Undisturbed, InTransaction, Loaded
  <1> QED
    BY <1>1, <1>3, <1>4, QuietStep

LEMMA LoadInv ==
  ASSUME IInv, NEW s \in Scanners, Load(s)
  PROVE  IInv'
  <1> DEFINE rec == [scan[s] EXCEPT !.pc = "visit", !.loaded = status,
                                    !.todo = scan[s].seen, !.disturbed = FALSE]
  <1>1. Step(s, rec) /\ scan[s].pc = "inserted"
        /\ UNCHANGED <<tables, nextId, overlapped>>
    BY DEF Load
  <1>2. status \in [Hosts -> Statuses]
    BY DEF IInv, TypeOK
  <1>3. scan[s].new = {} /\ scan[s].gone = {}
    BY <1>1, ScanFacts DEF Visited, Loaded
  <1>4. /\ rec \in LocalRecord /\ rec.pc = "visit" /\ rec.id = scan[s].id
        /\ rec.loaded = status /\ rec.todo = rec.seen
        /\ rec.sent = scan[s].sent /\ rec.new = {} /\ rec.gone = {}
    <2>1. scan[s].seen \in SUBSET Hosts
      BY ScanFacts DEF LocalRecord
    <2>2. /\ rec.pc = "visit" /\ rec.id = scan[s].id /\ rec.loaded = status
          /\ rec.todo = scan[s].seen /\ rec.seen = scan[s].seen
          /\ rec.sent = scan[s].sent /\ rec.new = scan[s].new
          /\ rec.gone = scan[s].gone
      BY ScanFacts DEF LocalRecord
    <2>3. "visit" \in {"idle", "discovered"} \cup InTransaction
      BY DEF InTransaction, Loaded
    <2>4. rec \in LocalRecord
      BY <1>2, <2>1, <2>3, ScanFacts DEF LocalRecord
    <2> QED
      BY <1>3, <2>2, <2>4
  <1> HIDE DEF rec
  <1>5. KeepsId(s, rec) /\ Owned(rec) /\ Visited(rec) /\ Undisturbed(rec)
    BY <1>1, <1>3, <1>4, ScanFacts
       DEF KeepsId, Owned, Visited, Undisturbed, InTransaction, Loaded
  <1> QED
    BY <1>1, <1>4, <1>5, ScanFacts, QuietStep

LEMMA VisitInv ==
  ASSUME IInv, NEW s \in Scanners, NEW h \in Hosts, Refresh(s, h) \/ Add(s, h)
  PROVE  IInv'
  <1>1. CASE Refresh(s, h)
    <2> DEFINE rec == [scan[s] EXCEPT !.todo = @ \ {h}, !.dirty = @ \cup {h}]
    <2>1. /\ Step(s, rec) /\ UNCHANGED <<tables, nextId, overlapped>>
          /\ scan[s].pc = "visit" /\ h \in scan[s].todo
          /\ scan[s].loaded[h] # "absent"
      BY <1>1 DEF Refresh
    <2>2. /\ rec \in LocalRecord /\ rec.pc = "visit" /\ rec.id = scan[s].id
          /\ rec.todo = scan[s].todo \ {h} /\ rec.seen = scan[s].seen
          /\ rec.loaded = scan[s].loaded /\ rec.sent = scan[s].sent
          /\ rec.new = scan[s].new /\ rec.gone = scan[s].gone
          /\ rec.disturbed = scan[s].disturbed
      BY <2>1, ScanFacts DEF LocalRecord, InTransaction, Loaded
    <2> HIDE DEF rec
    <2>3. KeepsId(s, rec) /\ Owned(rec) /\ Undisturbed(rec)
      BY <2>1, <2>2, ScanFacts DEF KeepsId, Owned, Undisturbed, InTransaction, Loaded
    <2>4. Visited(rec)
      BY <2>1, <2>2, ScanFacts DEF Visited, InTransaction, Loaded
    <2> QED
      BY <2>1, <2>2, <2>3, <2>4, ScanFacts, QuietStep
  <1>2. CASE Add(s, h)
    <2> DEFINE rec == [scan[s] EXCEPT !.pc = "insert", !.row = h]
    <2>1. /\ Step(s, rec) /\ UNCHANGED <<tables, nextId, overlapped>>
          /\ scan[s].pc = "visit" /\ h \in scan[s].todo
          /\ scan[s].loaded[h] = "absent"
      BY <1>2 DEF Add
    <2>2. /\ rec \in LocalRecord /\ rec.pc = "insert" /\ rec.id = scan[s].id
          /\ rec.row = h /\ rec.todo = scan[s].todo /\ rec.seen = scan[s].seen
          /\ rec.loaded = scan[s].loaded /\ rec.sent = scan[s].sent
          /\ rec.new = scan[s].new /\ rec.gone = scan[s].gone
          /\ rec.disturbed = scan[s].disturbed
      BY <2>1, ScanFacts DEF LocalRecord, InTransaction, Loaded
    <2> HIDE DEF rec
    <2>3. KeepsId(s, rec) /\ Owned(rec) /\ Undisturbed(rec)
      BY <2>1, <2>2, ScanFacts DEF KeepsId, Owned, Undisturbed, InTransaction, Loaded
    <2>4. Visited(rec)
      BY <2>1, <2>2, ScanFacts DEF Visited, InTransaction, Loaded
    <2> QED
      BY <2>1, <2>2, <2>3, <2>4, ScanFacts, QuietStep
  <1> QED
    BY <1>1, <1>2

LEMMA SendInv ==
  ASSUME IInv, NEW s \in Scanners, NEW h \in Hosts, SendRow(s, h)
  PROVE  IInv'
  <1> DEFINE rec == [scan[s] EXCEPT !.dirty = @ \ {h}, !.sent = @ \cup {h}]
  <1>1. /\ Step(s, rec) /\ UNCHANGED <<tables, nextId, overlapped>>
        /\ scan[s].pc \in {"insert", "commit"} /\ h \notin Locked(s)
    BY DEF SendRow
  <1>2. /\ rec \in LocalRecord /\ rec.pc = scan[s].pc /\ rec.id = scan[s].id
        /\ rec.row = scan[s].row /\ rec.todo = scan[s].todo
        /\ rec.seen = scan[s].seen /\ rec.loaded = scan[s].loaded
        /\ rec.sent = scan[s].sent \cup {h}
        /\ rec.new = scan[s].new /\ rec.gone = scan[s].gone
        /\ rec.disturbed = scan[s].disturbed
    BY <1>1, ScanFacts DEF LocalRecord, InTransaction, Loaded
  <1> HIDE DEF rec
  <1>3. KeepsId(s, rec) /\ Owned(rec) /\ Undisturbed(rec)
    BY <1>1, <1>2, ScanFacts DEF KeepsId, Owned, Undisturbed, InTransaction, Loaded
  <1>4. Visited(rec)
    BY <1>1, <1>2, ScanFacts DEF Visited, InTransaction, Loaded
  <1>5. rec.sent \cap Locked(s) = {}
    BY <1>1, <1>2, ScanFacts
  <1> QED
    BY <1>1, <1>2, <1>3, <1>4, <1>5, QuietStep

LEMMA InsertInv ==
  ASSUME IInv, NEW s \in Scanners, InsertDevice(s)
  PROVE  IInv'
  <1> DEFINE h == scan[s].row
             rec == [scan[s] EXCEPT !.pc = "visit", !.row = None,
                                    !.todo = @ \ {scan[s].row},
                                    !.sent = @ \cup {scan[s].row},
                                    !.new = @ \cup {scan[s].row}]
  <1>1. /\ Step(s, rec) /\ UNCHANGED <<tables, nextId, overlapped>>
        /\ scan[s].pc = "insert" /\ h \notin Locked(s) /\ status[h] = "absent"
    BY DEF InsertDevice, MayInsert, Duplicate
  <1>2. h \in scan[s].todo /\ h \in Hosts /\ scan[s].loaded[h] = "absent"
        /\ h \in scan[s].seen /\ scan[s].gone = {}
    BY <1>1, ScanFacts DEF Visited, InTransaction, Loaded, LocalRecord
  <1>3. /\ rec \in LocalRecord /\ rec.pc = "visit" /\ rec.id = scan[s].id
        /\ rec.todo = scan[s].todo \ {h} /\ rec.seen = scan[s].seen
        /\ rec.loaded = scan[s].loaded /\ rec.sent = scan[s].sent \cup {h}
        /\ rec.new = scan[s].new \cup {h} /\ rec.gone = {}
        /\ rec.disturbed = scan[s].disturbed
    BY <1>2, ScanFacts DEF LocalRecord, InTransaction, Loaded
  <1> HIDE DEF rec, h
  <1>4. KeepsId(s, rec) /\ Owned(rec) /\ Undisturbed(rec)
    BY <1>1, <1>3, ScanFacts DEF KeepsId, Owned, Undisturbed, InTransaction, Loaded
  <1>5. Visited(rec)
    <2>1. scan[s].new = {g \in scan[s].seen \ scan[s].todo : scan[s].loaded[g] = "absent"}
          /\ scan[s].todo \subseteq scan[s].seen
      BY <1>1, ScanFacts DEF Visited, InTransaction, Loaded
    <2>2. rec.new = {g \in rec.seen \ rec.todo : rec.loaded[g] = "absent"}
      BY <1>2, <1>3, <2>1
    <2> QED
      BY <1>1, <1>3, <2>1, <2>2, ScanFacts DEF Visited, InTransaction, Loaded
  <1>6. rec.sent \cap Locked(s) = {}
    BY <1>1, <1>3, ScanFacts
  <1> QED
    BY <1>1, <1>3, <1>4, <1>5, <1>6, QuietStep

LEMMA MarkInv ==
  ASSUME IInv, NEW s \in Scanners, MarkOffline(s)
  PROVE  IInv'
  <1> DEFINE gone == Missed(scan[s].seen)
             dirty == scan[s].dirty \cup {h \in gone : scan[s].loaded[h] # "offline"}
             rec == [scan[s] EXCEPT !.pc = "commit", !.gone = gone, !.dirty = dirty]
  <1>1. /\ Step(s, rec) /\ UNCHANGED <<tables, nextId, overlapped>>
        /\ scan[s].pc = "visit" /\ scan[s].todo = {}
    BY DEF MarkOffline
  <1>2. gone \subseteq Hosts /\ \A h \in gone : h \notin scan[s].seen
                                                /\ status[h] # "absent"
    BY DEF Missed
  <1> HIDE DEF gone
  <1>3. /\ rec \in LocalRecord /\ rec.pc = "commit" /\ rec.id = scan[s].id
        /\ rec.todo = {} /\ rec.seen = scan[s].seen /\ rec.loaded = scan[s].loaded
        /\ rec.sent = scan[s].sent /\ rec.new = scan[s].new /\ rec.gone = gone
        /\ rec.disturbed = scan[s].disturbed
    <2>1. scan[s] \in LocalRecord
      BY ScanFacts
    <2>2. dirty \subseteq Hosts
      BY <1>2, <2>1 DEF LocalRecord
    <2> HIDE DEF dirty
    <2> QED
      BY <1>1, <1>2, <2>1, <2>2 DEF LocalRecord, InTransaction, Loaded
  <1> HIDE DEF rec
  <1>4. KeepsId(s, rec) /\ Owned(rec)
    BY <1>1, <1>3, ScanFacts DEF KeepsId, Owned, InTransaction, Loaded
  <1>5. Undisturbed(rec)
    BY <1>1, <1>3, ScanFacts DEF Undisturbed, InTransaction, Loaded, gone
  <1>6. Visited(rec)
    BY <1>1, <1>2, <1>3, ScanFacts DEF Visited, InTransaction, Loaded
  <1> QED
    BY <1>1, <1>3, <1>4, <1>5, <1>6, ScanFacts, QuietStep

-----------------------------------------------------------------------------
(* The step that changes the tables.                                       *)

(* What a commit does to the scanners and to one device.                   *)
LEMMA CommitFacts ==
  ASSUME IInv, NEW s \in Scanners, Commit(s)
  PROVE  /\ scan[s].pc = "commit" /\ scan[s].id \in 1..nextId
         /\ scan[s].new = {h \in scan[s].seen : scan[s].loaded[h] = "absent"}
         /\ scan[s].gone \cap scan[s].seen = {}
         /\ scan'[s] = Idle
         /\ \A k \in Scanners \ {s} :
              scan'[k] = IF scan[k].pc \in InTransaction
                         THEN [scan[k] EXCEPT !.disturbed = TRUE] ELSE scan[k]
         /\ \A h \in Hosts :
              /\ status'[h] \in Statuses
              /\ status[h] # "absent" => status'[h] # "absent"
              /\ h \in scan[s].new => status[h] = "absent" /\ status'[h] = "online"
              /\ h \notin scan[s].new /\ status[h] = "absent" => status'[h] = "absent"
  <1>1. /\ scan[s].pc = "commit"
        /\ status' = StatusAfter(scan[s], status)
        /\ scan' = [k \in Scanners |->
                      IF k = s THEN Idle
                      ELSE IF k \in Others(s) THEN [scan[k] EXCEPT !.disturbed = TRUE]
                      ELSE scan[k]]
    BY DEF Commit
  <1>2. /\ scan[s].todo = {}
        /\ scan[s].new = {h \in scan[s].seen \ scan[s].todo : scan[s].loaded[h] = "absent"}
        /\ \A h \in Hosts : scan[s].loaded[h] # "absent" => status[h] # "absent"
        /\ \A h \in scan[s].gone : h \notin scan[s].seen /\ status[h] # "absent"
    BY <1>1, ScanFacts DEF Visited, InTransaction, Loaded
  <1>3. scan[s].new = {h \in scan[s].seen : scan[s].loaded[h] = "absent"}
    BY <1>2
  <1>4. scan[s].id \in 1..nextId
    BY <1>1 DEF IInv, IdsAreIssued, InTransaction, Loaded
  <1>5. ASSUME NEW k \in Scanners \ {s}
        PROVE  scan'[k] = IF scan[k].pc \in InTransaction
                          THEN [scan[k] EXCEPT !.disturbed = TRUE] ELSE scan[k]
    BY <1>1 DEF Others
  <1>6. ASSUME NEW h \in Hosts
        PROVE  /\ status'[h] \in Statuses
               /\ status[h] # "absent" => status'[h] # "absent"
               /\ h \in scan[s].new => status[h] = "absent" /\ status'[h] = "online"
               /\ h \notin scan[s].new /\ status[h] = "absent" => status'[h] = "absent"
    <2>1. status'[h] = IF h \in scan[s].seen /\ scan[s].loaded[h] # "online" THEN "online"
                       ELSE IF h \in scan[s].gone /\ scan[s].loaded[h] # "offline"
                       THEN "offline" ELSE status[h]
      BY <1>1 DEF StatusAfter
    <2>2. h \in scan[s].new => status[h] = "absent"
      BY ScanFacts DEF Owned
    <2>3. status[h] \in Statuses
      BY DEF IInv, TypeOK
    <2> QED
      BY <1>2, <1>3, <2>1, <2>2, <2>3 DEF Statuses
  <1> QED
    BY <1>1, <1>2, <1>3, <1>4, <1>5, <1>6

(* The other scanners are where they were, but disturbed.                  *)
LEMMA OthersGoOn ==
  ASSUME IInv, NEW s \in Scanners, Commit(s), NEW k \in Scanners \ {s}
  PROVE  /\ scan'[k] \in LocalRecord /\ scan'[k].pc = scan[k].pc
         /\ scan'[k].id = scan[k].id /\ scan'[k].seen = scan[k].seen
         /\ scan'[k].loaded = scan[k].loaded /\ scan'[k].todo = scan[k].todo
         /\ scan'[k].row = scan[k].row /\ scan'[k].sent = scan[k].sent
         /\ scan'[k].new = scan[k].new /\ scan'[k].gone = scan[k].gone
         /\ scan[k].pc \in InTransaction => scan'[k].disturbed
  <1>1. scan[k] \in LocalRecord
    BY ScanFacts
  <1> DEFINE inside == scan[k].pc \in InTransaction
  <1>2. scan'[k] = IF inside THEN [scan[k] EXCEPT !.disturbed = TRUE] ELSE scan[k]
    BY CommitFacts
  <1>3. CASE scan[k].pc \in InTransaction
    <2>1. scan'[k] = [scan[k] EXCEPT !.disturbed = TRUE]
      BY <1>3, <1>2
    <2> QED
      BY <1>1, <2>1 DEF LocalRecord
  <1>4. CASE scan[k].pc \notin InTransaction
    <2>1. scan'[k] = scan[k]
      BY <1>4, <1>2
    <2> QED
      BY <1>1, <1>4, <2>1
  <1> QED
    BY <1>3, <1>4

LEMMA CommitLocals ==
  ASSUME IInv, NEW s \in Scanners, Commit(s)
  PROVE  /\ TypeOK' /\ IdsAreIssued' /\ WritesAreExclusive'
         /\ VisitsCoverSeen' /\ LoneIsUndisturbed'
  <1> USE DEF IInv
  <1>0. /\ scans' = scans \cup {[id |-> scan[s].id, seen |-> scan[s].seen]}
        /\ alerts' = alerts \cup Raised(scan[s])
        /\ status' = StatusAfter(scan[s], status)
        /\ lastScan' = StampAfter(scan[s], lastScan)
        /\ overlapped' = (overlapped \/ scan[s].disturbed) /\ nextId' = nextId
        /\ before' = before \cup {<<x.id, scan[s].id>> : x \in scans}
    BY DEF Commit
  <1>1. scan'[s] = Idle /\ scan[s].pc \in InTransaction
    BY CommitFacts DEF InTransaction, Loaded
  <1>2. /\ scan[s] \in LocalRecord /\ scan[s].id \in Nat
        /\ scan[s].seen \subseteq Hosts /\ scan[s].new \subseteq Hosts
        /\ scan[s].gone \subseteq Hosts /\ scan[s].disturbed \in BOOLEAN
    BY ScanFacts DEF LocalRecord
  <1>3. TypeOK'
    <2>1. scan' \in [Scanners -> LocalRecord]
      <3>1. \A k \in Scanners : scan'[k] \in LocalRecord
        BY <1>1, IdleFacts, OthersGoOn
      <3> QED
        BY <3>1 DEF Commit
    <2>2. status' \in [Hosts -> Statuses]
      BY <1>0, CommitFacts DEF StatusAfter
    <2>3. lastScan' \in [Hosts -> Nat]
      BY <1>0, <1>2 DEF StampAfter, TypeOK
    <2>4. scans' \subseteq ScanRecord /\ alerts' \subseteq AlertRecord
      BY <1>0, <1>2 DEF Raised, Alert, ScanRecord, AlertRecord, TypeOK
    <2>5. before' \subseteq Nat \X Nat
      BY <1>0, <1>2 DEF ScanRecord, TypeOK
    <2> QED
      BY <1>0, <1>2, <2>1, <2>2, <2>3, <2>4, <2>5 DEF TypeOK
  <1>4. IdsAreIssued'
    <2>1. \A x \in scans' : x.id \in 1..nextId /\ (x \in scans \/ x.id = scan[s].id)
      BY <1>0, CommitFacts DEF IdsAreIssued
    <2>2. ASSUME NEW k \in Scanners, scan'[k].pc \in InTransaction
          PROVE  /\ k # s /\ scan'[k].id \in 1..nextId
                 /\ \A x \in scans' : x.id # scan'[k].id
      <3>1. k # s
        BY <1>1, <2>2, IdleFacts DEF InTransaction, Loaded
      <3>2. scan[k].pc \in InTransaction /\ scan'[k].id = scan[k].id
        BY <2>2, <3>1, OthersGoOn
      <3>3. scan[s].id # scan[k].id
        BY <1>1, <3>1, <3>2 DEF IdsAreIssued, Others
      <3> QED
        BY <2>1, <3>1, <3>2, <3>3 DEF IdsAreIssued
    <2>3. ASSUME NEW k \in Scanners, NEW l \in Scanners, k # l,
                 scan'[k].pc \in InTransaction, scan'[l].pc \in InTransaction
          PROVE  scan'[k].id # scan'[l].id
      <3>1. /\ scan[k].pc \in InTransaction /\ scan'[k].id = scan[k].id
            /\ scan[l].pc \in InTransaction /\ scan'[l].id = scan[l].id
        BY <2>2, <2>3, OthersGoOn
      <3> QED
        BY <2>3, <3>1 DEF IdsAreIssued, Others
    <2>4. ASSUME NEW p \in before' PROVE \E x, y \in scans' : p = <<x.id, y.id>>
      <3> DEFINE x0 == [id |-> scan[s].id, seen |-> scan[s].seen]
      <3>1. x0 \in scans' /\ x0.id = scan[s].id /\ scans \subseteq scans'
        BY <1>0
      <3> HIDE DEF x0
      <3>2. CASE p \in before
        <4>1. PICK x \in scans, y \in scans : p = <<x.id, y.id>>
          BY <3>2 DEF IdsAreIssued
        <4> QED
          BY <3>1, <4>1
      <3>3. CASE p \notin before
        <4>1. PICK x \in scans : p = <<x.id, scan[s].id>>
          BY <1>0, <3>3
        <4>2. x \in scans' /\ p = <<x.id, x0.id>>
          BY <3>1, <4>1
        <4> QED
          BY <3>1, <4>2
      <3> QED
        BY <3>2, <3>3
    <2> QED
      BY <1>0, <2>1, <2>2, <2>3, <2>4 DEF IdsAreIssued, Others
  <1>5. WritesAreExclusive'
    <2>1. ASSUME NEW k \in Scanners PROVE Owned(scan[k])'
      <3>1. CASE k = s
        BY <1>1, <3>1, IdleFacts DEF Owned
      <3>2. CASE k # s
        <4>1. Owned(scan[k])
          BY ScanFacts
        <4>2. \A h \in scan[k].new : h \in Hosts /\ h \notin scan[s].new
          <5>1. scan[k].new \subseteq scan[k].sent /\ scan[s].new \subseteq scan[s].sent
            BY ScanFacts DEF Owned
          <5>2. scan[k].new \subseteq Hosts
            BY ScanFacts DEF LocalRecord
          <5> QED
            BY <3>2, <5>1, <5>2, LockedBy
        <4>3. \A h \in scan[k].new : status'[h] = "absent"
          BY <4>1, <4>2, CommitFacts DEF Owned
        <4> QED
          BY <3>2, <4>1, <4>3, OthersGoOn DEF Owned
      <3> QED
        BY <3>1, <3>2
    <2>2. ASSUME NEW k \in Scanners, NEW l \in Scanners, k # l
          PROVE  scan'[k].sent \cap scan'[l].sent = {}
      <3>1. \A m \in Scanners : scan'[m].sent = {} \/ scan'[m].sent = scan[m].sent
        BY <1>1, IdleFacts, OthersGoOn
      <3>2. scan[k].sent \cap scan[l].sent = {}
        BY <2>2, LockedBy
      <3> QED
        BY <3>1, <3>2
    <2>3. \A k \in Scanners : scan'[k].sent \cap Locked(k)' = {}
      BY <2>2 DEF Locked, Others
    <2> QED
      BY <2>1, <2>3 DEF WritesAreExclusive
  <1>6. VisitsCoverSeen'
    <2> SUFFICES ASSUME NEW k \in Scanners PROVE Visited(scan[k])'
      BY DEF VisitsCoverSeen
    <2>1. CASE k = s
      BY <1>1, <2>1, IdleFacts DEF Visited, InTransaction, Loaded
    <2>2. CASE k # s
      <3>1. Visited(scan[k]) /\ scan[k].gone \subseteq Hosts
        BY ScanFacts DEF LocalRecord
      <3>2. \A h \in Hosts : status[h] # "absent" => status'[h] # "absent"
        BY CommitFacts
      <3> QED
        BY <2>2, <3>1, <3>2, OthersGoOn DEF Visited
    <2> QED
      BY <2>1, <2>2
  <1>7. LoneIsUndisturbed'
    BY <1>1, IdleFacts, OthersGoOn DEF LoneIsUndisturbed, Undisturbed, InTransaction, Loaded
  <1> QED
    BY <1>3, <1>4, <1>5, <1>6, <1>7

(* The alerts and stamps of a commit, against those there were.            *)
LEMMA CommitTables ==
  ASSUME IInv, NEW s \in Scanners, Commit(s)
  PROVE  /\ DevicesAreAnnouncedOnce' /\ ReportsAreFounded'
         /\ OnlineSinceAlert' /\ OneAlertPerOutage'
  <1> USE DEF IInv
  <1> DEFINE me == scan[s]
             x0 == [id |-> me.id, seen |-> me.seen]
  <1>0. /\ scans' = scans \cup {x0}
        /\ alerts' = alerts \cup Raised(me)
        /\ status' = StatusAfter(me, status)
        /\ lastScan' = StampAfter(me, lastScan)
        /\ overlapped' = (overlapped \/ me.disturbed)
        /\ before' = before \cup {<<x.id, me.id>> : x \in scans}
    BY DEF Commit
  <1>1. /\ me.new \subseteq me.seen /\ me.seen \subseteq Hosts
        /\ me.gone \subseteq Hosts /\ me.gone \cap me.seen = {}
        /\ me.id \in Nat
    BY CommitFacts, ScanFacts DEF LocalRecord
  <1>2. \A a \in alerts' :
          \/ a \in alerts
          \/ a.type = "new_device" /\ a.device \in me.new /\ a.scan = me.id
          \/ a.type = "device_offline" /\ a.device \in me.gone /\ a.scan = me.id
    BY <1>0 DEF Raised, Alert
  <1>3. /\ \A h \in me.new : Alert("new_device", h, me.id) \in alerts'
        /\ alerts \subseteq alerts'
    BY <1>0 DEF Raised
  <1>4. \A a \in alerts : a.device \in Hosts /\ a.scan \in Nat
    BY DEF TypeOK, AlertRecord
  <1>5. x0 \in scans' /\ scans \subseteq scans' /\ x0.id = me.id /\ x0.seen = me.seen
    BY <1>0
  <1>6. /\ \A h \in me.seen : lastScan'[h] = me.id
        /\ \A h \in Hosts \ me.seen : lastScan'[h] = lastScan[h]
    BY <1>0, <1>1 DEF StampAfter
  <1> HIDE DEF x0, me
  <1>7. DevicesAreAnnouncedOnce'
    <2> SUFFICES ASSUME NEW h \in Hosts
                 PROVE  /\ (status'[h] # "absent") <=>
                             \E a \in alerts' : a.type = "new_device" /\ a.device = h
                        /\ \A a, b \in alerts' :
                             a.type = "new_device" /\ a.device = h
                             /\ b.type = "new_device" /\ b.device = h => a = b
      BY DEF DevicesAreAnnouncedOnce
    <2>1. /\ (status[h] # "absent") <=>
               \E a \in alerts : a.type = "new_device" /\ a.device = h
          /\ \A a, b \in alerts :
               a.type = "new_device" /\ a.device = h
               /\ b.type = "new_device" /\ b.device = h => a = b
      BY DEF DevicesAreAnnouncedOnce
    <2>2. CASE h \in me.new
      <3>1. status[h] = "absent" /\ status'[h] = "online"
        BY <2>2, CommitFacts DEF me
      <3>2. \A a \in alerts' : a.type = "new_device" /\ a.device = h =>
              a = Alert("new_device", h, me.id)
        BY <1>0, <2>1, <3>1 DEF Raised, Alert
      <3>3. Alert("new_device", h, me.id).type = "new_device"
            /\ Alert("new_device", h, me.id).device = h
        BY DEF Alert
      <3> QED
        BY <1>3, <2>2, <3>1, <3>2, <3>3
    <2>3. CASE h \notin me.new
      <3>1. \A a \in alerts' : a.type = "new_device" /\ a.device = h => a \in alerts
        BY <1>2, <2>3
      <3>2. status'[h] # "absent" <=> status[h] # "absent"
        BY <2>3, CommitFacts DEF me
      <3> QED
        BY <1>3, <2>1, <3>1, <3>2
    <2> QED
      BY <2>2, <2>3
  <1>8. ReportsAreFounded'
    <2>1. ASSUME NEW h \in Hosts, status'[h] # "absent"
          PROVE  \E x \in scans' : x.id = lastScan'[h] /\ h \in x.seen
      <3>1. CASE h \in me.seen
        BY <1>5, <1>6, <3>1
      <3>2. CASE h \notin me.seen
        <4>1. status[h] # "absent"
          BY <1>1, <2>1, <3>2, CommitFacts DEF me
        <4> QED
          BY <1>5, <1>6, <3>2, <4>1 DEF ReportsAreFounded
      <3> QED
        BY <3>1, <3>2
    <2>2. ASSUME NEW a \in alerts'
          PROVE  \E x \in scans' :
                   x.id = a.scan /\ (a.device \in x.seen <=> a.type = "new_device")
      <3>1. CASE a \in alerts
        BY <1>5, <3>1 DEF ReportsAreFounded
      <3>2. CASE a.type = "new_device" /\ a.device \in me.new /\ a.scan = me.id
        BY <1>1, <1>5, <3>2
      <3>3. CASE a.type = "device_offline" /\ a.device \in me.gone /\ a.scan = me.id
        BY <1>1, <1>5, <3>3
      <3> QED
        BY <1>2, <3>1, <3>2, <3>3
    <2> QED
      BY <2>1, <2>2 DEF ReportsAreFounded
  <1>9. ASSUME ~overlapped'
        PROVE  /\ ~overlapped /\ me.gone = {h \in Hosts \ me.seen : status[h] = "online"}
               /\ \A h \in Hosts : status'[h] = "online" <=> h \in me.seen
    <2>1. ~overlapped /\ ~me.disturbed
      BY <1>0, <1>9
    <2>2. me.loaded = status /\ me.gone = Missed(me.seen)
      BY <2>1, CommitFacts, ScanFacts DEF Undisturbed, Loaded, me
    <2>3. ASSUME NEW h \in Hosts PROVE status'[h] = "online" <=> h \in me.seen
      BY <1>0, <1>1, <2>2 DEF StatusAfter, Missed
    <2> QED
      BY <2>1, <2>2, <2>3 DEF Missed
  <1>10. /\ \A x \in scans : <<x.id, me.id>> \in before' /\ x.id # me.id
         /\ \A p \in before' : p[1] # me.id
         /\ before \subseteq before'
         /\ \A i, j : <<i, j>> \in before' /\ j # me.id => <<i, j>> \in before
    <2>1. \A x \in scans : x.id # me.id
      BY CommitFacts DEF IdsAreIssued, InTransaction, Loaded, me
    <2>2. \A p \in before : p[1] # me.id
      BY <2>1 DEF IdsAreIssued
    <2> QED
      BY <1>0, <2>1, <2>2
  <1>11. \A a \in alerts : a.scan # me.id /\ <<a.scan, me.id>> \in before'
    BY <1>10 DEF ReportsAreFounded
  <1>12. OnlineSinceAlert'
    <2> SUFFICES ASSUME ~overlapped', NEW a \in alerts',
                        a.type = "device_offline", status'[a.device] = "online"
                 PROVE  <<a.scan, lastScan'[a.device]>> \in before'
      BY DEF OnlineSinceAlert
    <2>1. a.device \in Hosts
      BY <1>1, <1>2, <1>4
    <2>2. a.device \in me.seen
      BY <1>9, <2>1
    <2>3. a \in alerts
      BY <1>1, <1>2, <2>2
    <2> QED
      BY <1>6, <1>11, <2>2, <2>3
  <1>13. OneAlertPerOutage'
    <2> SUFFICES ASSUME ~overlapped', NEW a \in alerts', NEW b \in alerts',
                        a.type = "device_offline", b.type = "device_offline",
                        a.device = b.device, <<a.scan, b.scan>> \in before'
                 PROVE  \E x \in scans' : /\ <<a.scan, x.id>> \in before'
                                          /\ <<x.id, b.scan>> \in before'
                                          /\ a.device \in x.seen
      BY DEF OneAlertPerOutage
    <2>1. a \in alerts
      BY <1>2, <1>10
    <2>2. CASE b \in alerts
      <3>1. <<a.scan, b.scan>> \in before
        BY <1>10, <1>11, <2>2
      <3> QED
        BY <1>5, <1>9, <1>10, <2>1, <2>2, <3>1 DEF OneAlertPerOutage
    <2>3. CASE b \notin alerts
      <3>1. b.scan = me.id /\ b.device \in me.gone
        BY <1>2, <2>3
      <3>2. status[a.device] = "online" /\ a.device \in Hosts
        BY <1>1, <1>9, <3>1
      <3>3. <<a.scan, lastScan[a.device]>> \in before
        BY <1>9, <2>1, <3>2 DEF OnlineSinceAlert
      <3>4. PICK x \in scans : x.id = lastScan[a.device] /\ a.device \in x.seen
        BY <3>2 DEF ReportsAreFounded
      <3> QED
        BY <1>5, <1>10, <3>1, <3>3, <3>4
    <2> QED
      BY <2>2, <2>3
  <1> QED
    BY <1>7, <1>8, <1>12, <1>13

-----------------------------------------------------------------------------
LEMMA NextInv == IInv /\ [Next]_vars => IInv'
  <1> SUFFICES ASSUME IInv, [Next]_vars PROVE IInv'
    OBVIOUS
  <1>1. CASE UNCHANGED vars
    <2>1. UNCHANGED <<scan, tables, nextId, overlapped>>
      BY <1>1 DEF vars, tables
    <2>2. TypeOK' /\ WritesAreExclusive' /\ VisitsCoverSeen' /\ LoneIsUndisturbed'
      BY <1>1 DEF vars, IInv, TypeOK, WritesAreExclusive, Owned, Others, Locked,
                  VisitsCoverSeen, Visited, LoneIsUndisturbed, Undisturbed, Missed
    <2>3. IdsAreIssued'
      BY <1>1 DEF vars, IInv, IdsAreIssued, Others
    <2>4. DevicesAreAnnouncedOnce' /\ ReportsAreFounded' /\ OnlineSinceAlert'
      BY <1>1 DEF vars, IInv, DevicesAreAnnouncedOnce, ReportsAreFounded,
                  OnlineSinceAlert
    <2>5. OneAlertPerOutage'
      BY <1>1, SameOutages DEF vars, IInv
    <2> QED
      BY <2>2, <2>3, <2>4, <2>5 DEF IInv
  <1>2. ASSUME NEW s \in Scanners, Discover(s) \/ RefuseDuplicate(s) \/ Fail(s)
        PROVE  IInv'
    BY <1>2, OutsideInv
  <1>3. ASSUME NEW s \in Scanners, InsertScan(s) \/ Load(s) PROVE IInv'
    BY <1>3, InsertScanInv, LoadInv
  <1>4. ASSUME NEW s \in Scanners, NEW h \in Hosts, Refresh(s, h) \/ Add(s, h)
        PROVE  IInv'
    BY <1>4, VisitInv
  <1>5. ASSUME NEW s \in Scanners, NEW h \in Hosts, SendRow(s, h) PROVE IInv'
    BY <1>5, SendInv
  <1>6. ASSUME NEW s \in Scanners, InsertDevice(s) PROVE IInv'
    BY <1>6, InsertInv
  <1>7. ASSUME NEW s \in Scanners, MarkOffline(s) PROVE IInv'
    BY <1>7, MarkInv
  <1>8. ASSUME NEW s \in Scanners, Commit(s) PROVE IInv'
    BY <1>8, CommitLocals, CommitTables DEF IInv
  <1> QED
    BY <1>1, <1>2, <1>3, <1>4, <1>5, <1>6, <1>7, <1>8 DEF Next

(* The inductive invariant holds in every reachable state.                 *)
THEOREM ScanInvariant == Spec => []IInv
  BY InitInv, NextInv, PTL DEF Spec

(* Type correctness of the scans and of the tables they write.             *)
THEOREM ScanTypes == Spec => []TypeOK
  <1>1. IInv => TypeOK
    BY DEF IInv
  <1> QED
    BY <1>1, ScanInvariant, PTL

(* One new_device alert for each device, however scans overlap.            *)
THEOREM AnnouncedOnce == Spec => []DevicesAreAnnouncedOnce
  <1>1. IInv => DevicesAreAnnouncedOnce
    BY DEF IInv
  <1> QED
    BY <1>1, ScanInvariant, PTL

(* Stamps and alerts agree with the scans they name.                       *)
THEOREM Founded == Spec => []ReportsAreFounded
  <1>1. IInv => ReportsAreFounded
    BY DEF IInv
  <1> QED
    BY <1>1, ScanInvariant, PTL

(* One device_offline alert per outage, unless scans overlapped.           *)
THEOREM AlertedOnce == Spec => []OneAlertPerOutage
  <1>1. IInv => OneAlertPerOutage
    BY DEF IInv
  <1> QED
    BY <1>1, ScanInvariant, PTL

-----------------------------------------------------------------------------
(* Only a commit changes a status, or the scans.                           *)
LEMMA OnlyCommit ==
  ASSUME [Next]_vars, \A s \in Scanners : ~Commit(s)
  PROVE  UNCHANGED tables
  <1>1. CASE UNCHANGED vars
    BY <1>1 DEF vars, tables
  <1>2. ASSUME NEW s \in Scanners, Commit(s) PROVE UNCHANGED tables
    BY <1>2
  <1>3. ASSUME NEW s \in Scanners,
               \/ Discover(s) \/ InsertScan(s) \/ Load(s)
               \/ \E h \in Hosts : Refresh(s, h) \/ Add(s, h) \/ SendRow(s, h)
               \/ InsertDevice(s) \/ RefuseDuplicate(s) \/ MarkOffline(s) \/ Fail(s)
        PROVE  UNCHANGED tables
    BY <1>3 DEF Discover, InsertScan, Load, Refresh, Add, SendRow, InsertDevice,
                RefuseDuplicate, MarkOffline, Fail
  <1> QED
    BY <1>1, <1>2, <1>3 DEF Next

(* A device goes offline with an alert, and comes back when it is seen.    *)
THEOREM Reported == Spec => OutagesAreReported
  <1>1. ASSUME IInv, [Next]_vars, NEW h \in Hosts, status'[h] # status[h]
        PROVE  \E x \in scans' \ scans :
                 IF status'[h] = "offline"
                 THEN Alert("device_offline", h, x.id) \in alerts'
                 ELSE h \in x.seen
    <2>1. PICK s \in Scanners : Commit(s)
      BY <1>1, OnlyCommit DEF tables
    <2> DEFINE me == scan[s]
               x0 == [id |-> me.id, seen |-> me.seen]
    <2>2. x0 \in scans' \ scans
      <3>1. \A x \in scans : x.id # me.id
        BY <1>1, <2>1, CommitFacts DEF IInv, IdsAreIssued, InTransaction, Loaded
      <3> QED
        BY <2>1, <3>1 DEF Commit
    <2>3. /\ status'[h] = IF h \in me.seen /\ me.loaded[h] # "online" THEN "online"
                          ELSE IF h \in me.gone /\ me.loaded[h] # "offline"
                          THEN "offline" ELSE status[h]
          /\ alerts' = alerts \cup Raised(me)
      BY <2>1 DEF Commit, StatusAfter
    <2>4. CASE h \in me.seen /\ me.loaded[h] # "online"
      BY <2>2, <2>3, <2>4
    <2>5. CASE h \in me.gone /\ ~(h \in me.seen /\ me.loaded[h] # "online")
      BY <1>1, <2>2, <2>3, <2>5 DEF Raised
    <2> QED
      BY <1>1, <2>3, <2>4, <2>5
  <1>2. IInv /\ [Next]_vars =>
          [\A h \in Hosts : status'[h] # status[h] =>
             \E x \in scans' \ scans :
               IF status'[h] = "offline"
               THEN Alert("device_offline", h, x.id) \in alerts'
               ELSE h \in x.seen]_vars
    BY <1>1
  <1> QED
    BY <1>2, ScanInvariant, PTL DEF Spec, OutagesAreReported

(* A scan no other commits during makes the table what it saw, and reports *)
(* the changes it makes and no others.                                     *)
THEOREM LoneScans == Spec => LoneScansAreExact
  <1>1. ASSUME IInv, [Next]_vars, NEW s \in Scanners, scan[s].pc = "commit",
               ~scan[s].disturbed, scan'[s].pc = "idle"
        PROVE  Exact(s)
    <2>1. CASE Commit(s)
      <3> DEFINE me == scan[s]
                 x0 == [id |-> me.id, seen |-> me.seen]
      <3>1. /\ scans' = scans \cup {x0} /\ alerts' = alerts \cup Raised(me)
            /\ status' = StatusAfter(me, status)
        BY <2>1 DEF Commit
      <3>2. me.loaded = status /\ me.gone = Missed(me.seen)
        BY <1>1, ScanFacts DEF Undisturbed, Loaded
      <3>3. /\ me.seen \subseteq Hosts
            /\ me.new = {h \in me.seen : status[h] = "absent"}
        BY <1>1, <2>1, <3>2, CommitFacts, ScanFacts DEF LocalRecord
      <3>4. \A h \in Hosts :
              status'[h] = IF h \in me.seen THEN "online"
                           ELSE IF status[h] = "online" THEN "offline" ELSE status[h]
        BY <3>1, <3>2 DEF StatusAfter, Missed
      <3>5. /\ me.new = {h \in Hosts : status[h] = "absent" /\ status'[h] = "online"}
            /\ me.gone = {h \in Hosts : status[h] = "online" /\ status'[h] = "offline"}
        BY <3>2, <3>3, <3>4 DEF Missed
      <3>6. \A h \in Hosts : status'[h] = "online" <=> h \in me.seen
        BY <3>4
      <3>7. Raised(me) \cap alerts = {}
        <4>1. \A x \in scans : x.id # me.id
          BY <1>1 DEF IInv, IdsAreIssued, InTransaction, Loaded
        <4>2. \A a \in alerts : a.scan # me.id
          BY <1>1, <4>1 DEF IInv, ReportsAreFounded
        <4>3. \A a \in Raised(me) : a.scan = me.id
          BY DEF Raised, Alert
        <4> QED
          BY <4>2, <4>3
      <3>8. alerts' \ alerts = Raised(me)
        BY <3>1, <3>7
      <3>9. \A x \in scans' \ scans : x.id = me.id /\ x.seen = me.seen
        BY <3>1
      <3> HIDE DEF me, x0
      <3> QED
        BY <3>5, <3>6, <3>8, <3>9 DEF Exact, Raised
    <2>2. CASE ~Commit(s)
      <3>1. \A k \in Scanners \ {s} : ~Commit(k)
        <4> SUFFICES ASSUME NEW k \in Scanners \ {s}, Commit(k) PROVE FALSE
          OBVIOUS
        <4>1. scan'[s].pc = scan[s].pc
          BY <1>1, OthersGoOn
        <4> QED
          BY <1>1, <4>1
      <3>2. UNCHANGED tables
        BY <1>1, <2>2, <3>1, OnlyCommit
      <3> QED
        BY <3>2 DEF tables, Exact
    <2> QED
      BY <2>1, <2>2
  <1>2. IInv /\ [Next]_vars =>
          [\A s \in Scanners :
             (scan[s].pc = "commit" /\ ~scan[s].disturbed /\ scan'[s].pc = "idle") =>
               Exact(s)]_vars
    BY <1>1
  <1> QED
    BY <1>2, ScanInvariant, PTL DEF Spec, LoneScansAreExact

-----------------------------------------------------------------------------
(* Each scan is one step of DeviceScans.                                   *)

(* No more scans begin than there are ids for.                             *)
LEMMA IdsAreBounded == Spec => [](nextId <= MaxScans)
  <1>1. Init => nextId <= MaxScans
    BY ScanAssumption DEF Init, ScanAssumption
  <1>2. TypeOK /\ nextId <= MaxScans /\ [Next]_vars => (nextId <= MaxScans)'
    <2> SUFFICES ASSUME TypeOK, nextId <= MaxScans, [Next]_vars
                 PROVE  nextId' <= MaxScans
      OBVIOUS
    <2>1. nextId' = nextId \/ (nextId < MaxScans /\ nextId' = nextId + 1)
      BY DEF Next, vars, Discover, InsertScan, Load, Refresh, Add, SendRow, InsertDevice,
             RefuseDuplicate, MarkOffline, Commit, Fail
    <2>2. nextId \in Nat /\ MaxScans \in Nat
      BY ScanAssumption DEF TypeOK, ScanAssumption
    <2> QED
      BY <2>1, <2>2
  <1> QED
    BY <1>1, <1>2, ScanTypes, PTL DEF Spec

(* What a commit writes, in terms of the tables it writes over.            *)
LEMMA CommitWrites ==
  ASSUME IInv, NEW s \in Scanners, Commit(s)
  PROVE  LET me == scan[s]
             kept == {h \in Hosts : /\ status[h] # "absent"
                                    /\ status'[h] = status[h]}
         IN /\ me.seen \in SUBSET Hosts
            /\ me.gone \in SUBSET (Inventory!Known \ me.seen)
            /\ kept \in SUBSET Inventory!Known
            /\ Inventory!Scan(me.id, me.seen, me.gone, kept)
  <1> DEFINE me == scan[s]
             kept == {h \in Hosts : status[h] # "absent" /\ status'[h] = status[h]}
  <1>1. /\ status' = StatusAfter(me, status)
        /\ lastScan' = StampAfter(me, lastScan)
        /\ scans' = scans \cup {[id |-> me.id, seen |-> me.seen]}
        /\ alerts' = alerts \cup Raised(me)
    BY DEF Commit
  <1>2. /\ me.seen \subseteq Hosts /\ me.gone \subseteq Hosts
        /\ \A x \in scans : x.id # me.id
        /\ \A h \in Hosts : me.loaded[h] # "absent" => status[h] # "absent"
        /\ \A h \in me.gone : h \notin me.seen /\ status[h] # "absent"
        /\ \A h \in Hosts : me.loaded[h] \in Statuses /\ status[h] \in Statuses
    BY CommitFacts, ScanFacts
       DEF IInv, IdsAreIssued, TypeOK, LocalRecord, Visited, InTransaction, Loaded
  <1>3. me.new = {h \in me.seen : status[h] = "absent"}
    BY <1>2, CommitFacts
  <1>4. me.new = me.seen \ Inventory!Known
    BY <1>2, <1>3 DEF Inventory!Known
  <1>5. ASSUME NEW h \in Hosts
        PROVE  status'[h] = IF h \in kept THEN status[h]
                            ELSE IF h \in me.seen THEN "online"
                            ELSE IF h \in me.gone THEN "offline"
                            ELSE status[h]
    BY <1>1, <1>2, <1>3 DEF StatusAfter, Statuses
  <1>6. status' = [h \in Hosts |-> IF h \in kept THEN status[h]
                                   ELSE IF h \in me.seen THEN "online"
                                   ELSE IF h \in me.gone THEN "offline"
                                   ELSE status[h]]
    BY <1>1, <1>5 DEF StatusAfter
  <1>7. alerts' = alerts \cup {Inventory!Alert("new_device", h, me.id) :
                                 h \in me.seen \ Inventory!Known}
                         \cup {Inventory!Alert("device_offline", h, me.id) : h \in me.gone}
    BY <1>1, <1>4 DEF Raised, Alert, Inventory!Alert
  <1>8. /\ me.gone \subseteq Inventory!Known \ me.seen
        /\ kept \subseteq Inventory!Known
    BY <1>2 DEF Inventory!Known
  <1> QED
    BY <1>1, <1>2, <1>6, <1>7, <1>8 DEF Inventory!Scan, StampAfter

(* A scan that was not overtaken writes what it saw.                       *)
LEMMA CommitAlone ==
  ASSUME IInv, NEW s \in Scanners, Commit(s), ~scan[s].disturbed
  PROVE  Inventory!Alone(scan[s].id, scan[s].seen)
  <1> DEFINE me == scan[s]
  <1>1. me.loaded = status /\ me.gone = Missed(me.seen)
    BY ScanFacts DEF Undisturbed, Loaded, Commit
  <1>2. me.gone = Inventory!Online \ me.seen
    BY <1>1 DEF Missed, Inventory!Online
  <1>3. Inventory!Scan(me.id, me.seen, Inventory!Online \ me.seen, {})
    <2>1. \A h \in Hosts :
            status'[h] = IF h \in me.seen THEN "online"
                         ELSE IF h \in me.gone THEN "offline" ELSE status[h]
      BY <1>1 DEF Commit, StatusAfter, Missed
    <2>2. status' = [h \in Hosts |-> IF h \in {} THEN status[h]
                                     ELSE IF h \in me.seen THEN "online"
                                     ELSE IF h \in Inventory!Online \ me.seen THEN "offline"
                                     ELSE status[h]]
      BY <1>2, <2>1 DEF Commit, StatusAfter
    <2> QED
      BY <1>2, <2>2, CommitWrites DEF Inventory!Scan
  <1>4. overlapped' = overlapped
    BY DEF Commit, IInv, TypeOK
  <1> QED
    BY <1>1, <1>3, <1>4 DEF Inventory!Alone

(* Every step of a scanner is a scan or leaves the tables alone.           *)
LEMMA InventoryStep ==
  ASSUME IInv, nextId <= MaxScans, [Next]_vars
  PROVE  [Inventory!Next]_(Inventory!vars)
  <1>1. CASE \A s \in Scanners : ~Commit(s)
    <2>1. UNCHANGED tables
      BY <1>1, OnlyCommit
    <2>2. UNCHANGED overlapped
      BY <1>1 DEF Next, vars, Discover, InsertScan, Load, Refresh, Add, SendRow, InsertDevice,
                  RefuseDuplicate, MarkOffline, Fail
    <2> QED
      BY <2>1, <2>2 DEF tables, Inventory!vars
  <1>2. ASSUME NEW s \in Scanners, Commit(s) PROVE Inventory!Next
    <2>1. scan[s].id \in 1..MaxScans /\ scan[s].seen \in SUBSET Hosts
      <3>1. scan[s].id \in 1..nextId /\ nextId \in Nat /\ MaxScans \in Nat
        BY <1>2, CommitFacts, ScanAssumption DEF IInv, TypeOK, ScanAssumption
      <3> QED
        BY <1>2, <3>1, ScanFacts DEF LocalRecord
    <2>2. CASE ~scan[s].disturbed
      BY <1>2, <2>1, <2>2, CommitAlone DEF Inventory!Next
    <2>3. CASE scan[s].disturbed
      <3>1. overlapped' = TRUE
        BY <1>2, <2>3 DEF Commit
      <3>2. Inventory!Overtaken(scan[s].id, scan[s].seen)
        BY <1>2, <3>1, CommitWrites DEF Inventory!Overtaken
      <3> QED
        BY <2>1, <3>2 DEF Inventory!Next
    <2> QED
      BY <2>2, <2>3
  <1> QED
    BY <1>1, <1>2

(* The scans implement DeviceScans: however they overlap, wait, collide,   *)
(* fail or die, each changes devices and alerts at one instant or not at   *)
(* all, and unless it was overtaken as if it had been alone.               *)
THEOREM ScanRefinement == Spec => ScansAreAtomic
  <1>1. Init => Inventory!Init
    BY DEF Init, Inventory!Init
  <1>2. IInv /\ nextId <= MaxScans /\ [Next]_vars => [Inventory!Next]_(Inventory!vars)
    BY InventoryStep
  <1> QED
    BY <1>1, <1>2, ScanInvariant, IdsAreBounded, PTL
       DEF Spec, ScansAreAtomic, Inventory!Spec
=============================================================================
