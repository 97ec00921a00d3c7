---------------------------- MODULE NetworkScan ----------------------------
(***************************************************************************)
(* Scans of the local network (backend/app/modules/network/services.py):   *)
(* a scan asks nmap or ARP which hosts answer, for minutes and outside any *)
(* transaction, and then brings the device table up to date in one         *)
(* transaction: hosts that answered are online, devices that did not are   *)
(* offline, and both kinds of change raise an alert.                       *)
(*                                                                         *)
(* A scanner is the thread of a POST /network/scans or the scheduler of the*)
(* scanner container; nothing keeps two scanners from overlapping.  The    *)
(* transaction runs under READ COMMITTED.  A flush inserts the scan, which *)
(* gives it its id; then the session loads every device: an attribute it   *)
(* sets is written only if it differs from the value loaded, however the   *)
(* row has changed meanwhile.                                              *)
(*                                                                         *)
(* Abstracted away: what identifies a host beside its address, enrichment, *)
(* wording of alerts, floor plans.  PATCH /network/devices writes none of  *)
(* the columns modelled here, is_monitored, which no scan reads, included. *)
(* Rows of one flush are sent in any order.                                *)
(***************************************************************************)
EXTENDS Naturals, FiniteSets

CONSTANTS
  Scanners,  \* threads and processes that run scans, one at a time each
  Hosts,     \* IP addresses
  None,      \* no address
  MaxScans   \* bound: transactions begun

ASSUME ScanAssumption ==
  /\ None \notin Hosts
  /\ MaxScans \in Nat

VARIABLES
  scan,      \* per scanner: control state, and the locals of its scan
  status,    \* per address: the device's status, "absent" without a row
  lastScan,  \* per address: last_scan_id, 0 without a row
  scans,     \* the committed scans; the hosts seen are kept here, the table
             \* has only their number
  alerts,    \* the network_alerts table
  before,    \* pairs of scans in the order of their commits
  nextId,    \* the sequence behind network_scans.id
  overlapped \* has a scan committed although another did since it loaded?

vars == <<scan, status, lastScan, scans, alerts, before, nextId, overlapped>>
tables == <<status, lastScan, scans, alerts, before>>

-----------------------------------------------------------------------------
Statuses == {"absent", "online", "offline"}
Loaded == {"visit", "insert", "commit"}
InTransaction == Loaded \cup {"inserted"}

LocalRecord == [pc : {"idle", "discovered"} \cup InTransaction,
                id : Nat,                        \* scan.id
                seen : SUBSET Hosts,             \* seen_ips
                loaded : [Hosts -> Statuses],    \* status as the session has it
                todo : SUBSET Hosts,             \* discovered, not visited yet
                row : Hosts \cup {None},         \* the device being inserted
                dirty : SUBSET Hosts,            \* changed, UPDATE not sent yet
                sent : SUBSET Hosts,             \* written, hence locked
                new : SUBSET Hosts,              \* inserted
                gone : SUBSET Hosts,             \* found online and not seen
                disturbed : BOOLEAN]             \* has another scan committed
                                                 \* since this one loaded?
Idle == [pc |-> "idle", id |-> 0, seen |-> {}, todo |-> {}, row |-> None,
         loaded |-> [h \in Hosts |-> "absent"], dirty |-> {}, sent |-> {},
         new |-> {}, gone |-> {}, disturbed |-> FALSE]

ScanRecord == [id : Nat, seen : SUBSET Hosts]
AlertRecord == [type : {"new_device", "device_offline"}, device : Hosts, scan : Nat]

Step(s, record) == scan' = [scan EXCEPT ![s] = record]

(* Other scanners with a transaction open.                                 *)
Others(s) == {k \in Scanners \ {s} : scan[k].pc \in InTransaction}

Locked(s) == UNION {scan[k].sent : k \in Others(s)}

-----------------------------------------------------------------------------
(* nmap, then ARP, then the scanner's own address: any hosts may answer.   *)
Discover(s) ==
  /\ scan[s].pc = "idle"
  /\ \E seen \in SUBSET Hosts :
       Step(s, [Idle EXCEPT !.pc = "discovered", !.seen = seen])
  /\ UNCHANGED <<tables, nextId, overlapped>>

(* The flush of the scan's own row takes an id of the sequence.            *)
InsertScan(s) ==
  /\ scan[s].pc = "discovered"
  /\ nextId < MaxScans
  /\ nextId' = nextId + 1
  /\ Step(s, [scan[s] EXCEPT !.pc = "inserted", !.id = nextId + 1])
  /\ UNCHANGED <<tables, overlapped>>

(* The devices are loaded: what others commit from now on goes unnoticed.  *)
Load(s) ==
  /\ scan[s].pc = "inserted"
  /\ Step(s, [scan[s] EXCEPT !.pc = "visit", !.loaded = status,
                             !.todo = scan[s].seen, !.disturbed = FALSE])
  /\ UNCHANGED <<tables, nextId, overlapped>>

(* A host whose device is known: attributes are set, nothing is sent.      *)
Refresh(s, h) ==
  /\ scan[s].pc = "visit"
  /\ h \in scan[s].todo
  /\ scan[s].loaded[h] # "absent"
  /\ Step(s, [scan[s] EXCEPT !.todo = @ \ {h}, !.dirty = @ \cup {h}])
  /\ UNCHANGED <<tables, nextId, overlapped>>

(* A host without a device when the session loaded: add, and flush, which  *)
(* sends the pending UPDATEs first.                                        *)
Add(s, h) ==
  /\ scan[s].pc = "visit"
  /\ h \in scan[s].todo
  /\ scan[s].loaded[h] = "absent"
  /\ Step(s, [scan[s] EXCEPT !.pc = "insert", !.row = h])
  /\ UNCHANGED <<tables, nextId, overlapped>>

(* An UPDATE waits for the scan that has written the row.                  *)
SendRow(s, h) ==
  /\ scan[s].pc \in {"insert", "commit"}
  /\ h \in scan[s].dirty \ Locked(s)
  /\ Step(s, [scan[s] EXCEPT !.dirty = @ \ {h}, !.sent = @ \cup {h}])
  /\ UNCHANGED <<tables, nextId, overlapped>>

Duplicate_NoConstraint(s) == FALSE

(* uq_network_devices_ip_address: committed by another scan since loading. *)
Duplicate(s) == status[scan[s].row] # "absent"

(* So does an INSERT, for one that has inserted the same address.          *)
MayInsert(s) ==
  /\ scan[s].pc = "insert"
  /\ scan[s].dirty = {}
  /\ scan[s].row \notin Locked(s)

InsertDevice(s) ==
  /\ MayInsert(s)
  /\ ~Duplicate(s)
  /\ Step(s, [scan[s] EXCEPT !.pc = "visit", !.row = None,
                             !.todo = @ \ {scan[s].row},
                             !.sent = @ \cup {scan[s].row},
                             !.new = @ \cup {scan[s].row}])
  /\ UNCHANGED <<tables, nextId, overlapped>>

(* The whole scan is rolled back.                                          *)
RefuseDuplicate(s) ==
  /\ MayInsert(s)
  /\ Duplicate(s)
  /\ Step(s, Idle)
  /\ UNCHANGED <<tables, nextId, overlapped>>

Missed_EveryDevice(seen) == {h \in Hosts \ seen : status[h] # "absent"}

(* previously_online, without the hosts seen: read from the table, so that *)
(* devices other scans have committed since loading are among them.        *)
Missed(seen) == {h \in Hosts \ seen : status[h] = "online"}

(* Each becomes offline in the session and gets an alert; the UPDATE is    *)
(* left out for a device that the session had loaded as offline.           *)
MarkOffline(s) ==
  LET gone == Missed(scan[s].seen)
  IN /\ scan[s].pc = "visit"
     /\ scan[s].todo = {}
     /\ Step(s, [scan[s] EXCEPT
                   !.pc = "commit", !.gone = gone,
                   !.dirty = @ \cup {h \in gone : scan[s].loaded[h] # "offline"}])
     /\ UNCHANGED <<tables, nextId, overlapped>>

StatusAfter_StaysOffline(me, old) ==
  [h \in Hosts |-> IF h \in me.new THEN "online"
                   ELSE IF h \in me.gone /\ me.loaded[h] # "offline" THEN "offline"
                   ELSE old[h]]

StatusAfter_Missing(me, old) ==
  [h \in Hosts |-> IF h \in me.seen /\ me.loaded[h] # "online" THEN "online"
                   ELSE IF h \in me.gone /\ me.loaded[h] # "offline" THEN "missing"
                   ELSE old[h]]

(* The status column once the rows sent are committed.                     *)
StatusAfter(me, old) ==
  [h \in Hosts |-> IF h \in me.seen /\ me.loaded[h] # "online" THEN "online"
                   ELSE IF h \in me.gone /\ me.loaded[h] # "offline" THEN "offline"
                   ELSE old[h]]

StampAfter_GoneToo(me, old) ==
  [h \in Hosts |-> IF h \in me.seen \cup me.gone THEN me.id ELSE old[h]]

(* last_scan_id of the rows, always written for a host seen.               *)
StampAfter(me, old) ==
  [h \in Hosts |-> IF h \in me.seen THEN me.id ELSE old[h]]

Alert(type, h, id) == [type |-> type, device |-> h, scan |-> id]

Raised_NewOnly(me) == {Alert("new_device", h, me.id) : h \in me.new}

Raised(me) == {Alert("new_device", h, me.id) : h \in me.new}
              \cup {Alert("device_offline", h, me.id) : h \in me.gone}

Commit(s) ==
  LET me == scan[s]
  IN /\ me.pc = "commit"
     /\ me.dirty = {}
     /\ status' = StatusAfter(me, status)
     /\ lastScan' = StampAfter(me, lastScan)
     /\ scans' = scans \cup {[id |-> me.id, seen |-> me.seen]}
     /\ alerts' = alerts \cup Raised(me)
     /\ before' = before \cup {<<x.id, me.id>> : x \in scans}
     /\ scan' = [k \in Scanners |->
                   IF k = s THEN Idle
                   ELSE IF k \in Others(s) THEN [scan[k] EXCEPT !.disturbed = TRUE]
                   ELSE scan[k]]
     /\ overlapped' = (overlapped \/ me.disturbed)
     /\ UNCHANGED nextId

(* A discovery or an enrichment that fails, a process that dies, the victim*)
(* of a deadlock between two flushes: the transaction is rolled back.      *)
Fail(s) ==
  /\ scan[s].pc # "idle"
  /\ Step(s, Idle)
  /\ UNCHANGED <<tables, nextId, overlapped>>

-----------------------------------------------------------------------------
Init ==
  /\ scan = [s \in Scanners |-> Idle]
  /\ status = [h \in Hosts |-> "absent"]
  /\ lastScan = [h \in Hosts |-> 0]
  /\ scans = {}
  /\ alerts = {}
  /\ before = {}
  /\ nextId = 0
  /\ overlapped = FALSE

Next ==
  \E s \in Scanners :
    \/ Discover(s)
    \/ InsertScan(s)
    \/ Load(s)
    \/ \E h \in Hosts : Refresh(s, h) \/ Add(s, h) \/ SendRow(s, h)
    \/ InsertDevice(s)
    \/ RefuseDuplicate(s)
    \/ MarkOffline(s)
    \/ Commit(s)
    \/ Fail(s)

Spec == Init /\ [][Next]_vars

-----------------------------------------------------------------------------
(* Scans, devices and alerts are of the types the code gives them.         *)
TypeOK ==
  /\ scan \in [Scanners -> LocalRecord]
  /\ status \in [Hosts -> Statuses]
  /\ lastScan \in [Hosts -> Nat]
  /\ scans \subseteq ScanRecord
  /\ alerts \subseteq AlertRecord
  /\ before \subseteq Nat \X Nat
  /\ nextId \in Nat
  /\ overlapped \in BOOLEAN

(* However scans overlap and fail, every device of the table has been      *)
(* announced by exactly one new_device alert, and nothing else has.        *)
DevicesAreAnnouncedOnce ==
  \A h \in Hosts :
    LET news == {a \in alerts : a.type = "new_device" /\ a.device = h}
    IN /\ (status[h] # "absent") <=> (news # {})
       /\ \A a, b \in news : a = b

(* However scans overlap, last_scan_id names a committed scan that the     *)
(* device answered, and alerts agree with the scan they name: it saw the   *)
(* new device, and it did not see the one it reports as offline.           *)
ReportsAreFounded ==
  /\ \A h \in Hosts :
       status[h] # "absent" =>
         \E x \in scans : x.id = lastScan[h] /\ h \in x.seen
  /\ \A a \in alerts :
       \E x \in scans :
         x.id = a.scan /\ (a.device \in x.seen <=> a.type = "new_device")

(* As long as no scan has committed over another's changes, a device gets  *)
(* one device_offline alert per outage: a scan that saw it was committed   *)
(* between two of them, whatever the order of their ids.                   *)
OneAlertPerOutage ==
  overlapped \/ \A a, b \in alerts :
    a.type = "device_offline" /\ b.type = "device_offline"
      /\ a.device = b.device /\ <<a.scan, b.scan>> \in before
    => \E x \in scans : /\ <<a.scan, x.id>> \in before
                        /\ <<x.id, b.scan>> \in before
                        /\ a.device \in x.seen

(* However scans overlap, no device goes offline without an alert of the   *)
(* scan that says so, and none comes back without being seen.              *)
OutagesAreReported ==
  [][\A h \in Hosts : status'[h] # status[h] =>
       \E x \in scans' \ scans :
         IF status'[h] = "offline"
         THEN Alert("device_offline", h, x.id) \in alerts'
         ELSE h \in x.seen]_vars

(* A scan during which no other one commits repairs whatever overlaps left *)
(* behind: the devices online are those it saw, and it reports exactly the *)
(* changes it makes.                                                       *)
Exact(s) ==
  \A x \in scans' \ scans :
    /\ \A h \in Hosts : status'[h] = "online" <=> h \in x.seen
    /\ alerts' \ alerts =
         {Alert("new_device", h, x.id) : h \in {g \in Hosts : status[g] = "absent"
                                                     /\ status'[g] = "online"}}
         \cup
         {Alert("device_offline", h, x.id) : h \in {g \in Hosts : status[g] = "online"
                                                     /\ status'[g] = "offline"}}

LoneScansAreExact ==
  [][\A s \in Scanners :
       (scan[s].pc = "commit" /\ ~scan[s].disturbed /\ scan'[s].pc = "idle") =>
         Exact(s)]_vars

Inventory == INSTANCE DeviceScans WITH Ids <- 1..MaxScans

(* However scans overlap, wait, are refused, fail or die, each changes     *)
(* devices and alerts whole and at one instant, or nothing: unless another *)
(* has committed since it loaded them, as if it had been alone.            *)
ScansAreAtomic == Inventory!Spec

-----------------------------------------------------------------------------
(* The inductive invariant behind the properties above.                    *)

(* A scan's id is its own, and only committed scans are in order.          *)
IdsAreIssued ==
  /\ \A x \in scans : x.id \in 1..nextId
  /\ \A p \in before : \E x, y \in scans : p = <<x.id, y.id>>
  /\ \A s \in Scanners :
       scan[s].pc \in InTransaction =>
         /\ scan[s].id \in 1..nextId
         /\ \A x \in scans : x.id # scan[s].id
         /\ \A k \in Others(s) : scan[k].id # scan[s].id

(* Rows that a scan has written are no other's, and those it has inserted  *)
(* are not in the table yet.                                               *)
Owned(me) ==
  /\ me.pc \notin InTransaction => me.sent = {}
  /\ me.new \subseteq me.sent
  /\ \A h \in me.new : status[h] = "absent"

WritesAreExclusive ==
  \A s \in Scanners : Owned(scan[s]) /\ scan[s].sent \cap Locked(s) = {}

(* A scan has visited, or has still to visit, each host it saw.            *)
Visited(me) ==
  /\ me.pc # "commit" => me.gone = {}
  /\ me.pc \notin Loaded => me.new = {}
  /\ me.pc \in Loaded =>
       /\ me.todo \subseteq me.seen
       /\ me.pc = "insert" => me.row \in me.todo /\ me.loaded[me.row] = "absent"
       /\ me.pc = "commit" => me.todo = {}
       /\ me.new = {h \in me.seen \ me.todo : me.loaded[h] = "absent"}
       /\ \A h \in Hosts : me.loaded[h] # "absent" => status[h] # "absent"
       /\ \A h \in me.gone : h \notin me.seen /\ status[h] # "absent"

VisitsCoverSeen == \A s \in Scanners : Visited(scan[s])

(* What a scan has loaded is still so as long as no other commits.         *)
Undisturbed(me) ==
  me.pc \in Loaded /\ ~me.disturbed =>
    /\ me.loaded = status
    /\ me.pc = "commit" => me.gone = Missed(me.seen)

LoneIsUndisturbed == \A s \in Scanners : Undisturbed(scan[s])

(* A device that is online after an outage has been seen since: the scan   *)
(* of its last_scan_id was committed later.                                *)
OnlineSinceAlert ==
  overlapped \/ \A a \in alerts :
    a.type = "device_offline" /\ status[a.device] = "online" =>
      <<a.scan, lastScan[a.device]>> \in before

(* What every step of a scan keeps, whatever the others commit.            *)
IInv ==
  /\ TypeOK
  /\ IdsAreIssued
  /\ WritesAreExclusive
  /\ VisitsCoverSeen
  /\ LoneIsUndisturbed
  /\ DevicesAreAnnouncedOnce
  /\ ReportsAreFounded
  /\ OnlineSinceAlert
  /\ OneAlertPerOutage
=============================================================================
