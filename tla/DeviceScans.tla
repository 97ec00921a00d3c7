---------------------------- MODULE DeviceScans ----------------------------
(***************************************************************************)
(* What a scan of the network amounts to, with nothing said of discovery,  *)
(* sessions, flushes, row locks, unique constraints, deadlocks or crashes: *)
(* it changes devices and alerts at one instant, or not at all.            *)
(*                                                                         *)
(* A scan that no other one overtakes makes the table what it saw.  One    *)
(* that is overtaken may leave a device with the status another scan gave  *)
(* it, and may report as gone devices that were offline already; it still  *)
(* announces every new device, and no device twice.                        *)
(***************************************************************************)

CONSTANTS Hosts, Ids

VARIABLES
  status,     \* per address: "absent", "online" or "offline"
  lastScan,   \* per address: the scan that last saw it, or 0
  scans,      \* the scans that took place, with the hosts they saw
  alerts,     \* what they have reported
  overlapped  \* has a scan been overtaken?

vars == <<status, lastScan, scans, alerts, overlapped>>

Online == {h \in Hosts : status[h] = "online"}
Known == {h \in Hosts : status[h] # "absent"}

Alert(type, h, id) == [type |-> type, device |-> h, scan |-> id]

Init ==
  /\ status = [h \in Hosts |-> "absent"]
  /\ lastScan = [h \in Hosts |-> 0]
  /\ scans = {}
  /\ alerts = {}
  /\ overlapped = FALSE

(* A scan that sees `seen', reports `gone' and lets `kept' be.             *)
Scan(id, seen, gone, kept) ==
  /\ \A x \in scans : x.id # id
  /\ scans' = scans \cup {[id |-> id, seen |-> seen]}
  /\ status' = [h \in Hosts |-> IF h \in kept THEN status[h]
                                ELSE IF h \in seen THEN "online"
                                ELSE IF h \in gone THEN "offline"
                                ELSE status[h]]
  /\ lastScan' = [h \in Hosts |-> IF h \in seen THEN id ELSE lastScan[h]]
  /\ alerts' = alerts \cup {Alert("new_device", h, id) : h \in seen \ Known}
                      \cup {Alert("device_offline", h, id) : h \in gone}

Alone(id, seen) ==
  /\ Scan(id, seen, Online \ seen, {})
  /\ UNCHANGED overlapped

Overtaken(id, seen) ==
  /\ \E gone \in SUBSET (Known \ seen), kept \in SUBSET Known :
       Scan(id, seen, gone, kept)
  /\ overlapped' = TRUE

Next == \E id \in Ids, seen \in SUBSET Hosts : Alone(id, seen) \/ Overtaken(id, seen)

Spec == Init /\ [][Next]_vars
=============================================================================
