----------------------------- MODULE VisuraOrders -----------------------------
(***************************************************************************)
(* What the owner of a batch is promised, with nothing said of threads,    *)
(* transactions, sessions, captchas or crashes: orders for documents are   *)
(* placed in batches; each is delivered at most once, for good, or given   *)
(* up, and what was given up may be asked for again; a batch reported as   *)
(* finished has nothing left to do and is never touched again.             *)
(*                                                                         *)
(* The promise ends where a call of the owner crosses another change of    *)
(* the rows it read: from then on only the archive is kept.                *)
(***************************************************************************)
CONSTANTS Batches, Orders, BatchOf

VARIABLES
  phase,      \* of each order
  filed,      \* the archive: orders whose document it holds
  finished,   \* batches reported as completed
  disturbed   \* has a call crossed another change?

vars == <<phase, filed, finished, disturbed>>

Phases == {"absent", "open", "delivered", "failed", "skipped"}

OrdersOf(b) == {r \in Orders : BatchOf[r] = b}
Unfinished(b) == b \in Batches \ finished

Init ==
  /\ phase = [r \in Orders |-> "absent"]
  /\ filed = {}
  /\ finished = {}
  /\ disturbed = FALSE

(* A batch appears with all its orders; some may be refused at once.       *)
Place(b) ==
  /\ Unfinished(b)
  /\ \A r \in OrdersOf(b) : phase[r] = "absent" /\ phase'[r] \in {"open", "skipped"}
  /\ \A r \in Orders \ OrdersOf(b) : phase'[r] = phase[r]
  /\ phase' \in [Orders -> Phases]
  /\ UNCHANGED <<filed, finished>>

(* One order is taken up, given up or left out.                            *)
Move(r, to) ==
  /\ Unfinished(BatchOf[r])
  /\ phase[r] \notin {"absent", "delivered"}
  /\ phase' = [phase EXCEPT ![r] = to]
  /\ UNCHANGED <<filed, finished>>

Deliver(r) ==
  /\ Unfinished(BatchOf[r])
  /\ phase[r] \notin {"absent", "delivered"}
  /\ r \notin filed
  /\ phase' = [phase EXCEPT ![r] = "delivered"]
  /\ filed' = filed \cup {r}
  /\ UNCHANGED finished

(* All orders of a batch in one phase move together: cancelled (open to    *)
(* skipped), asked for again (failed to open).                             *)
MoveAll(b, from, to) ==
  /\ Unfinished(b)
  /\ phase' = [r \in Orders |-> IF BatchOf[r] = b /\ phase[r] = from THEN to
                                                                ELSE phase[r]]
  /\ UNCHANGED <<filed, finished>>

(* A batch is broken off: the orders of S, still open when that began, are *)
(* given up, those cancelled since included; orders asked for again since  *)
(* stay open.                                                              *)
BreakOff(b, S) ==
  /\ Unfinished(b)
  /\ \A r \in S : BatchOf[r] = b /\ phase[r] \in {"open", "skipped"}
  /\ phase' = [r \in Orders |-> IF r \in S THEN "failed" ELSE phase[r]]
  /\ UNCHANGED <<filed, finished>>

Finish(b) ==
  /\ Unfinished(b)
  /\ \A r \in OrdersOf(b) : phase[r] \in {"delivered", "skipped"}
  /\ finished' = finished \cup {b}
  /\ UNCHANGED <<phase, filed>>

(* A call that crosses another change may do anything but to the archive.  *)
Disturb ==
  /\ disturbed' = TRUE
  /\ filed \subseteq filed'

Orderly ==
  /\ \/ \E b \in Batches : Place(b)
     \/ \E r \in Orders : Move(r, "open") \/ Move(r, "failed") \/ Move(r, "skipped")
     \/ \E r \in Orders : Deliver(r)
     \/ \E b \in Batches : MoveAll(b, "open", "skipped") \/ MoveAll(b, "failed", "open")
     \/ \E b \in Batches, S \in SUBSET Orders : BreakOff(b, S)
     \/ \E b \in Batches : Finish(b)
  /\ ~disturbed
  /\ disturbed' = FALSE

Next == Orderly \/ Disturb

Spec == Init /\ [][Next]_vars
=============================================================================
