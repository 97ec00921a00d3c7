-------------------------- MODULE DirectorySnapshots --------------------------
(***************************************************************************)
(* What a synchronisation of the NAS directory amounts to, with nothing    *)
(* said of SSH, retries, row locks, unique constraints, deadlocks or       *)
(* crashes: each job applies one listing, whole and at one instant, or     *)
(* leaves the directory as it was; the listing it applies gets an id that  *)
(* no other has; and the register of runs says only what happened.         *)
(*                                                                         *)
(* Jobs that overlap still apply whole listings.  They may apply them in   *)
(* another order than their ids, and may hang a share under a folder that  *)
(* was the deepest among fewer folders than are known by then.             *)
(***************************************************************************)
EXTENDS Naturals

CONSTANTS Jobs, Names, Shares, Above, None, MaxAttempts

VARIABLES
  stage,      \* of each job
  issued,     \* ids given out so far
  snapshots,  \* the listings applied
  lastSeen,   \* per name: the id of the listing that last had it, or 0
  parent,     \* per share: the folder it hangs under, or None
  runs,       \* the register
  overlapped  \* has a job begun while another was running?

vars == <<stage, issued, snapshots, lastSeen, parent, runs, overlapped>>

directory == <<snapshots, lastSeen, parent>>

To(j, s) == stage' = [stage EXCEPT ![j] = s]

Init ==
  /\ stage = [j \in Jobs |-> "waiting"]
  /\ issued = 0
  /\ snapshots = {}
  /\ lastSeen = [n \in Names |-> 0]
  /\ parent = [s \in Shares |-> None]
  /\ runs = {}
  /\ overlapped = FALSE

Begin(j) ==
  /\ stage[j] = "waiting"
  /\ To(j, "running")
  /\ overlapped' = (overlapped \/ \E k \in Jobs \ {j} : stage[k] \in {"running", "applied"})
  /\ UNCHANGED <<directory, issued, runs>>

(* An id once given out is never given out again, used or not.             *)
Issue ==
  /\ issued' = issued + 1
  /\ UNCHANGED <<stage, directory, runs, overlapped>>

(* p is the deepest folder of V that contains s, None when there is none.  *)
Contains(p, s, V) == p \in Above[s] \cap V /\ (Above[s] \cap V) \ {p} \subseteq Above[p]

HangsUnder(s, p, V) ==
  Contains(p, s, V) \/ (p = None /\ ~\E t \in Shares : Contains(t, s, V))

(* The one step that changes the directory.                                *)
Apply(j, id, listing, seen) ==
  LET known == {s \in Shares : lastSeen'[s] # 0}
  IN /\ stage[j] = "running"
     /\ \A x \in snapshots : x.id # id /\ x.job # j
     /\ snapshots' = snapshots \cup {[id |-> id, job |-> j, payload |-> listing]}
     /\ lastSeen' = [n \in Names |-> IF n \in listing THEN id ELSE lastSeen[n]]
     /\ listing \cap Shares \subseteq seen /\ seen \subseteq known
     /\ \A s \in Shares :
          parent'[s] = parent[s] \/ (s \in seen /\ HangsUnder(s, parent'[s], seen))
     /\ ~overlapped =>
          /\ id = issued /\ seen = known
          /\ \A s \in seen : HangsUnder(s, parent'[s], seen)
     /\ To(j, "applied")
     /\ UNCHANGED <<issued, runs, overlapped>>

Register(j, x, attempts) ==
  /\ stage[j] = "applied"
  /\ x.job = j
  /\ runs' = runs \cup {[job |-> j, status |-> "succeeded",
                         attempts |-> attempts, snapshot |-> x.id]}
  /\ To(j, "over")
  /\ UNCHANGED <<directory, issued, overlapped>>

RegisterFailure(j) ==
  /\ stage[j] = "running"
  /\ runs' = runs \cup {[job |-> j, status |-> "failed",
                         attempts |-> MaxAttempts, snapshot |-> 0]}
  /\ To(j, "over")
  /\ UNCHANGED <<directory, issued, overlapped>>

(* Refused or dead: nothing is applied, or what was applied stays applied. *)
Abandon(j) ==
  /\ stage[j] \in {"running", "applied"}
  /\ To(j, "over")
  /\ UNCHANGED <<directory, issued, runs, overlapped>>

Next ==
  \/ Issue
  \/ \E j \in Jobs :
       \/ Begin(j)
       \/ \E id \in 1..issued, listing \in SUBSET Names, seen \in SUBSET Shares :
            Apply(j, id, listing, seen)
       \/ \E x \in snapshots, attempts \in 1..MaxAttempts : Register(j, x, attempts)
       \/ RegisterFailure(j)
       \/ Abandon(j)

Spec == Init /\ [][Next]_vars
=============================================================================
