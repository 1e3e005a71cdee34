---------------------------- MODULE MailboxHandles ----------------------------
(***************************************************************************)
(* What the runtime promises of mailboxes.  Every process has a life, from *)
(* its creation to its removal, and a set of holders: the processes that   *)
(* can write to its mailbox or soon will.  A handle is given out only      *)
(* while the process runs.  Once its shutdown has begun the holders only   *)
(* become fewer, and it is told to shut itself down ("closed") only when   *)
(* there are none.  The end of the whole program excuses from this.        *)
(*                                                                         *)
(* The manager may deal with several processes in one step: the next-state *)
(* relation says what may happen to each.                                  *)
(***************************************************************************)
CONSTANTS Process, First

VARIABLES status, holders, ending

vars == <<status, holders, ending>>

Status == {"unborn", "running", "closing", "closed", "gone"}

TypeOK ==
  /\ status \in [Process -> Status]
  /\ holders \in [Process -> SUBSET Process]
  /\ ending \in BOOLEAN

Init ==
  /\ status = [p \in Process |-> IF p = First THEN "running" ELSE "unborn"]
  /\ holders = [p \in Process |-> {}]
  /\ ending = FALSE

Create(p) == status[p] = "unborn" /\ status'[p] = "running" /\ holders[p] = {}

Grant(p) == status[p] = "running" /\ status'[p] = "running" /\ holders[p] \subseteq holders'[p]

Begin_Shutdown(p) == status[p] = "running" /\ status'[p] = "closing" /\ holders'[p] = holders[p]

Release(p) == status'[p] = status[p] /\ holders'[p] \subseteq holders[p]

Close(p) ==
  /\ status[p] \in {"running", "closing"}
  /\ status'[p] = "closed"
  /\ holders[p] = {} /\ holders'[p] = {}

Remove(p) ==
  /\ status[p] = "closed" \/ (ending /\ status[p] # "unborn")
  /\ status'[p] = "gone"
  /\ holders'[p] \subseteq holders[p]

Step(p) == Create(p) \/ Grant(p) \/ Begin_Shutdown(p) \/ Release(p) \/ Close(p) \/ Remove(p)

Next ==
  /\ status' \in [Process -> Status]
  /\ holders' \in [Process -> SUBSET Process]
  /\ ending' \in {ending, TRUE}
  /\ \A p \in Process : Step(p)

Spec == Init /\ [][Next]_vars

(* No one can write to a closed process, nor to one that is gone.          *)
ClosedIsUnreachable ==
  \A p \in Process : status[p] = "closed" \/ (status[p] = "gone" /\ ~ending) => holders[p] = {}
=============================================================================
