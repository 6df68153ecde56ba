----------------------------- MODULE HostLease -----------------------------
(***************************************************************************)
(* host-lease.ts: the host's agents share a directory of slot files, and a *)
(* lease is a file naming the process that holds it.  There is no lock:    *)
(* each file operation is atomic, and other processes act between any two  *)
(* of them.  Within one process acquire and release run to their end.      *)
(*                                                                         *)
(* A process is one incarnation; one that dies never comes back.  It may   *)
(* run several agents (the daemon's workers), each wanting a lease.        *)
(***************************************************************************)
EXTENDS Naturals, FiniteSets

CONSTANTS
  Agents,           \* those that call withHostLease
  Processes,        \* process identifiers
  ProcessOf,        \* the process an agent runs in
  Capacity,         \* host.maxConcurrentAgents
  Free              \* no file: what a reader of a missing file sees

ASSUME LeaseAssumption ==
  /\ ProcessOf \in [Agents -> Processes]
  /\ Capacity \in Nat \ {0}
  /\ Free \notin Processes

VARIABLES
  slot,             \* slot[s]: the process the slot file names, or Free
  live,             \* the processes that have not died
  pc,               \* pc[a]: what agent a does next
  at,               \* at[a]: the slot it is at
  saw,              \* saw[a]: the record it read there
  stolen            \* history: a file naming a live process was removed by another

vars == <<slot, live, pc, at, saw, stolen>>

Slots == 1..Capacity
Acquiring == {"claim", "read", "probe", "unlink", "retry"}
Releasing == {"reread", "remove"}

TypeOK ==
  /\ slot \in [Slots -> Processes \cup {Free}]
  /\ live \subseteq Processes
  /\ pc \in [Agents -> {"idle", "holding", "gone"} \cup Acquiring \cup Releasing]
  /\ at \in [Agents -> Slots]
  /\ saw \in [Agents -> Processes \cup {Free}]
  /\ stolen \in BOOLEAN

Init ==
  /\ slot = [s \in Slots |-> Free]
  /\ live = Processes
  /\ pc = [a \in Agents |-> "idle"]
  /\ at = [a \in Agents |-> 1]
  /\ saw = [a \in Agents |-> Free]
  /\ stolen = FALSE

(* No other agent of the same process is inside a call: they are            *)
(* synchronous.                                                             *)
Alone(a) ==
  \A b \in Agents \ {a} :
    ProcessOf[b] = ProcessOf[a] => pc[b] \notin Acquiring \cup Releasing

GoTo(a, where) == pc' = [pc EXCEPT ![a] = where]

---------------------------------------------------------------------------
(* acquireHostLease: the lowest slot first *)

Begin(a) ==
  /\ pc[a] = "idle" /\ Alone(a)
  /\ GoTo(a, "claim")
  /\ at' = [at EXCEPT ![a] = 1]
  /\ UNCHANGED <<slot, live, saw, stolen>>

(* Slip: the slot after the last is tried too. *)
TryNextPastTheEnd(a) ==
  IF at[a] <= Capacity
  THEN GoTo(a, "claim") /\ at' = [at EXCEPT ![a] = @ + 1]
  ELSE GoTo(a, "idle") /\ at' = [at EXCEPT ![a] = 1]

(* On to the next slot; after the last one the answer is null. *)
TryNext(a) ==
  IF at[a] < Capacity
  THEN GoTo(a, "claim") /\ at' = [at EXCEPT ![a] = @ + 1]
  ELSE GoTo(a, "idle") /\ at' = [at EXCEPT ![a] = 1]

(* link(): publishes the record under the slot's name, or EEXIST. *)
Link(a) == slot[at[a]] = Free /\ slot' = [slot EXCEPT ![at[a]] = ProcessOf[a]]

Claim(a) ==
  /\ pc[a] = "claim"
  /\ \/ Link(a) /\ GoTo(a, "holding")
     \/ slot[at[a]] # Free /\ GoTo(a, "read") /\ UNCHANGED slot
  /\ UNCHANGED <<live, at, saw, stolen>>

(* readSlotRecord: the file may be gone by now. *)
Read(a) ==
  /\ pc[a] = "read"
  /\ saw' = [saw EXCEPT ![a] = slot[at[a]]]
  /\ GoTo(a, "probe")
  /\ UNCHANGED <<slot, live, at, stolen>>

(* Slip: a record is believed whoever left it. *)
ProbeTrusting(a) ==
  /\ pc[a] = "probe"
  /\ IF saw[a] # Free THEN TryNext(a) ELSE GoTo(a, "unlink") /\ UNCHANGED at
  /\ UNCHANGED <<slot, live, saw, stolen>>

(* pidIsLive: a live holder keeps the slot, nobody or a dead one does not. *)
Probe(a) ==
  /\ pc[a] = "probe"
  /\ IF saw[a] \in live THEN TryNext(a) ELSE GoTo(a, "unlink") /\ UNCHANGED at
  /\ UNCHANGED <<slot, live, saw, stolen>>

(* Removing a file that names a live process other than the remover's own. *)
Steals(a) == slot[at[a]] \in live \ {ProcessOf[a]}

(* unlink(): whatever the slot file says by now. *)
Unlink(a) ==
  /\ pc[a] = "unlink"
  /\ slot' = [slot EXCEPT ![at[a]] = Free]
  /\ stolen' = (stolen \/ Steals(a))
  /\ GoTo(a, "retry")
  /\ UNCHANGED <<live, at, saw>>

(* Slip: the second link is not looked at. *)
RetryBlindly(a) ==
  /\ pc[a] = "retry"
  /\ slot' = [slot EXCEPT ![at[a]] = ProcessOf[a]]
  /\ GoTo(a, "holding")
  /\ UNCHANGED <<live, at, saw, stolen>>

(* The second attempt at the same slot; failing that, the next one. *)
Retry(a) ==
  /\ pc[a] = "retry"
  /\ \/ Link(a) /\ GoTo(a, "holding") /\ UNCHANGED at
     \/ slot[at[a]] # Free /\ TryNext(a) /\ UNCHANGED slot
  /\ UNCHANGED <<live, saw, stolen>>

---------------------------------------------------------------------------
(* lease.release, once per lease *)

Release(a) ==
  /\ pc[a] = "holding" /\ Alone(a)
  /\ GoTo(a, "reread")
  /\ UNCHANGED <<slot, live, at, saw, stolen>>

(* Only a record of this process is removed. *)
Reread(a) ==
  /\ pc[a] = "reread"
  /\ GoTo(a, IF slot[at[a]] = ProcessOf[a] THEN "remove" ELSE "idle")
  /\ UNCHANGED <<slot, live, at, saw, stolen>>

Remove(a) ==
  /\ pc[a] = "remove"
  /\ slot' = [slot EXCEPT ![at[a]] = Free]
  /\ stolen' = (stolen \/ Steals(a))
  /\ GoTo(a, "idle")
  /\ UNCHANGED <<live, at, saw>>

(* A process dies at any point; its files stay. *)
Die(p) ==
  /\ p \in live
  /\ live' = live \ {p}
  /\ pc' = [a \in Agents |-> IF ProcessOf[a] = p THEN "gone" ELSE pc[a]]
  /\ UNCHANGED <<slot, at, saw, stolen>>

Acquire(a) == Begin(a) \/ Claim(a) \/ Read(a) \/ Probe(a) \/ Unlink(a) \/ Retry(a)
GiveBack(a) == Release(a) \/ Reread(a) \/ Remove(a)

Next ==
  \/ \E a \in Agents : Acquire(a) \/ GiveBack(a)
  \/ \E p \in Processes : Die(p)

Spec == Init /\ [][Next]_vars

(* A call that has begun runs to its end, and an agent without a lease asks *)
(* again (the daemon's next tick does): the event loop gets to it between  *)
(* two calls of its siblings.  Nobody has to give a lease back.            *)
FairSpec ==
  Spec /\ \A a \in Agents : /\ WF_vars(Acquire(a)) /\ SF_vars(Begin(a))
                           /\ WF_vars(Reread(a) \/ Remove(a))

---------------------------------------------------------------------------
(* Properties *)

Holds(a) == pc[a] \in {"holding"} \cup Releasing

(* A lease is exclusive as long as nobody removed a live process's file:   *)
(* whatever dies, and however acquisitions and releases interleave, there  *)
(* is no other way for two agents to hold one slot.                        *)
ExclusiveUnlessStolen ==
  ~ stolen => \A a, b \in Agents : Holds(a) /\ Holds(b) /\ at[a] = at[b] => a = b

(* ... and then the host never runs more agents than its cap.              *)
CapHeldUnlessStolen ==
  ~ stolen => Cardinality({a \in Agents : Holds(a)}) <= Capacity

(* Capacity is not lost: while some slot, from some time on, has no file or *)
(* only the file of a dead process, an agent that asks is served, or dies  *)
(* (the reclaiming loop of acquireHostLease).                              *)
NoSlotIsLost ==
  \A s \in Slots, a \in Agents :
    (<>[](slot[s] \notin live)) => (pc[a] = "claim" ~> Holds(a) \/ pc[a] = "gone")

(* host-lease.ts:222 says of two holders of one slot that "it requires two *)
(* agents starting simultaneously immediately after a crash": so while     *)
(* nobody has died there are none.                                         *)
ExclusiveWithoutCrash ==
  live = Processes =>
    \A a, b \in Agents : Holds(a) /\ Holds(b) /\ at[a] = at[b] => a = b
=============================================================================
