------------------------------- MODULE Daemon -------------------------------
(***************************************************************************)
(* The daemon: runDaemon, reconcileTick and runOne of daemon.ts.  A tick   *)
(* lists the open pull requests under the ETag it holds, decides each of   *)
(* them, queues the selected ones, and drains the queue through workers    *)
(* that each need a host lease.  The process may die at any point and is   *)
(* started again by launchd with nothing but what GitHub holds.            *)
(***************************************************************************)
EXTENDS Review, FiniteSets

CONSTANTS
  Capacity,         \* host.maxConcurrentAgents
  OtherSlots,       \* bound: slots the other agents of the host use
  FaultBound        \* bound: how often each kind of fault happens

FaultKinds == {"crash", "failure", "obstacle"}

ASSUME DaemonAssumption ==
  /\ Capacity \in Nat \ {0} /\ OtherSlots \in Nat
  /\ FaultBound \in [FaultKinds -> Nat]
  /\ IsFiniteSet(Workers)

VARIABLES
  phase,            \* where the loop is
  todo,             \* listed pull requests this tick has not decided yet
  queue,            \* reviews no worker has taken yet
  waiting,          \* keys of queuedSince
  overdue,          \* waiting reviews queued longer than maxQueueWaitSeconds
  faults            \* how often each kind of fault has happened

daemonVars == <<phase, todo, queue, waiting, overdue, faults>>
vars == <<githubVars, reviewVars, daemonVars>>

Entries == PullRequests \X Revisions
Phases == {"sleeping", "deciding", "draining", "failing", "down"}

(* Leases this process was granted: one per review it is running. *)
OwnSlots == Cardinality({w \in Workers : Active(w)})

DaemonTypeOK ==
  /\ phase \in Phases
  /\ todo \subseteq Entries /\ queue \subseteq Entries
  /\ waiting \subseteq Entries /\ overdue \subseteq Entries
  /\ faults \in [FaultKinds -> Nat]

TypeOK == GitHubTypeOK /\ ReviewTypeOK /\ DaemonTypeOK

Init ==
  /\ GitHubInit /\ ReviewInit
  /\ phase = "sleeping" /\ todo = {} /\ queue = {} /\ waiting = {} /\ overdue = {}
  /\ faults = [k \in FaultKinds |-> 0]

---------------------------------------------------------------------------
(* A tick *)

(* listOpenConditionally: the heads as listed, or nothing on a 304.  The   *)
(* tag of this listing is the one the next tick sends.                     *)
ListOpen ==
  /\ phase = "sleeping"
  /\ phase' = "deciding"
  /\ todo' = IF unchanged THEN {} ELSE {<<pr, head[pr]>> : pr \in PullRequests}
  /\ unchanged' = TRUE
  /\ UNCHANGED <<head, runs, threads, reviewVars, queue, waiting, overdue, faults>>

(* decideReview of one listed pull request at its listed revision *)
Decide ==
  /\ phase = "deciding"
  /\ \E e \in todo :
       /\ todo' = todo \ {e}
       /\ queue' = IF Selected(runs[e[1]][e[2]], RepliesOf(threads[e[1]]))
                   THEN queue \cup {e} ELSE queue
  /\ UNCHANGED <<githubVars, reviewVars, phase, waiting, overdue, faults>>

(* Enqueue: queuedSince keeps the keys that are still selected, and only   *)
(* those; a 304 selected nothing.                                          *)
Enqueue ==
  /\ phase = "deciding" /\ todo = {}
  /\ phase' = "draining"
  /\ waiting' = queue
  /\ overdue' = overdue \cap queue
  /\ UNCHANGED <<githubVars, reviewVars, todo, queue, faults>>

(* Slip: the workers are not awaited. *)
EndTickEarly ==
  /\ phase = "draining" /\ queue = {}
  /\ phase' = "sleeping"
  /\ UNCHANGED <<githubVars, reviewVars, todo, queue, waiting, overdue, faults>>

(* The queue is drained and every worker has returned: sleep. *)
EndTick ==
  /\ phase = "draining" /\ queue = {} /\ \A w \in Workers : ~ Active(w)
  /\ phase' = "sleeping"
  /\ UNCHANGED <<githubVars, reviewVars, todo, queue, waiting, overdue, faults>>

---------------------------------------------------------------------------
(* Workers *)

(* A worker takes the next entry of the shared queue. *)
Take(w, e) ==
  /\ phase \in {"draining", "failing"} /\ job[w].pc = "idle" /\ e \in queue
  /\ queue' = queue \ {e}

(* acquireHostLease finds every slot held, by this process or by another   *)
(* agent: the review is not started and stays in queuedSince.  What the    *)
(* others hold is chosen anew for every acquisition, since they may take   *)
(* and return slots while it goes from slot to slot.                       *)
NoSlot(w, e) ==
  /\ Take(w, e)
  /\ OwnSlots + OtherSlots >= Capacity
  /\ UNCHANGED <<githubVars, reviewVars, phase, todo, waiting, overdue, faults>>

(* A lease is granted: a slot is free, or the file of another agent in one *)
(* was taken for stale, as run lease_window of HostLease shows.  The       *)
(* review starts, or has waited too long.  The entry leaves queuedSince    *)
(* when the worker is done with it; nothing reads it before that, so it    *)
(* leaves here.                                                            *)
Start(w, e) ==
  /\ Take(w, e)
  /\ OwnSlots < Capacity \/ OtherSlots > 0
  /\ job' = [job EXCEPT ![w] = NewJob(IF e \in overdue THEN "wait_open" ELSE "snapshot",
                                      e[1], e[2])]
  /\ waiting' = waiting \ {e} /\ overdue' = overdue \ {e}
  /\ UNCHANGED <<githubVars, obstacle, phase, todo, faults>>

Work(w) ==
  \/ \E e \in queue : NoSlot(w, e) \/ Start(w, e)
  \/ ReviewStep(w) /\ UNCHANGED daemonVars

---------------------------------------------------------------------------
(* Faults *)

Fault(kind) ==
  /\ faults[kind] < FaultBound[kind]
  /\ faults' = [faults EXCEPT ![kind] = @ + 1]

(* Where a rejection can find a review that nothing below the loop catches  *)
(* it for.  A call whose answer is lost rejects after its effect: that is  *)
(* the state the next call starts from, and escalations never reject.      *)
Throwing == ReviewSteps \cup {"wait_open", "wait_report", "wait_notify"}

(* A call of a review fails: the lease is released and the worker's promise *)
(* rejects, and with it the loop.  The other workers still drain the queue. *)
ReviewThrows(w) ==
  /\ Fault("failure")
  /\ job[w].pc \in Throwing
  /\ job' = [job EXCEPT ![w] = Dead]
  /\ phase' = "failing"
  /\ UNCHANGED <<githubVars, obstacle, todo, queue, waiting, overdue>>

(* A call of the tick itself fails. *)
TickThrows ==
  /\ Fault("failure")
  /\ phase \in {"sleeping", "deciding"}
  /\ phase' = "failing"
  /\ todo' = {} /\ queue' = {}
  /\ UNCHANGED <<githubVars, reviewVars, waiting, overdue>>

StopsNow ==
  /\ phase' = "down"
  /\ job' = [w \in Workers |-> Idle]
  /\ todo' = {} /\ queue' = {} /\ waiting' = {} /\ overdue' = {}
  /\ UNCHANGED <<githubVars, obstacle>>

(* The loop is over and no work is left: the process exits. *)
Exit ==
  /\ phase = "failing"
  /\ \A w \in Workers : ~ Active(w)
  /\ queue = {} \/ \A w \in Workers : job[w].pc = "dead"
  /\ StopsNow
  /\ UNCHANGED faults

(* The process is killed, with its jobs; their leases are stale files the  *)
(* next acquisition reclaims.                                              *)
Crash == phase # "down" /\ Fault("crash") /\ StopsNow

(* launchd's KeepAlive: a new process holds no ETag. *)
Restart ==
  /\ phase = "down"
  /\ phase' = "sleeping"
  /\ unchanged' = FALSE
  /\ UNCHANGED <<head, runs, threads, reviewVars, todo, queue, waiting, overdue, faults>>

---------------------------------------------------------------------------
(* The rest of the world *)

(* A waiting review passes maxQueueWaitSeconds: behind a running review,   *)
(* or from one tick to the next.  Idle workers take their entries in the   *)
(* same turn of the event loop that enqueues them.                         *)
WaitGrows ==
  /\ phase \in {"sleeping", "deciding"} \/ \E w \in Workers : Active(w)
  /\ \E e \in waiting \ overdue : overdue' = overdue \cup {e}
  /\ UNCHANGED <<githubVars, reviewVars, phase, todo, queue, waiting, faults>>

Obstruct ==
  /\ Fault("obstacle")
  /\ \E pr \in PullRequests, o \in Obstacles :
       obstacle[pr] = "none" /\ obstacle' = [obstacle EXCEPT ![pr] = o]
  /\ UNCHANGED <<githubVars, job, phase, todo, queue, waiting, overdue>>

(* The budget is raised, the allowance resets, a human fixes it. *)
Clear ==
  /\ \E pr \in PullRequests :
       obstacle[pr] # "none" /\ obstacle' = [obstacle EXCEPT ![pr] = "none"]
  /\ UNCHANGED <<githubVars, job, daemonVars>>

World == (People /\ UNCHANGED <<reviewVars, daemonVars>>) \/ WaitGrows \/ Obstruct \/ Clear

Loop == ListOpen \/ Decide \/ Enqueue \/ EndTick \/ Exit \/ Restart

Next ==
  \/ Loop
  \/ \E w \in Workers : Work(w) \/ ReviewThrows(w)
  \/ TickThrows \/ Crash
  \/ World

Spec == Init /\ [][Next]_vars

(* The event loop serves every ready step, every awaited call is answered, *)
(* launchd restarts the process, and what stops a review is one day gone.  *)
Fairness == WF_vars(Loop) /\ (\A w \in Workers : WF_vars(Work(w))) /\ WF_vars(Clear)

FairSpec == Spec /\ Fairness
=============================================================================
