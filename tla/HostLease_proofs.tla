-------------------------- MODULE HostLease_proofs --------------------------
(***************************************************************************)
(* Theorems about module HostLease, for any number of agents, processes    *)
(* and slots: types, the exclusiveness of a lease nobody stole, and the    *)
(* host's cap.                                                             *)
(***************************************************************************)
EXTENDS HostLease, FiniteSetTheorems, TLAPS

LEMMA InitTypes == Init => TypeOK
<1> SUFFICES ASSUME Init PROVE TypeOK
  OBVIOUS
<1>1. 1 \in Slots
  BY LeaseAssumption DEF LeaseAssumption, Slots
<1>2. slot \in [Slots -> Processes \cup {Free}]
  BY DEF Init
<1>3. at \in [Agents -> Slots]
  BY <1>1 DEF Init
<1>4. pc \in [Agents -> {"idle", "holding", "gone"} \cup Acquiring \cup Releasing]
  BY DEF Init
<1> QED
  BY <1>2, <1>3, <1>4 DEF Init, TypeOK

LEMMA StepTypes == TypeOK /\ [Next]_vars => TypeOK'
<1> SUFFICES ASSUME TypeOK, [Next]_vars PROVE TypeOK'
  OBVIOUS
<1> USE LeaseAssumption DEF LeaseAssumption, TypeOK, Slots, Acquiring, Releasing
<1>1. ASSUME NEW a \in Agents, Acquire(a) PROVE TypeOK'
  <2>1. CASE Begin(a)
    BY <2>1 DEF Begin, GoTo
  <2>2. CASE Claim(a)
    BY <2>2 DEF Claim, Link, GoTo
  <2>3. CASE Read(a)
    BY <2>3 DEF Read, GoTo
  <2>4. CASE Probe(a)
    <3>1. \/ at' = at
          \/ at' = [at EXCEPT ![a] = 1]
          \/ at[a] < Capacity /\ at' = [at EXCEPT ![a] = @ + 1]
      BY <2>4 DEF Probe, TryNext
    <3>2. at' \in [Agents -> Slots]
      BY <3>1
    <3>3. \E to \in {"unlink", "claim", "idle"} : GoTo(a, to)
      BY <2>4 DEF Probe, TryNext
    <3>4. pc' \in [Agents -> {"idle", "holding", "gone"} \cup Acquiring \cup Releasing]
      BY <3>3 DEF GoTo
    <3>5. UNCHANGED <<slot, live, saw, stolen>>
      BY <2>4 DEF Probe
    <3> QED
      BY <3>2, <3>4, <3>5
  <2>5. CASE Unlink(a)
    BY <2>5 DEF Unlink, Steals, GoTo
  <2>6. CASE Retry(a)
    BY <2>6 DEF Retry, Link, TryNext, GoTo
  <2> QED
    BY <1>1, <2>1, <2>2, <2>3, <2>4, <2>5, <2>6 DEF Acquire
<1>2. ASSUME NEW a \in Agents, GiveBack(a) PROVE TypeOK'
  BY <1>2 DEF GiveBack, Release, Reread, Remove, Steals, GoTo
<1>3. ASSUME NEW p \in Processes, Die(p) PROVE TypeOK'
  BY <1>3 DEF Die
<1>4. CASE UNCHANGED vars
  BY <1>4 DEF vars
<1> QED
  BY <1>1, <1>2, <1>3, <1>4 DEF Next

(* The types are preserved by every step of an agent and by a death        *)
(* (acquireHostLease, makeLease.release).                                  *)
THEOREM TypeCorrect == Spec => []TypeOK
BY InitTypes, StepTypes, PTL DEF Spec

---------------------------------------------------------------------------
(* The inductive invariant *)

MidCall(a) == pc[a] \in Acquiring \cup Releasing

(* An agent is gone exactly when its process has died. *)
GoneWithProcess == \A a \in Agents : pc[a] = "gone" <=> ProcessOf[a] \notin live

(* Calls of one process do not overlap. *)
OneCallPerProcess ==
  \A a, b \in Agents : a # b /\ ProcessOf[a] = ProcessOf[b] => ~ (MidCall(a) /\ MidCall(b))

(* The file of a held slot names the holder's process ... *)
FileNamesHolder == \A a \in Agents : Holds(a) => slot[at[a]] = ProcessOf[a]

(* ... and a slot has one holder. *)
Exclusive == \A a, b \in Agents : Holds(a) /\ Holds(b) /\ at[a] = at[b] => a = b

(* What an agent has learnt about a slot a sibling holds: its record, after *)
(* reading; and past the probe no sibling holds the slot at all.  This is   *)
(* why a process never removes its own file from under a sibling.           *)
SiblingsAreSeen ==
  \A a, b \in Agents :
    a # b /\ ProcessOf[a] = ProcessOf[b] /\ Holds(b) /\ at[a] = at[b] =>
      /\ pc[a] = "probe" => saw[a] = ProcessOf[a]
      /\ pc[a] \notin {"unlink", "retry"}

LeaseInv == TypeOK /\ GoneWithProcess /\ OneCallPerProcess
            /\ (~ stolen => FileNamesHolder /\ Exclusive /\ SiblingsAreSeen)

LEMMA InitLease == Init => LeaseInv
<1> SUFFICES ASSUME Init PROVE LeaseInv
  OBVIOUS
<1>1. TypeOK
  BY InitTypes
<1>2. \A a \in Agents : ~ Holds(a) /\ ~ MidCall(a) /\ pc[a] = "idle" /\ ProcessOf[a] \in live
  BY LeaseAssumption DEF LeaseAssumption, Init, Holds, MidCall, Acquiring, Releasing
<1> QED
  BY <1>1, <1>2 DEF LeaseInv, GoneWithProcess, OneCallPerProcess, FileNamesHolder,
                    Exclusive, SiblingsAreSeen

(* One lemma per action: each keeps the invariant. *)

LEMMA BeginKeepsLease ==
  ASSUME LeaseInv, NEW a \in Agents, Begin(a)
  PROVE  LeaseInv'
<1> USE DEF LeaseInv
<1>1. TypeOK'
  BY StepTypes DEF Next, Acquire
<1>2. /\ pc[a] = "idle" /\ pc' = [pc EXCEPT ![a] = "claim"] /\ at' = [at EXCEPT ![a] = 1]
      /\ UNCHANGED <<slot, live, saw, stolen>>
  BY DEF Begin, GoTo
<1>3. \A b \in Agents : b # a => pc'[b] = pc[b] /\ at'[b] = at[b] /\ (Holds(b)' <=> Holds(b))
  BY <1>2 DEF TypeOK, Holds
<1>4. pc'[a] = "claim" /\ ~ Holds(a)'
  BY <1>2 DEF TypeOK, Holds, Releasing
<1>5. GoneWithProcess'
  BY <1>2, <1>3, <1>4 DEF GoneWithProcess
<1>6. OneCallPerProcess'
  BY <1>2, <1>3, <1>4 DEF OneCallPerProcess, MidCall, Begin, Alone, Acquiring, Releasing
<1>7. ~ stolen' => FileNamesHolder' /\ Exclusive' /\ SiblingsAreSeen'
  BY <1>2, <1>3, <1>4 DEF FileNamesHolder, Exclusive, SiblingsAreSeen
<1> QED
  BY <1>1, <1>5, <1>6, <1>7

LEMMA ClaimKeepsLease ==
  ASSUME LeaseInv, NEW a \in Agents, Claim(a)
  PROVE  LeaseInv'
<1> USE DEF LeaseInv
<1>1. TypeOK'
  BY StepTypes DEF Next, Acquire
<1>2. /\ pc[a] = "claim" /\ at' = at /\ UNCHANGED <<live, saw, stolen>>
      /\ \/ /\ slot[at[a]] = Free /\ pc' = [pc EXCEPT ![a] = "holding"]
            /\ slot' = [slot EXCEPT ![at[a]] = ProcessOf[a]]
         \/ pc' = [pc EXCEPT ![a] = "read"] /\ slot' = slot
  BY DEF Claim, Link, GoTo
<1>3. \A b \in Agents : b # a => pc'[b] = pc[b] /\ at'[b] = at[b] /\ (Holds(b)' <=> Holds(b))
  BY <1>2 DEF TypeOK, Holds
<1>4. pc'[a] \in {"holding", "read"} /\ ~ Holds(a)
  BY <1>2 DEF TypeOK, Holds, Releasing
<1>5. GoneWithProcess'
  BY <1>2, <1>3, <1>4 DEF GoneWithProcess
<1>6. OneCallPerProcess'
  BY <1>2, <1>3, <1>4 DEF OneCallPerProcess, MidCall, Acquiring, Releasing
<1>7. ~ stolen' => FileNamesHolder' /\ Exclusive' /\ SiblingsAreSeen'
  <2> SUFFICES ASSUME ~ stolen' PROVE FileNamesHolder' /\ Exclusive' /\ SiblingsAreSeen'
    OBVIOUS
  <2>1. FileNamesHolder /\ Exclusive /\ SiblingsAreSeen
    BY <1>2
  <2>2. CASE pc' = [pc EXCEPT ![a] = "read"] /\ slot' = slot
    <3>1. pc'[a] = "read" /\ ~ Holds(a)'
      BY <2>2 DEF TypeOK, Holds, Releasing
    <3> QED
      BY <1>2, <1>3, <2>1, <2>2, <3>1 DEF FileNamesHolder, Exclusive, SiblingsAreSeen
  <2>3. CASE /\ slot[at[a]] = Free /\ pc' = [pc EXCEPT ![a] = "holding"]
             /\ slot' = [slot EXCEPT ![at[a]] = ProcessOf[a]]
    <3>1. pc'[a] = "holding" /\ at[a] \in Slots
      BY <2>3 DEF TypeOK
    <3>2. \A b \in Agents : Holds(b) => at[b] # at[a]
      BY <2>1, <2>3, LeaseAssumption DEF LeaseAssumption, FileNamesHolder
    <3>3. FileNamesHolder'
      BY <1>2, <1>3, <2>1, <2>3, <3>1, <3>2 DEF FileNamesHolder, TypeOK
    <3>4. Exclusive'
      BY <1>2, <1>3, <2>1, <3>2 DEF Exclusive
    <3>5. \A b \in Agents : b # a /\ ProcessOf[a] = ProcessOf[b]
                              => pc'[b] \notin {"probe", "unlink", "retry"}
      BY <1>2, <1>3 DEF OneCallPerProcess, MidCall, Acquiring, Releasing
    <3>6. SiblingsAreSeen'
      BY <1>2, <1>3, <2>1, <3>1, <3>5 DEF SiblingsAreSeen
    <3> QED
      BY <3>3, <3>4, <3>6
  <2> QED
    BY <1>2, <2>2, <2>3
<1> QED
  BY <1>1, <1>5, <1>6, <1>7


LEMMA ReadKeepsLease ==
  ASSUME LeaseInv, NEW a \in Agents, Read(a)
  PROVE  LeaseInv'
<1> USE DEF LeaseInv
<1>1. TypeOK'
  BY StepTypes DEF Next, Acquire
<1>2. /\ pc[a] = "read" /\ pc' = [pc EXCEPT ![a] = "probe"] /\ at' = at
      /\ saw' = [saw EXCEPT ![a] = slot[at[a]]] /\ UNCHANGED <<slot, live, stolen>>
  BY DEF Read, GoTo
<1>3. \A b \in Agents : b # a => /\ pc'[b] = pc[b] /\ at'[b] = at[b] /\ saw'[b] = saw[b]
                                 /\ (Holds(b)' <=> Holds(b))
  BY <1>2 DEF TypeOK, Holds
<1>4. pc'[a] = "probe" /\ saw'[a] = slot[at[a]] /\ ~ Holds(a)'
  BY <1>2 DEF TypeOK, Holds, Releasing
<1>5. GoneWithProcess'
  BY <1>2, <1>3, <1>4 DEF GoneWithProcess
<1>6. OneCallPerProcess'
  BY <1>2, <1>3, <1>4 DEF OneCallPerProcess, MidCall, Acquiring, Releasing
<1>7. ~ stolen' => FileNamesHolder' /\ Exclusive' /\ SiblingsAreSeen'
  BY <1>2, <1>3, <1>4 DEF FileNamesHolder, Exclusive, SiblingsAreSeen
<1> QED
  BY <1>1, <1>5, <1>6, <1>7


LEMMA ProbeKeepsLease ==
  ASSUME LeaseInv, NEW a \in Agents, Probe(a)
  PROVE  LeaseInv'
<1> USE DEF LeaseInv
<1>1. TypeOK'
  BY StepTypes DEF Next, Acquire
<1>2. /\ pc[a] = "probe" /\ UNCHANGED <<slot, live, saw, stolen>>
      /\ \/ saw[a] \in live /\ (pc' = [pc EXCEPT ![a] = "claim"] \/ pc' = [pc EXCEPT ![a] = "idle"])
         \/ saw[a] \notin live /\ pc' = [pc EXCEPT ![a] = "unlink"] /\ at' = at
  BY DEF Probe, TryNext, GoTo
<1>3. \A b \in Agents : b # a => pc'[b] = pc[b] /\ at'[b] = at[b] /\ (Holds(b)' <=> Holds(b))
  BY DEF Probe, TryNext, GoTo, TypeOK, Holds
<1>4. /\ pc'[a] \in {"claim", "idle", "unlink"} /\ ~ Holds(a)'
      /\ pc'[a] = "unlink" => saw[a] \notin live /\ at' = at
  BY <1>2 DEF TypeOK, Holds, Releasing
<1>5. GoneWithProcess'
  BY <1>2, <1>3, <1>4 DEF GoneWithProcess
<1>6. OneCallPerProcess'
  BY <1>2, <1>3, <1>4 DEF OneCallPerProcess, MidCall, Acquiring, Releasing
<1>7. ~ stolen' => FileNamesHolder' /\ Exclusive' /\ SiblingsAreSeen'
  <2>1. ProcessOf[a] \in live
    BY <1>2 DEF GoneWithProcess
  <2> QED
    BY <1>2, <1>3, <1>4, <2>1 DEF FileNamesHolder, Exclusive, SiblingsAreSeen
<1> QED
  BY <1>1, <1>5, <1>6, <1>7


LEMMA UnlinkKeepsLease ==
  ASSUME LeaseInv, NEW a \in Agents, Unlink(a)
  PROVE  LeaseInv'
<1> USE DEF LeaseInv
<1>1. TypeOK'
  BY StepTypes DEF Next, Acquire
<1>2. /\ pc[a] = "unlink" /\ pc' = [pc EXCEPT ![a] = "retry"] /\ at' = at
      /\ slot' = [slot EXCEPT ![at[a]] = Free]
      /\ stolen' = (stolen \/ Steals(a)) /\ UNCHANGED <<live, saw>>
  BY DEF Unlink, GoTo
<1>3. \A b \in Agents : b # a => pc'[b] = pc[b] /\ at'[b] = at[b] /\ (Holds(b)' <=> Holds(b))
  BY <1>2 DEF TypeOK, Holds
<1>4. pc'[a] = "retry" /\ ~ Holds(a) /\ ~ Holds(a)'
  BY <1>2 DEF TypeOK, Holds, Releasing
<1>5. GoneWithProcess'
  BY <1>2, <1>3, <1>4 DEF GoneWithProcess
<1>6. OneCallPerProcess'
  BY <1>2, <1>3, <1>4 DEF OneCallPerProcess, MidCall, Acquiring, Releasing
<1>7. ~ stolen' => FileNamesHolder' /\ Exclusive' /\ SiblingsAreSeen'
  <2> SUFFICES ASSUME ~ stolen' PROVE FileNamesHolder' /\ Exclusive' /\ SiblingsAreSeen'
    OBVIOUS
  <2>1. FileNamesHolder /\ Exclusive /\ SiblingsAreSeen /\ ~ Steals(a)
    BY <1>2 DEF TypeOK
  (* A holder of the slot would be a stranger's victim, or a sibling. *)
  <2>2. \A b \in Agents : Holds(b) => at[b] # at[a]
    <3> SUFFICES ASSUME NEW b \in Agents, Holds(b), at[b] = at[a] PROVE FALSE
      OBVIOUS
    <3>1. ProcessOf[b] \in live
      BY DEF GoneWithProcess, Holds, Releasing
    <3>2. ProcessOf[b] = ProcessOf[a]
      BY <2>1, <3>1 DEF FileNamesHolder, Steals
    <3> QED
      BY <1>2, <1>4, <2>1, <3>2 DEF SiblingsAreSeen
  <2> QED
    BY <1>2, <1>3, <1>4, <2>1, <2>2 DEF FileNamesHolder, Exclusive, SiblingsAreSeen, TypeOK
<1> QED
  BY <1>1, <1>5, <1>6, <1>7

LEMMA RetryKeepsLease ==
  ASSUME LeaseInv, NEW a \in Agents, Retry(a)
  PROVE  LeaseInv'
<1> USE DEF LeaseInv
<1>1. TypeOK'
  BY StepTypes DEF Next, Acquire
<1>2. /\ pc[a] = "retry" /\ UNCHANGED <<live, saw, stolen>>
      /\ \/ /\ slot[at[a]] = Free /\ pc' = [pc EXCEPT ![a] = "holding"] /\ at' = at
            /\ slot' = [slot EXCEPT ![at[a]] = ProcessOf[a]]
         \/ /\ pc' = [pc EXCEPT ![a] = "claim"] \/ pc' = [pc EXCEPT ![a] = "idle"]
            /\ slot' = slot
  BY DEF Retry, Link, TryNext, GoTo
<1>3. \A b \in Agents : b # a => pc'[b] = pc[b] /\ at'[b] = at[b] /\ (Holds(b)' <=> Holds(b))
  BY DEF Retry, Link, TryNext, GoTo, TypeOK, Holds
<1>4. pc'[a] \in {"holding", "claim", "idle"} /\ ~ Holds(a)
  BY <1>2 DEF TypeOK, Holds, Releasing
<1>5. GoneWithProcess'
  BY <1>2, <1>3, <1>4 DEF GoneWithProcess
<1>6. OneCallPerProcess'
  BY <1>2, <1>3, <1>4 DEF OneCallPerProcess, MidCall, Acquiring, Releasing
<1>7. ~ stolen' => FileNamesHolder' /\ Exclusive' /\ SiblingsAreSeen'
  <2> SUFFICES ASSUME ~ stolen' PROVE FileNamesHolder' /\ Exclusive' /\ SiblingsAreSeen'
    OBVIOUS
  <2>1. FileNamesHolder /\ Exclusive /\ SiblingsAreSeen
    BY <1>2
  <2>2. CASE /\ pc' = [pc EXCEPT ![a] = "claim"] \/ pc' = [pc EXCEPT ![a] = "idle"]
             /\ slot' = slot
    <3>1. pc'[a] \in {"claim", "idle"} /\ ~ Holds(a)'
      BY <2>2 DEF TypeOK, Holds, Releasing
    <3> QED
      BY <1>2, <1>3, <2>1, <2>2, <3>1 DEF FileNamesHolder, Exclusive, SiblingsAreSeen
  <2>3. CASE /\ slot[at[a]] = Free /\ pc' = [pc EXCEPT ![a] = "holding"] /\ at' = at
             /\ slot' = [slot EXCEPT ![at[a]] = ProcessOf[a]]
    <3>1. pc'[a] = "holding" /\ at[a] \in Slots
      BY <2>3 DEF TypeOK
    <3>2. \A b \in Agents : Holds(b) => at[b] # at[a]
      BY <2>1, <2>3, LeaseAssumption DEF LeaseAssumption, FileNamesHolder
    <3>3. FileNamesHolder'
      BY <1>2, <1>3, <2>1, <2>3, <3>1, <3>2 DEF FileNamesHolder, TypeOK
    <3>4. Exclusive'
      BY <1>3, <2>1, <2>3, <3>2 DEF Exclusive
    <3>5. \A b \in Agents : b # a /\ ProcessOf[a] = ProcessOf[b]
                              => pc'[b] \notin {"probe", "unlink", "retry"}
      BY <1>2, <1>3 DEF OneCallPerProcess, MidCall, Acquiring, Releasing
    <3>6. SiblingsAreSeen'
      BY <1>2, <1>3, <2>1, <3>1, <3>5 DEF SiblingsAreSeen
    <3> QED
      BY <3>3, <3>4, <3>6
  <2> QED
    BY <1>2, <2>2, <2>3
<1> QED
  BY <1>1, <1>5, <1>6, <1>7


LEMMA ReleaseKeepsLease ==
  ASSUME LeaseInv, NEW a \in Agents, Release(a)
  PROVE  LeaseInv'
<1> USE DEF LeaseInv
<1>1. TypeOK'
  BY StepTypes DEF Next, GiveBack
<1>2. /\ pc[a] = "holding" /\ pc' = [pc EXCEPT ![a] = "reread"]
      /\ UNCHANGED <<slot, live, at, saw, stolen>>
  BY DEF Release, GoTo
<1>3. \A b \in Agents : b # a => pc'[b] = pc[b]
  BY <1>2 DEF TypeOK
<1>4. pc'[a] = "reread" /\ \A b \in Agents : Holds(b)' <=> Holds(b)
  BY <1>2, <1>3 DEF TypeOK, Holds, Releasing
<1>5. GoneWithProcess'
  BY <1>2, <1>3, <1>4 DEF GoneWithProcess
<1>6. OneCallPerProcess'
  BY <1>2, <1>3, <1>4 DEF OneCallPerProcess, MidCall, Release, Alone, Acquiring, Releasing
<1>7. ~ stolen' => FileNamesHolder' /\ Exclusive' /\ SiblingsAreSeen'
  BY <1>2, <1>3, <1>4 DEF FileNamesHolder, Exclusive, SiblingsAreSeen
<1> QED
  BY <1>1, <1>5, <1>6, <1>7


LEMMA RereadKeepsLease ==
  ASSUME LeaseInv, NEW a \in Agents, Reread(a)
  PROVE  LeaseInv'
<1> USE DEF LeaseInv
<1>1. TypeOK'
  BY StepTypes DEF Next, GiveBack
<1>2. /\ pc[a] = "reread"
      /\ pc' = [pc EXCEPT ![a] = "remove"] \/ pc' = [pc EXCEPT ![a] = "idle"]
      /\ UNCHANGED <<slot, live, at, saw, stolen>>
  BY DEF Reread, GoTo
<1>3. \A b \in Agents : b # a => pc'[b] = pc[b]
  BY <1>2 DEF TypeOK
<1>4. pc'[a] \in {"remove", "idle"} /\ \A b \in Agents : Holds(b)' => Holds(b)
  BY <1>2, <1>3 DEF TypeOK, Holds, Releasing
<1>5. GoneWithProcess'
  BY <1>2, <1>3, <1>4 DEF GoneWithProcess
<1>6. OneCallPerProcess'
  BY <1>2, <1>3, <1>4 DEF OneCallPerProcess, MidCall, Acquiring, Releasing
<1>7. ~ stolen' => FileNamesHolder' /\ Exclusive' /\ SiblingsAreSeen'
  BY <1>2, <1>3, <1>4 DEF FileNamesHolder, Exclusive, SiblingsAreSeen
<1> QED
  BY <1>1, <1>5, <1>6, <1>7


LEMMA RemoveKeepsLease ==
  ASSUME LeaseInv, NEW a \in Agents, Remove(a)
  PROVE  LeaseInv'
<1> USE DEF LeaseInv
<1>1. TypeOK'
  BY StepTypes DEF Next, GiveBack
<1>2. /\ pc[a] = "remove" /\ pc' = [pc EXCEPT ![a] = "idle"]
      /\ slot' = [slot EXCEPT ![at[a]] = Free]
      /\ stolen' = (stolen \/ Steals(a)) /\ UNCHANGED <<live, at, saw>>
  BY DEF Remove, GoTo
<1>3. \A b \in Agents : b # a => pc'[b] = pc[b] /\ (Holds(b)' <=> Holds(b))
  BY <1>2 DEF TypeOK, Holds
<1>4. pc'[a] = "idle" /\ Holds(a) /\ ~ Holds(a)'
  BY <1>2 DEF TypeOK, Holds, Releasing
<1>5. GoneWithProcess'
  BY <1>2, <1>3, <1>4 DEF GoneWithProcess
<1>6. OneCallPerProcess'
  BY <1>2, <1>3, <1>4 DEF OneCallPerProcess, MidCall, Acquiring, Releasing
<1>7. ~ stolen' => FileNamesHolder' /\ Exclusive' /\ SiblingsAreSeen'
  <2>1. ~ stolen' => FileNamesHolder /\ Exclusive /\ SiblingsAreSeen
    BY <1>2 DEF TypeOK
  <2> QED
    BY <1>2, <1>3, <1>4, <2>1 DEF FileNamesHolder, Exclusive, SiblingsAreSeen, TypeOK
<1> QED
  BY <1>1, <1>5, <1>6, <1>7


LEMMA DieKeepsLease ==
  ASSUME LeaseInv, NEW p \in Processes, Die(p)
  PROVE  LeaseInv'
<1> USE DEF LeaseInv
<1>1. TypeOK'
  BY StepTypes DEF Next
<1>2. \A b \in Agents : pc'[b] = IF ProcessOf[b] = p THEN "gone" ELSE pc[b]
  BY DEF Die, TypeOK
<1>3. live' = live \ {p} /\ UNCHANGED <<slot, at, saw, stolen>>
  BY DEF Die
<1>4. \A b \in Agents : (Holds(b)' => Holds(b)) /\ (MidCall(b)' => MidCall(b))
                        /\ pc'[b] \in {pc[b], "gone"}
  BY <1>2 DEF Holds, MidCall, Acquiring, Releasing
<1>5. GoneWithProcess'
  BY <1>2, <1>3 DEF GoneWithProcess
<1>6. OneCallPerProcess'
  BY <1>4 DEF OneCallPerProcess
<1>7. ~ stolen' => FileNamesHolder' /\ Exclusive' /\ SiblingsAreSeen'
  BY <1>3, <1>4 DEF FileNamesHolder, Exclusive, SiblingsAreSeen
<1> QED
  BY <1>1, <1>5, <1>6, <1>7

LEMMA LeaseInvariant == Spec => []LeaseInv
<1>1. LeaseInv /\ [Next]_vars => LeaseInv'
  <2> SUFFICES ASSUME LeaseInv, [Next]_vars PROVE LeaseInv'
    OBVIOUS
  <2>1. CASE UNCHANGED vars
    BY <2>1 DEF vars, LeaseInv, TypeOK, GoneWithProcess, OneCallPerProcess, MidCall,
                FileNamesHolder, Exclusive, SiblingsAreSeen, Holds
  <2>2. ASSUME NEW a \in Agents, Acquire(a) PROVE LeaseInv'
    BY <2>2, BeginKeepsLease, ClaimKeepsLease, ReadKeepsLease, ProbeKeepsLease,
       UnlinkKeepsLease, RetryKeepsLease DEF Acquire
  <2>3. ASSUME NEW a \in Agents, GiveBack(a) PROVE LeaseInv'
    BY <2>3, ReleaseKeepsLease, RereadKeepsLease, RemoveKeepsLease DEF GiveBack
  <2> QED
    BY <2>1, <2>2, <2>3, DieKeepsLease DEF Next
<1> QED
  BY InitLease, <1>1, PTL DEF Spec

---------------------------------------------------------------------------
(* Theorems *)

(* No two agents hold one slot unless some agent removed the file of a     *)
(* live process that was not its own (claim, the link that publishes the   *)
(* record; the re-read of makeLease.release).                              *)
THEOREM LeaseIsExclusive == Spec => []ExclusiveUnlessStolen
<1>1. LeaseInv => ExclusiveUnlessStolen
  BY DEF LeaseInv, Exclusive, ExclusiveUnlessStolen
<1> QED
  BY LeaseInvariant, <1>1, PTL

(* ... and then no more agents hold a lease than there are slots: the      *)
(* holders' slots are an injection into 1..Capacity.                       *)
THEOREM CapIsHeld == Spec => []CapHeldUnlessStolen
<1>1. LeaseInv => CapHeldUnlessStolen
  <2> SUFFICES ASSUME LeaseInv, ~ stolen
               PROVE  Cardinality({a \in Agents : Holds(a)}) <= Capacity
    BY DEF CapHeldUnlessStolen
  <2> DEFINE Holders == {a \in Agents : Holds(a)}
             slotOf == [a \in Holders |-> at[a]]
  <2>1. slotOf \in Injection(Holders, Slots)
    BY DEF LeaseInv, Exclusive, TypeOK, Injection, IsInjective
  <2>2. IsFiniteSet(Slots) /\ Cardinality(Slots) = Capacity
    BY FS_Interval, LeaseAssumption DEF LeaseAssumption, Slots
  <2> QED
    BY <2>1, <2>2, FS_Injection
<1> QED
  BY LeaseInvariant, <1>1, PTL
=============================================================================
