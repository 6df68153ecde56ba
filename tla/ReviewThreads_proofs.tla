------------------------ MODULE ReviewThreads_proofs ------------------------
(***************************************************************************)
(* What a review makes of the threads it read, and what it says of them in *)
(* the end: between the reading and the report a review awaits many calls, *)
(* and its plan stays right only because it is the one review of its pull  *)
(* request, because people never post for it, and because what they do     *)
(* resolve it would have resolved too.                                     *)
(***************************************************************************)
EXTENDS Daemon_proofs

Planning(w) == job[w].pc \in {"diff", "open", "roles"}
Carrying(w) == job[w].pc \in {"resolve", "submit", "report"}

(* The threads after are those before, but for what was resolved since.    *)
OnlyResolved(before, after) ==
  \A f \in Findings :
    /\ after[f].posted = before[f].posted
    /\ before[f].resolved \subseteq after[f].resolved

(* Worker w planned on threads that are still as it read them, but for     *)
(* what was resolved since.                                                *)
ReadingHolds(w) == Planning(w) => OnlyResolved(job[w].prior, threads[job[w].pr])

(* What w still has to post was raised, and has no thread; what it still   *)
(* has to resolve was not raised.                                          *)
PlanHolds(w) ==
  Carrying(w) =>
    /\ \A f \in Findings :
         /\ job[w].resolving[f] # {} => f \notin job[w].raised
         /\ job[w].posting[f] # 0 => f \in job[w].raised /\ ~ HasThread(threads[job[w].pr], f)
    /\ job[w].pc # "resolve" => Finished(job[w].resolving)

(* A pass that w is about to report is earned. *)
PassHolds(w) ==
  Carrying(w) /\ job[w].conclusion = "success" =>
    /\ job[w].unheard = {} /\ job[w].raised \cap Blocking = {}
    /\ \A f \in Blocking : OpenThreads(threads[job[w].pr], f) \subseteq job[w].resolving[f]

ReviewInv(w) == ReadingHolds(w) /\ PlanHolds(w) /\ PassHolds(w)

ThreadInv == \A w \in Workers : ReviewInv(w)

---------------------------------------------------------------------------
(* What disturbs nothing *)

LEMMA PlanningIsActive ==
  \A w \in Workers : Planning(w) \/ Carrying(w) => Active(w)
BY DEF Planning, Carrying, Active

LEMMA FewerOpen ==
  ASSUME NEW before, NEW after, OnlyResolved(before, after), NEW f \in Findings
  PROVE  /\ OpenThreads(after, f) \subseteq OpenThreads(before, f)
         /\ HasThread(after, f) <=> HasThread(before, f)
BY DEF OnlyResolved, OpenThreads, HasThread

(* No posting, nothing unresolved, and no worker begins or changes a plan. *)
LEMMA CalmKeeps ==
  ASSUME TypeInv, ThreadInv,
         \A v \in Workers : job'[v] = job[v] \/ ~ (Planning(v) \/ Carrying(v))',
         \A pr \in PullRequests : OnlyResolved(threads[pr], threads'[pr])
  PROVE  ThreadInv'
<1> SUFFICES ASSUME NEW v \in Workers PROVE ReviewInv(v)'
  BY DEF ThreadInv
<1>1. CASE ~ (Planning(v) \/ Carrying(v))'
  BY <1>1 DEF ReviewInv, ReadingHolds, PlanHolds, PassHolds
<1>2. CASE job'[v] = job[v] /\ (Planning(v) \/ Carrying(v))
  <2>1. job[v].pr \in PullRequests
    BY <1>2, PlanningIsActive DEF TypeInv, Placed
  <2>2. ReviewInv(v) /\ OnlyResolved(threads[job[v].pr], threads'[job[v].pr])
    BY <2>1 DEF ThreadInv
  <2>3. \A f \in Findings :
          /\ OpenThreads(threads'[job[v].pr], f) \subseteq OpenThreads(threads[job[v].pr], f)
          /\ HasThread(threads'[job[v].pr], f) <=> HasThread(threads[job[v].pr], f)
    BY <2>2, FewerOpen
  <2>4. ReadingHolds(v)'
    BY <1>2, <2>2 DEF ReviewInv, ReadingHolds, Planning, OnlyResolved
  <2>5. PlanHolds(v)'
    BY <1>2, <2>2, <2>3 DEF ReviewInv, PlanHolds, Carrying
  <2>6. PassHolds(v)'
    BY <1>2, <2>2, <2>3, RulesAssumption DEF RulesAssumption, ReviewInv, PassHolds, Carrying
  <2> QED
    BY <2>4, <2>5, <2>6 DEF ReviewInv
<1> QED
  BY <1>1, <1>2 DEF Planning, Carrying

(* Worker w touches the threads of its own pull request alone: by          *)
(* uniqueness that is nobody else's.                                       *)
LEMMA OthersKeep ==
  ASSUME TypeInv, UniqueInv, ThreadInv, NEW w \in Workers, Active(w),
         \A v \in Workers \ {w} : job'[v] = job[v],
         \A pr \in PullRequests : pr # job[w].pr => threads'[pr] = threads[pr]
  PROVE  \A v \in Workers \ {w} : ReviewInv(v)'
<1> SUFFICES ASSUME NEW v \in Workers \ {w} PROVE ReviewInv(v)'
  OBVIOUS
<1>1. job'[v] = job[v] /\ ReviewInv(v)
  BY DEF ThreadInv
<1>2. CASE ~ (Planning(v) \/ Carrying(v))
  BY <1>1, <1>2 DEF ReviewInv, ReadingHolds, PlanHolds, PassHolds, Planning, Carrying
<1>3. CASE Planning(v) \/ Carrying(v)
  <2>1. Active(v)
    BY <1>3, PlanningIsActive
  <2>2. job[v].pr \in PullRequests /\ job[v].pr # job[w].pr
    BY <2>1 DEF TypeInv, Placed, UniqueInv, OneReviewPerPullRequest
  <2>3. threads'[job[v].pr] = threads[job[v].pr]
    BY <2>2
  <2>4. ReadingHolds(v)'
    BY <1>1, <2>3 DEF ReviewInv, ReadingHolds, Planning
  <2>5. PlanHolds(v)'
    BY <1>1, <2>3 DEF ReviewInv, PlanHolds, Carrying
  <2>6. PassHolds(v)'
    BY <1>1, <2>3 DEF ReviewInv, PassHolds, Carrying
  <2> QED
    BY <2>4, <2>5, <2>6 DEF ReviewInv
<1> QED
  BY <1>2, <1>3

---------------------------------------------------------------------------
(* The steps of a review *)

(* Steps before the threads are read, and after the gate is reported *)
LEMMA OutsideKeeps ==
  ASSUME TypeInv, ThreadInv, NEW w \in Workers,
         \/ ReadSnapshot(w) \/ CheckPrerequisites(w) \/ ReadHistory(w) \/ Stop(w)
         \/ ReportGate(w) \/ NotifyWaivers(w) \/ WaitOpen(w) \/ WaitReport(w) \/ WaitNotify(w)
  PROVE  ThreadInv'
<1>1. job \in [Workers -> Job] /\ job[w] \in Job
  BY DEF TypeInv, TypeOK, ReviewTypeOK
<1>2. threads' = threads
  BY DEF ReadSnapshot, CheckPrerequisites, ReadHistory, Stop, ReportGate, NotifyWaivers,
         WaitOpen, WaitReport, WaitNotify, githubVars, CreateComment, CreateRun, UpdateRun
<1>3. \A v \in Workers : v # w => job'[v] = job[v]
  BY <1>1 DEF ReadSnapshot, CheckPrerequisites, ReadHistory, Stop, ReportGate, NotifyWaivers,
              WaitOpen, WaitReport, WaitNotify, GoTo, Finish
<1>4. ~ (Planning(w) \/ Carrying(w))'
  BY <1>1, IdleTypes
  DEF ReadSnapshot, CheckPrerequisites, ReadHistory, Stop, ReportGate, NotifyWaivers,
      WaitOpen, WaitReport, WaitNotify, GoTo, Finish, Planning, Carrying, Job
<1> QED
  BY <1>2, <1>3, <1>4, CalmKeeps DEF OnlyResolved

(* Reading the threads, the diff, and opening the gate *)
LEMMA PlanningKeeps ==
  ASSUME TypeInv, UniqueInv, ThreadInv, NEW w \in Workers,
         ReadThreads(w) \/ ReadDiff(w) \/ OpenGate(w)
  PROVE  ThreadInv'
<1>1. Active(w)
  BY DEF ReadThreads, ReadDiff, OpenGate, Active
<1>2. job \in [Workers -> Job] /\ job[w] \in Job
  BY <1>1, ActiveJob
<1>3. threads' = threads
  BY DEF ReadThreads, ReadDiff, OpenGate, githubVars, CreateRun
<1>4. \A v \in Workers \ {w} : job'[v] = job[v]
  BY <1>2 DEF ReadThreads, ReadDiff, OpenGate
<1>5. ~ Carrying(w)'
  BY <1>2 DEF ReadThreads, ReadDiff, OpenGate, Carrying, Job
<1>6. ReadingHolds(w)'
  <2>1. CASE ReadThreads(w)
    <3>1. job'[w].prior = threads[job[w].pr] /\ job'[w].pr = job[w].pr
      BY <1>2, <2>1 DEF ReadThreads, Job
    <3> QED
      BY <1>3, <3>1 DEF ReadingHolds, OnlyResolved
  <2>2. CASE ReadDiff(w) \/ OpenGate(w)
    <3>1. job'[w].prior = job[w].prior /\ job'[w].pr = job[w].pr /\ Planning(w)
      BY <1>2, <2>2 DEF ReadDiff, OpenGate, Planning, Job
    <3>2. ReadingHolds(w)
      BY DEF ThreadInv, ReviewInv
    <3> QED
      BY <1>3, <3>1, <3>2 DEF ReadingHolds
  <2> QED
    BY <2>1, <2>2
<1>7. ReviewInv(w)'
  BY <1>5, <1>6 DEF ReviewInv, PlanHolds, PassHolds
<1>8. \A v \in Workers \ {w} : ReviewInv(v)'
  BY <1>1, <1>3, <1>4, OthersKeep
<1> QED
  BY <1>3, <1>7, <1>8 DEF ThreadInv

(* A gate that would pass: what aggregate's answer says of the answers. *)
LEMMA SuccessMeans ==
  ASSUME NEW decision \in [Roles -> Decisions], NEW raised \in SUBSET Findings,
         NEW waived, NEW revision,
         Aggregate([r \in Roles |-> [decision |-> decision[r], revision |-> revision]],
                   raised, waived, revision) = "success"
  PROVE  {r \in Roles : decision[r] = "missing"} = {} /\ raised \cap Blocking = {}
<1> DEFINE outcomes == [r \in Roles |-> [decision |-> decision[r], revision |-> revision]]
<1>1. /\ \A r \in Roles : outcomes[r] = [decision |-> "approve", revision |-> revision]
      /\ Standing(raised, waived) = {} /\ waived = {}
  BY DEF Aggregate
<1>2. \A r \in Roles : decision[r] = "approve"
  BY <1>1
<1>3. raised \cap Blocking = {}
  BY <1>1 DEF Standing
<1> QED
  BY <1>2, <1>3

LEMMA RunRolesKeeps ==
  ASSUME TypeInv, UniqueInv, ThreadInv, NEW w \in Workers, RunRoles(w)
  PROVE  ThreadInv'
<1>1. Active(w) /\ Planning(w)
  BY DEF RunRoles, Active, Planning
<1>2. job \in [Workers -> Job] /\ job[w] \in Job /\ job[w].pr \in PullRequests
  BY <1>1, ActiveJob
<1>3. threads' = threads
  BY DEF RunRoles, githubVars
<1>b. PICK decision \in [Roles -> Decisions], copies \in [Findings -> Nat] :
        \E accepted \in SUBSET Findings : Judge(w, decision, copies, accepted)
  BY AnswerTypes
<1>4. PICK accepted \in SUBSET Findings : Judge(w, decision, copies, accepted)
  BY <1>b
<1> DEFINE j == job'[w]
           prior == job[w].prior
           raised == RaisedOf(copies)
           outcomes == [r \in Roles |-> [decision |-> decision[r], revision |-> job[w].rev]]
           waived == WaiversRaised(raised, accepted)
<1>5. /\ j.pc \in {"submit", "resolve"} /\ j.pr = job[w].pr
      /\ j.pc = "submit" => Finished(j.resolving)
      /\ j.unheard = {r \in Roles : decision[r] = "missing"}
      /\ j.raised = raised
      /\ j.conclusion = Aggregate(outcomes, raised, waived, job[w].rev)
      /\ j.resolving = ToResolve(prior, raised) /\ j.posting = ToPost(prior, copies)
  BY <1>2, <1>4, JudgeMakes
<1>6. OnlyResolved(prior, threads[job[w].pr])
  BY <1>1 DEF ThreadInv, ReviewInv, ReadingHolds
<1>a. /\ raised \in SUBSET Findings /\ prior \in [Findings -> Thread]
      /\ \A f \in Findings : copies[f] # 0 => f \in raised
  BY <1>2 DEF RaisedOf, Job
<1>7. PlanHolds(w)'
  <2>1. ASSUME NEW f \in Findings
        PROVE  /\ j.resolving[f] # {} => f \notin raised
               /\ j.posting[f] # 0 => f \in raised /\ ~ HasThread(threads[job[w].pr], f)
    <3>1. HasThread(threads[job[w].pr], f) <=> HasThread(prior, f)
      BY <1>6, FewerOpen
    <3>2. j.resolving[f] # {} => f \notin raised
      BY <1>5 DEF ToResolve
    <3>3. j.posting[f] # 0 => copies[f] # 0 /\ ~ HasThread(prior, f)
      BY <1>5 DEF ToPost, HasThread
    <3> QED
      BY <1>a, <3>1, <3>2, <3>3
  <2> HIDE DEF j, raised
  <2> QED
    BY <1>3, <1>5, <2>1 DEF PlanHolds, j
<1>8. PassHolds(w)'
  <2> SUFFICES ASSUME j.conclusion = "success"
               PROVE  /\ j.unheard = {} /\ j.raised \cap Blocking = {}
                      /\ \A f \in Blocking : OpenThreads(threads[j.pr], f) \subseteq j.resolving[f]
    BY <1>3 DEF PassHolds
  <2>1. j.unheard = {} /\ raised \cap Blocking = {}
    BY <1>5, <1>a, SuccessMeans
  <2>2. ASSUME NEW f \in Blocking
        PROVE  OpenThreads(threads[j.pr], f) \subseteq j.resolving[f]
    <3>1. f \in Findings /\ f \notin raised
      BY <2>1, RulesAssumption DEF RulesAssumption
    <3>2. j.resolving[f] = OpenThreads(prior, f)
      BY <1>5, <3>1 DEF ToResolve
    <3> QED
      BY <1>5, <1>6, <3>1, <3>2, FewerOpen
  <2> QED
    BY <1>5, <2>1, <2>2
<1>9. ReviewInv(w)'
  BY <1>5, <1>7, <1>8 DEF ReviewInv, ReadingHolds, Planning
<1>10. \A v \in Workers \ {w} : ReviewInv(v)'
  <2>1. \A v \in Workers \ {w} : job'[v] = job[v]
    BY <1>2, <1>4 DEF Judge
  <2> QED
    BY <1>1, <1>3, <2>1, OthersKeep
<1> QED
  BY <1>3, <1>9, <1>10 DEF ThreadInv

LEMMA ResolveNextKeeps ==
  ASSUME TypeInv, UniqueInv, ThreadInv, NEW w \in Workers, ResolveNext(w)
  PROVE  ThreadInv'
<1>1. Active(w) /\ Carrying(w)
  BY DEF ResolveNext, Active, Carrying
<1>2. /\ job \in [Workers -> Job] /\ job[w] \in Job /\ job[w].pr \in PullRequests
      /\ threads \in [PullRequests -> [Findings -> Thread]]
  BY <1>1, ActiveJob DEF TypeInv, TypeOK, GitHubTypeOK
<1>b. PICK f \in Findings : \E t \in job[w].resolving[f] :
        LET left == [job[w].resolving EXCEPT ![f] = @ \ {t}] IN
        /\ ResolveThread(job[w].pr, f, t)
        /\ job' = [job EXCEPT ![w].resolving = left,
                     ![w].pc = IF Finished(left) THEN "submit" ELSE "resolve"]
  BY DEF ResolveNext
<1>3. PICK t \in job[w].resolving[f] :
        LET left == [job[w].resolving EXCEPT ![f] = @ \ {t}] IN
        /\ ResolveThread(job[w].pr, f, t)
        /\ job' = [job EXCEPT ![w].resolving = left,
                     ![w].pc = IF Finished(left) THEN "submit" ELSE "resolve"]
  BY <1>b
<1> DEFINE j == job'[w]
           left == [job[w].resolving EXCEPT ![f] = @ \ {t}]
<1>4. /\ j.pc \in {"submit", "resolve"} /\ j.pr = job[w].pr
      /\ j.pc = "submit" => Finished(j.resolving)
      /\ j.resolving = left
      /\ j.unheard = job[w].unheard /\ j.raised = job[w].raised
      /\ j.conclusion = job[w].conclusion /\ j.posting = job[w].posting
  <2>1. j = [job[w] EXCEPT !.resolving = left,
                           !.pc = IF Finished(left) THEN "submit" ELSE "resolve"]
    BY <1>2, <1>3
  <2> HIDE DEF left, j
  <2> QED
    BY <1>2, <2>1 DEF Job
<1>c. job[w].resolving \in [Findings -> SUBSET Nat]
  BY <1>2 DEF Job
<1>d. \A g \in Findings : left[g] = IF g = f THEN job[w].resolving[f] \ {t} ELSE job[w].resolving[g]
  BY <1>c
<1>5. /\ \A pr \in PullRequests : OnlyResolved(threads[pr], threads'[pr])
      /\ t \in threads'[job[w].pr][f].resolved
  <2>1. \A pr \in PullRequests, g \in Findings : threads[pr][g] \in Thread
    BY <1>2
  <2> QED
    BY <1>2, <1>3, <2>1 DEF ResolveThread, Thread, OnlyResolved
<1>6. \A pr \in PullRequests : pr # job[w].pr => threads'[pr] = threads[pr]
  BY <1>2, <1>3 DEF ResolveThread
<1>a. PlanHolds(w) /\ PassHolds(w)
  BY DEF ThreadInv, ReviewInv
<1>e. \A g \in Findings :
        /\ OpenThreads(threads'[job[w].pr], g) \subseteq OpenThreads(threads[job[w].pr], g)
        /\ HasThread(threads'[job[w].pr], g) <=> HasThread(threads[job[w].pr], g)
  BY <1>2, <1>5, FewerOpen
<1> HIDE DEF left
<1>7. PlanHolds(w)'
  <2>1. \A g \in Findings : left[g] # {} => job[w].resolving[g] # {}
    BY <1>d
  <2> QED
    BY <1>1, <1>4, <1>a, <1>e, <2>1 DEF PlanHolds
<1>8. PassHolds(w)'
  <2> SUFFICES ASSUME j.conclusion = "success"
               PROVE  /\ j.unheard = {} /\ j.raised \cap Blocking = {}
                      /\ \A g \in Blocking : OpenThreads(threads'[j.pr], g) \subseteq j.resolving[g]
    BY DEF PassHolds
  <2>1. /\ j.unheard = {} /\ j.raised \cap Blocking = {}
        /\ \A g \in Blocking : OpenThreads(threads[j.pr], g) \subseteq job[w].resolving[g]
    BY <1>1, <1>4, <1>a DEF PassHolds
  <2>2. t \notin OpenThreads(threads'[j.pr], f)
    BY <1>4, <1>5 DEF OpenThreads
  <2>3. Blocking \subseteq Findings
    BY RulesAssumption DEF RulesAssumption
  <2> HIDE DEF j
  <2>4. ASSUME NEW g \in Blocking PROVE OpenThreads(threads'[j.pr], g) \subseteq j.resolving[g]
    <3>1. OpenThreads(threads'[j.pr], g) \subseteq job[w].resolving[g]
      BY <1>4, <1>e, <2>1, <2>3
    <3>2. j.resolving[g] = IF g = f THEN job[w].resolving[f] \ {t} ELSE job[w].resolving[g]
      BY <1>4, <1>d, <2>3
    <3> QED
      BY <2>2, <3>1, <3>2
  <2> QED
    BY <2>1, <2>4
<1>9. ReviewInv(w)'
  BY <1>4, <1>7, <1>8 DEF ReviewInv, ReadingHolds, Planning
<1>10. \A v \in Workers \ {w} : ReviewInv(v)'
  <2>1. \A v \in Workers \ {w} : job'[v] = job[v]
    BY <1>2, <1>3
  <2> QED
    BY <1>1, <1>6, <2>1, OthersKeep
<1> QED
  BY <1>9, <1>10 DEF ThreadInv

(* A submission posts what is left of the plan, each finding as often as   *)
(* the plan says; nothing but that changes on the pull request.            *)
LEMMA SubmitPosts ==
  ASSUME TypeInv, ThreadInv, NEW w \in Workers, Submit(w)
  PROVE  /\ \A pr \in PullRequests : pr # job[w].pr => threads'[pr] = threads[pr]
         /\ \A f \in Findings :
              /\ threads'[job[w].pr][f].resolved = threads[job[w].pr][f].resolved
              /\ job[w].posting[f] = 0 =>
                   threads'[job[w].pr][f].posted = threads[job[w].pr][f].posted
              /\ job'[w].posting[f] # 0 =>
                   /\ job[w].posting[f] # 0
                   /\ threads'[job[w].pr][f].posted = threads[job[w].pr][f].posted
<1>1. Active(w) /\ Carrying(w)
  BY DEF Submit, Active, Carrying
<1>2. /\ job \in [Workers -> Job] /\ job[w] \in Job /\ job[w].pr \in PullRequests
      /\ threads \in [PullRequests -> [Findings -> Thread]]
  BY <1>1, ActiveJob DEF TypeInv, TypeOK, GitHubTypeOK
<1> DEFINE fs == FindingsOf(RoleOrder[job[w].next])
           before == threads[job[w].pr]
           now == Part(job[w].posting, fs)
<1>3. threads' = threads \/ threads' = [threads EXCEPT ![job[w].pr] = Posted(@, now)]
  BY DEF Submit, CreateReview, githubVars
<1>4. job'[w].posting = Part(job[w].posting, Findings \ fs)
  BY <1>2 DEF Submit, Job
<1>5. before \in [Findings -> Thread] /\ job[w].posting \in [Findings -> Nat]
  BY <1>2 DEF Job
<1>6. threads'[job[w].pr] = before \/ threads'[job[w].pr] = Posted(before, now)
  BY <1>2, <1>3
<1>7. ASSUME NEW f \in Findings
      PROVE  /\ threads'[job[w].pr][f].resolved = before[f].resolved
             /\ threads'[job[w].pr][f].posted = before[f].posted
                  \/ threads'[job[w].pr][f].posted = before[f].posted + now[f]
  <2> HIDE DEF before, now
  <2>1. before[f] \in Thread
    BY <1>5
  <2>2. CASE threads'[job[w].pr] = Posted(before, now)
    <3>1. threads'[job[w].pr][f] = [before[f] EXCEPT !.posted = @ + now[f]]
      BY <2>2 DEF Posted
    <3> QED
      BY <2>1, <3>1 DEF Thread
  <2>3. CASE threads'[job[w].pr] = before
    BY <2>3
  <2> QED
    BY <1>6, <2>2, <2>3
<1>8. ASSUME NEW f \in Findings
      PROVE  /\ before[f].posted \in Nat
             /\ now[f] = IF f \in fs THEN job[w].posting[f] ELSE 0
             /\ job'[w].posting[f] = IF f \in fs THEN 0 ELSE job[w].posting[f]
  BY <1>4, <1>5 DEF Part, Thread
<1> HIDE DEF fs, now
<1>9. \A pr \in PullRequests : pr # job[w].pr => threads'[pr] = threads[pr]
  BY <1>2, <1>3
<1>10. ASSUME NEW f \in Findings
       PROVE  /\ threads'[job[w].pr][f].resolved = before[f].resolved
              /\ job[w].posting[f] = 0 => threads'[job[w].pr][f].posted = before[f].posted
              /\ job'[w].posting[f] # 0 =>
                   job[w].posting[f] # 0 /\ threads'[job[w].pr][f].posted = before[f].posted
  BY <1>7, <1>8
<1> QED
  BY <1>9, <1>10

LEMMA SubmitKeeps ==
  ASSUME TypeInv, UniqueInv, ThreadInv, NEW w \in Workers, Submit(w)
  PROVE  ThreadInv'
<1>1. Active(w) /\ Carrying(w) /\ job[w].pc = "submit"
  BY DEF Submit, Active, Carrying
<1>2. /\ job \in [Workers -> Job] /\ job[w] \in Job /\ job[w].pr \in PullRequests
      /\ job[w].posting \in [Findings -> Nat]
  BY <1>1, ActiveJob DEF Job
<1> DEFINE j == job'[w]
           before == threads[job[w].pr]
           after == threads'[job[w].pr]
<1>3. /\ j.pc \in {"report", "submit"} /\ j.pr = job[w].pr
      /\ j.resolving = job[w].resolving /\ j.unheard = job[w].unheard
      /\ j.raised = job[w].raised /\ j.conclusion = job[w].conclusion
  <2>1. j.pc \in {"report", "submit"} /\ j.pr = job[w].pr
    BY <1>2 DEF Submit, Job
  <2>2. /\ j.resolving = job[w].resolving /\ j.unheard = job[w].unheard
        /\ j.raised = job[w].raised /\ j.conclusion = job[w].conclusion
    BY <1>2 DEF Submit, Job
  <2> QED
    BY <2>1, <2>2
<1>4. /\ \A pr \in PullRequests : pr # job[w].pr => threads'[pr] = threads[pr]
      /\ \A f \in Findings :
           /\ after[f].resolved = before[f].resolved
           /\ job[w].posting[f] = 0 => after[f].posted = before[f].posted
           /\ j.posting[f] # 0 => job[w].posting[f] # 0 /\ after[f].posted = before[f].posted
  BY SubmitPosts
<1>5. /\ PlanHolds(w) /\ PassHolds(w)
  BY DEF ThreadInv, ReviewInv
<1>6. PlanHolds(w)'
  <2> HIDE DEF j
  <2>1. /\ \A f \in Findings :
             /\ job[w].resolving[f] # {} => f \notin job[w].raised
             /\ job[w].posting[f] # 0 => f \in job[w].raised /\ ~ HasThread(before, f)
        /\ Finished(job[w].resolving)
    BY <1>1, <1>5 DEF PlanHolds
  <2> HIDE DEF before, after
  <2>2. \A f \in Findings : j.posting[f] # 0 => f \in job[w].raised /\ ~ HasThread(after, f)
    BY <1>4, <2>1 DEF HasThread
  <2> QED
    BY <1>3, <2>1, <2>2 DEF PlanHolds, j, after
<1>7. PassHolds(w)'
  <2> SUFFICES ASSUME j.conclusion = "success"
               PROVE  /\ j.unheard = {} /\ j.raised \cap Blocking = {}
                      /\ \A f \in Blocking : OpenThreads(threads'[j.pr], f) \subseteq j.resolving[f]
    BY DEF PassHolds
  <2>1. /\ j.unheard = {} /\ j.raised \cap Blocking = {}
        /\ \A f \in Blocking : OpenThreads(before, f) \subseteq job[w].resolving[f]
    BY <1>1, <1>3, <1>5 DEF PassHolds
  <2>2. ASSUME NEW f \in Blocking PROVE OpenThreads(after, f) = OpenThreads(before, f)
    <3>1. f \in Findings /\ f \notin job[w].raised
      BY <1>3, <2>1, RulesAssumption DEF RulesAssumption
    <3>2. job[w].posting[f] = 0
      BY <1>1, <1>5, <3>1 DEF PlanHolds
    <3> QED
      BY <1>4, <3>1, <3>2 DEF OpenThreads
  <2> QED
    BY <1>3, <2>1, <2>2
<1>8. ReviewInv(w)'
  BY <1>3, <1>6, <1>7 DEF ReviewInv, ReadingHolds, Planning
<1>9. \A v \in Workers \ {w} : ReviewInv(v)'
  <2>1. \A v \in Workers \ {w} : job'[v] = job[v]
    BY <1>2 DEF Submit
  <2> QED
    BY <1>1, <1>4, <2>1, OthersKeep
<1> QED
  BY <1>8, <1>9 DEF ThreadInv

---------------------------------------------------------------------------
(* The daemon and the world *)

(* A step that leaves the threads alone and gives no worker a plan. *)
LEMMA SameThreads ==
  ASSUME TypeInv, ThreadInv, threads' = threads,
         \A v \in Workers : job'[v] = job[v] \/ ~ (Planning(v) \/ Carrying(v))'
  PROVE  ThreadInv'
BY CalmKeeps DEF OnlyResolved

LEMMA WorkKeeps ==
  ASSUME TypeInv, UniqueInv, ThreadInv, NEW w \in Workers, Work(w)
  PROVE  ThreadInv'
<1>0. job \in [Workers -> Job]
  BY DEF TypeInv, TypeOK, ReviewTypeOK
<1>1. ASSUME NEW e \in queue, NoSlot(w, e) PROVE ThreadInv'
  BY <1>1, SameThreads DEF NoSlot, githubVars, reviewVars
<1>2. ASSUME NEW e \in queue, Start(w, e) PROVE ThreadInv'
  <2> DEFINE pc == IF e \in overdue THEN "wait_open" ELSE "snapshot"
             j == NewJob(pc, e[1], e[2])
  <2>1. job' = [job EXCEPT ![w] = j] /\ threads' = threads
    BY <1>2 DEF Start, githubVars
  <2>2. j.pc \in {"wait_open", "snapshot"}
    BY DEF NewJob
  <2> HIDE DEF j
  <2> QED
    BY <1>0, <2>1, <2>2, SameThreads DEF Planning, Carrying
<1>3. ASSUME ReviewStep(w) PROVE ThreadInv'
  BY <1>3, OutsideKeeps, PlanningKeeps, RunRolesKeeps, ResolveNextKeeps, SubmitKeeps
  DEF ReviewStep
<1> QED
  BY <1>1, <1>2, <1>3 DEF Work

LEMMA PeopleOnlyResolve ==
  ASSUME TypeInv, People, NEW pr \in PullRequests
  PROVE  OnlyResolved(threads[pr], threads'[pr])
<1>0. /\ threads \in [PullRequests -> [Findings -> Thread]]
      /\ \A p \in PullRequests, f \in Findings : threads[p][f] \in Thread
  BY DEF TypeInv, TypeOK, GitHubTypeOK
<1>1. ASSUME NEW p \in PullRequests, NEW g \in Findings, Reply(p, g)
      PROVE  OnlyResolved(threads[pr], threads'[pr])
  BY <1>0, <1>1 DEF Reply, Thread, OnlyResolved
<1>2. ASSUME NEW p \in PullRequests, NEW g \in Findings, NEW t, ResolveByHand(p, g, t)
      PROVE  OnlyResolved(threads[pr], threads'[pr])
  BY <1>0, <1>2 DEF ResolveByHand, Thread, OnlyResolved
<1>3. ASSUME NEW p \in PullRequests, NEW rev \in Revisions, Push(p, rev)
      PROVE  OnlyResolved(threads[pr], threads'[pr])
  BY <1>3 DEF Push, OnlyResolved
<1> QED
  BY <1>1, <1>2, <1>3 DEF People

LEMMA PeopleKeep == TypeInv /\ ThreadInv /\ People /\ job' = job => ThreadInv'
BY PeopleOnlyResolve, CalmKeeps

LEMMA StepKeepsThreads ==
  ASSUME TypeInv, UniqueInv, ThreadInv, [Next]_vars
  PROVE  ThreadInv'
<1>0. job \in [Workers -> Job]
  BY DEF TypeInv, TypeOK, ReviewTypeOK
<1>1. CASE ListOpen \/ Decide \/ Enqueue \/ EndTick \/ Restart \/ TickThrows \/ UNCHANGED vars
  BY <1>1, SameThreads
  DEF ListOpen, Decide, Enqueue, EndTick, Restart, TickThrows, vars, githubVars, reviewVars
<1>2. CASE Exit \/ Crash
  BY <1>2, IdleTypes, SameThreads DEF Exit, Crash, StopsNow, githubVars, Planning, Carrying
<1>3. ASSUME NEW w \in Workers, Work(w) PROVE ThreadInv'
  BY <1>3, WorkKeeps
<1>4. ASSUME NEW w \in Workers, ReviewThrows(w) PROVE ThreadInv'
  BY <1>0, <1>4, IdleTypes, SameThreads DEF ReviewThrows, githubVars, Planning, Carrying
<1>5. CASE WaitGrows \/ Obstruct \/ Clear
  BY <1>5, SameThreads DEF WaitGrows, Obstruct, Clear, githubVars, reviewVars
<1>6. CASE People /\ UNCHANGED <<reviewVars, daemonVars>>
  BY <1>6, PeopleKeep DEF reviewVars
<1> QED
  BY <1>1, <1>2, <1>3, <1>4, <1>5, <1>6 DEF Next, Loop, World

LEMMA InitThreads == Init => ThreadInv
<1> SUFFICES ASSUME Init PROVE ThreadInv
  OBVIOUS
<1>1. \A w \in Workers : ~ (Planning(w) \/ Carrying(w))
  BY IdleTypes DEF Init, ReviewInit, Planning, Carrying
<1> QED
  BY <1>1 DEF ThreadInv, ReviewInv, ReadingHolds, PlanHolds, PassHolds

LEMMA ThreadInvariant == Spec => [](TypeInv /\ ThreadInv)
<1>1. TypeInv /\ UniqueInv /\ [Next]_vars => UniqueInv'
  BY LoopUnique, WorkUnique, FaultUnique, WorldUnique, StutterUnique DEF Next
<1> QED
  BY <1>1, InitUnique, InitThreads, StepKeepsThreads, TypeInvariant, PTL DEF Spec

LEMMA OnlySubmitPosts ==
  ASSUME TypeInv, [Next]_vars, \A w \in Workers : ~ Submit(w)
  PROVE  \A pr \in PullRequests : OnlyResolved(threads[pr], threads'[pr])
<1>0. /\ threads \in [PullRequests -> [Findings -> Thread]]
      /\ \A pr \in PullRequests, f \in Findings : threads[pr][f] \in Thread
  BY DEF TypeInv, TypeOK, GitHubTypeOK
<1>1. CASE threads' = threads
  BY <1>1 DEF OnlyResolved
<1>2. CASE Loop \/ TickThrows \/ Crash \/ UNCHANGED vars \/ \E w \in Workers : ReviewThrows(w)
  BY <1>1, <1>2 DEF Loop, ListOpen, Decide, Enqueue, EndTick, Exit, Restart, TickThrows, Crash,
                    StopsNow, ReviewThrows, vars, githubVars
<1>3. CASE World
  <2>1. People \/ threads' = threads
    BY <1>3 DEF World, WaitGrows, Obstruct, Clear, githubVars
  <2> QED
    BY <1>1, <2>1, PeopleOnlyResolve
<1>4. ASSUME NEW w \in Workers, Work(w) PROVE \A pr \in PullRequests : OnlyResolved(threads[pr], threads'[pr])
  <2>1. CASE ResolveNext(w)
    <3>1. PICK f, t : ResolveThread(job[w].pr, f, t)
      BY <2>1 DEF ResolveNext
    <3> QED
      BY <1>0, <3>1 DEF ResolveThread, Thread, OnlyResolved
  <2>2. CASE ~ ResolveNext(w)
    <3>1. ReviewStep(w) => threads' = threads
      BY <2>2 DEF ReviewStep, ReadSnapshot, CheckPrerequisites, ReadHistory, ReadThreads, ReadDiff,
                  Stop, OpenGate, RunRoles, ReportGate, NotifyWaivers, WaitOpen, WaitReport,
                  WaitNotify, githubVars, CreateComment, CreateRun, UpdateRun
    <3>2. threads' = threads
      BY <1>4, <3>1 DEF Work, NoSlot, Start, githubVars
    <3> QED
      BY <1>1, <3>2
  <2> QED
    BY <2>1, <2>2
<1> QED
  BY <1>2, <1>3, <1>4 DEF Next

LEMMA NoStepReposts ==
  ASSUME TypeInv, ThreadInv, [Next]_vars, NEW pr \in PullRequests, NEW f \in Findings,
         HasThread(threads[pr], f)
  PROVE  threads'[pr][f].posted = threads[pr][f].posted
<1>1. CASE \A w \in Workers : ~ Submit(w)
  BY <1>1, OnlySubmitPosts DEF OnlyResolved
<1>2. ASSUME NEW w \in Workers, Submit(w) PROVE threads'[pr][f].posted = threads[pr][f].posted
  <2>1. pr = job[w].pr => job[w].posting[f] = 0
    BY <1>2 DEF Submit, ThreadInv, ReviewInv, PlanHolds, Carrying
  <2> QED
    BY <1>2, <2>1, SubmitPosts
<1> QED
  BY <1>1, <1>2

(* A finding that has a thread is never posted again, whatever rounds,     *)
(* pushes, crashes and hand-resolved threads come between: the threads     *)
(* read at the start of a review still decide, calls later, what is        *)
(* posted, since no other review of the pull request is under way          *)
(* (reconcile.ts, composition.ts).                                         *)
THEOREM NothingIsPostedAgain == Spec => NothingIsReposted
<1>1. TypeInv /\ ThreadInv /\ [Next]_vars =>
        [\A pr \in PullRequests, f \in Findings :
           HasThread(threads[pr], f) => threads'[pr][f].posted = threads[pr][f].posted]_vars
  BY NoStepReposts
<1> QED
  BY <1>1, ThreadInvariant, PTL DEF Spec, NothingIsReposted

(* The gate turns to success only in a round in which every role spoke, no *)
(* blocking finding was raised, and every thread of a blocking finding is  *)
(* resolved (gate.ts aggregate, reconcile.ts, composition.ts).             *)
THEOREM PassesAreEarned == Spec => PassIsEarned
<1>1. TypeInv /\ ThreadInv /\ [Next]_vars =>
        [\A w \in Workers :
           Reports(w) /\ job[w].conclusion = "success" =>
             /\ job[w].unheard = {} /\ job[w].raised \cap Blocking = {}
             /\ \A f \in Blocking : OpenThreads(threads[job[w].pr], f) = {}]_vars
  BY RulesAssumption
  DEF RulesAssumption, ThreadInv, ReviewInv, PlanHolds, PassHolds, Carrying, Reports, Finished
<1> QED
  BY <1>1, ThreadInvariant, PTL DEF Spec, PassIsEarned

(* Reconciliation never resolves the thread of a finding the round still   *)
(* raised, an accepted waiver request included: what is on its list when   *)
(* the roles have spoken is what they no longer raise, and nothing is      *)
(* added to it afterwards (review/reconcile.ts).                           *)
THEOREM WhatIsRaisedStaysOpen == Spec => RaisedThreadsStayOpen
<1>1. TypeInv /\ ThreadInv /\ [Next]_vars =>
        [\A w \in Workers, f \in Findings : Resolves(w, f) => f \notin job[w].raised]_vars
  BY DEF ThreadInv, ReviewInv, PlanHolds, Carrying, Resolves
<1> QED
  BY <1>1, ThreadInvariant, PTL DEF Spec, RaisedThreadsStayOpen
=============================================================================
