--------------------------- MODULE Service_proofs ---------------------------
(***************************************************************************)
(* The composed service, for every choice of what reviews find and of what *)
(* model calls bring back: types, the statechart, and what a pass costs.   *)
(***************************************************************************)
EXTENDS ServiceProperties, FiniteSetTheorems, TLAPS

BeforeRoles == {"idle", "snapshot", "prerequisites", "history", "threads", "diff", "allowance",
                "open"}

(* What holds of a review r in slot s.  A stop has a cause, and it is the  *)
(* guard the statechart takes next that holds for it.                      *)
Holds(s, r) ==
  /\ s \notin Present => r.pc = "idle"
  /\ r.pc \notin Stopping \cup {"ended"} => r.cause = "none" /\ r.conclusion # "unreported"
  /\ r.pc \in Stopping => r.cause # "none"
  /\ r.conclusion = "unreported" => r.cause = "platform.rate_limit"
  /\ r.pc = "find" /\ r.cause = "identity.self_authored" => IsSelfAuthored(facts[s].author)
  /\ r.pc = "history" => ~ IsSelfAuthored(facts[s].author)
  /\ r.pc \in BeforeRoles => r.stated = <<>> /\ r.tokens = 0 /\ r.call = NewCall
                             /\ r.conclusion = "none"
  /\ r.pc = "roles" => Len(r.stated) < Len(RoleOrder) /\ r.conclusion = "none"

ServiceInv == TypeOK /\ \A s \in Slots : Holds(s, slot[s])

(* A slot is given a review that is of its type and holds.                 *)
LEMMA OneSlot ==
  ASSUME ServiceInv, UNCHANGED <<facts, transport>>,
         NEW s \in Slots, NEW r \in Reviews, Len(r.stated) <= Len(RoleOrder), Holds(s, r),
         slot' = [slot EXCEPT ![s] = r],
         DOMAIN drafts' = Slots, spent' \in Nat, owed' \in Int
  PROVE  ServiceInv'
<1>1. slot' \in [Slots -> Reviews] /\ \A q \in Slots : slot'[q] = IF q = s THEN r ELSE slot[q]
  BY DEF ServiceInv, TypeOK
<1>2. \A q \in Slots : Len(slot'[q].stated) <= Len(RoleOrder)
  BY <1>1 DEF ServiceInv, TypeOK
<1>3. TypeOK'
  BY <1>1, <1>2 DEF ServiceInv, TypeOK
<1>4. \A q \in Slots : Holds(q, slot[q])'
  BY <1>1 DEF ServiceInv, Holds, Present
<1> QED
  BY <1>3, <1>4 DEF ServiceInv

(* A new review is of its type, wherever it starts.                        *)
LEMMA NewReviewType ==
  ASSUME NEW pc \in Steps
  PROVE  NewReview(pc) \in Reviews /\ NewReview(pc).stated = <<>>
BY ModelCallAssumption DEF NewReview, Reviews, Causes, NewCall, Calls

(* Moving a review to another step, and stopping it, keep its type.        *)
LEMMA MovedType ==
  ASSUME ServiceInv, NEW s \in Slots, NEW pc \in Steps, NEW cause \in Causes,
         NEW conclusion \in {"none", "failure", "unreported"}
  PROVE  /\ [slot[s] EXCEPT !.pc = pc] \in Reviews
         /\ [slot[s] EXCEPT !.pc = pc, !.cause = cause, !.conclusion = conclusion] \in Reviews
         /\ Len(slot[s].stated) <= Len(RoleOrder)
         /\ DOMAIN drafts = Slots /\ spent \in Nat /\ owed \in Int /\ slot[s] \in Reviews
         /\ Holds(s, slot[s])
BY DEF ServiceInv, TypeOK, Reviews

LEMMA InitInv == Init => ServiceInv
<1> SUFFICES ASSUME Init PROVE ServiceInv
  OBVIOUS
<1>1. NewReview("idle") \in Reviews /\ NewReview("idle").stated = <<>>
  BY NewReviewType DEF Steps
<1>2. Len(RoleOrder) \in Nat /\ Len(<<>>) = 0
  BY ServiceAssumption
<1>3. TypeOK
  BY <1>1, <1>2 DEF Init, TypeOK
<1>4. \A s \in Slots : Holds(s, NewReview("idle"))
  BY DEF Holds, NewReview, Stopping, BeforeRoles
<1> QED
  BY <1>3, <1>4 DEF ServiceInv, Init

(* A check that goes on keeps the review as it is; a check that stops it   *)
(* gives it a cause.                                                       *)
LEMMA CheckInv ==
  ASSUME ServiceInv, NEW s \in Slots, At(s, "prerequisites") \/ At(s, "threads") \/ At(s, "diff"),
         NEW cause \in Causes, NEW pc \in {"history", "diff", "allowance"},
         cause = "identity.self_authored" => IsSelfAuthored(facts[s].author),
         cause = "none" /\ pc = "history" => ~ IsSelfAuthored(facts[s].author),
         StopOrGo(s, cause, pc), UNCHANGED rest
  PROVE  ServiceInv'
<1> DEFINE going == [slot[s] EXCEPT !.pc = pc]
           stopped == [slot[s] EXCEPT !.pc = "find", !.cause = cause, !.conclusion = "failure"]
<1>1. going \in Reviews /\ stopped \in Reviews
  BY MovedType DEF Steps, Stopping
<1>2. /\ slot[s] \in Reviews /\ Holds(s, slot[s]) /\ Len(slot[s].stated) <= Len(RoleOrder)
      /\ DOMAIN drafts' = Slots /\ spent' \in Nat /\ owed' \in Int
  BY MovedType DEF rest, ServiceInv, TypeOK
<1>3. going.stated = slot[s].stated /\ stopped.stated = slot[s].stated
  BY <1>2 DEF Reviews
<1>4. cause = "none" => Holds(s, going)
  BY <1>2 DEF Holds, Reviews, At, Stopping, BeforeRoles, StopOrGo
<1>5. cause # "none" => Holds(s, stopped)
  BY <1>2 DEF Holds, Reviews, At, Stopping, BeforeRoles
<1>6. /\ cause = "none" => slot' = [slot EXCEPT ![s] = going]
      /\ cause # "none" => slot' = [slot EXCEPT ![s] = stopped]
      /\ UNCHANGED <<facts, transport>>
  BY DEF StopOrGo, GoTo, StopWith, rest
<1> HIDE DEF going, stopped
<1>7. CASE cause = "none"
  BY <1>1, <1>2, <1>3, <1>4, <1>6, <1>7, OneSlot
<1>8. CASE cause # "none"
  BY <1>1, <1>2, <1>3, <1>5, <1>6, <1>8, OneSlot
<1> QED
  BY <1>7, <1>8

(* A review moves to another step. *)
LEMMA GoInv ==
  ASSUME ServiceInv, NEW s \in Slots, NEW pc \in Steps, GoTo(s, pc), UNCHANGED rest,
         Holds(s, slot[s]) => Holds(s, [slot[s] EXCEPT !.pc = pc])
  PROVE  ServiceInv'
<1> DEFINE going == [slot[s] EXCEPT !.pc = pc]
<1>1. going \in Reviews /\ slot[s] \in Reviews
  BY DEF ServiceInv, TypeOK, Reviews
<1>2. /\ Holds(s, going) /\ Len(slot[s].stated) <= Len(RoleOrder)
      /\ DOMAIN drafts' = Slots /\ spent' \in Nat /\ owed' \in Int
  BY DEF rest, ServiceInv, TypeOK
<1>3. going.stated = slot[s].stated
  BY <1>1 DEF Reviews
<1> QED
  BY <1>1, <1>2, <1>3, OneSlot DEF GoTo, rest

(* The steps from one call to the next *)
NextCalls == {<<"snapshot", "prerequisites">>, <<"history", "threads">>, <<"allowance", "open">>,
              <<"find", "comment">>, <<"reconcile", "report">>}

LEMMA FollowInv ==
  ASSUME ServiceInv, NEW s \in Slots, NEW pc, <<slot[s].pc, pc>> \in NextCalls,
         GoTo(s, pc), UNCHANGED rest
  PROVE  ServiceInv'
<1> DEFINE going == [slot[s] EXCEPT !.pc = pc]
<1>1. slot[s] \in Reviews /\ Holds(s, slot[s])
  BY DEF ServiceInv, TypeOK
<1>2. /\ going.pc = pc /\ going.cause = slot[s].cause /\ going.stated = slot[s].stated
      /\ going.conclusion = slot[s].conclusion /\ going.tokens = slot[s].tokens
      /\ going.call = slot[s].call
  BY <1>1 DEF Reviews
<1>3. \/ slot[s].pc = "snapshot" /\ pc = "prerequisites"
      \/ slot[s].pc = "history" /\ pc = "threads"
      \/ slot[s].pc = "allowance" /\ pc = "open"
      \/ slot[s].pc = "find" /\ pc = "comment"
      \/ slot[s].pc = "reconcile" /\ pc = "report"
  BY DEF NextCalls
<1> HIDE DEF going
<1>4. Holds(s, going)
  BY <1>1, <1>2, <1>3 DEF Holds, Stopping, BeforeRoles
<1>5. pc \in Steps
  BY <1>3 DEF Steps, Stopping
<1> QED
  BY <1>4, <1>5, GoInv DEF going

(* A review starts over. *)
LEMMA FreshInv ==
  ASSUME ServiceInv, NEW s \in Present, NEW pc \in {"idle", "snapshot"}, Present \subseteq Slots,
         slot' = [slot EXCEPT ![s] = NewReview(pc)], UNCHANGED <<facts, transport>>,
         DOMAIN drafts' = Slots, spent' \in Nat, owed' \in Int
  PROVE  ServiceInv'
<1>1. NewReview(pc) \in Reviews /\ NewReview(pc).stated = <<>>
  BY NewReviewType DEF Steps
<1>2. Len(NewReview(pc).stated) <= Len(RoleOrder)
  BY <1>1, ServiceAssumption
<1>3. Holds(s, NewReview(pc))
  BY DEF Holds, NewReview, Stopping, BeforeRoles
<1> QED
  BY <1>1, <1>2, <1>3, OneSlot

LEMMA PresentIsSlots == ServiceInv => Present \subseteq Slots
BY ServiceAssumption DEF ServiceInv, TypeOK, Present

(* A review is over and keeps what it concluded. *)
LEMMA OverInv ==
  ASSUME ServiceInv, NEW s \in Slots, Over(s), slot[s].pc \in {"report", "comment"},
         slot[s].pc = "report" => slot[s].cause = "none"
  PROVE  ServiceInv'
<1> DEFINE r == [NewReview("ended") EXCEPT !.cause = slot[s].cause,
                                           !.conclusion = slot[s].conclusion]
<1>1. NewReview("ended") \in Reviews /\ NewReview("ended").stated = <<>>
  BY NewReviewType DEF Steps
<1>2. slot[s] \in Reviews /\ Holds(s, slot[s])
  BY DEF ServiceInv, TypeOK
<1>3. r \in Reviews /\ r.stated = <<>> /\ r.pc = "ended" /\ r.cause = slot[s].cause
      /\ r.conclusion = slot[s].conclusion
  BY <1>1, <1>2 DEF Reviews, NewReview
<1>4. Holds(s, r)
  BY <1>2, <1>3 DEF Holds, Stopping, BeforeRoles
<1>5. Len(r.stated) <= Len(RoleOrder)
  BY <1>3, ServiceAssumption
<1>6. DOMAIN drafts' = Slots /\ spent' \in Nat /\ owed' \in Int
  BY DEF Over, ServiceInv, TypeOK
<1> QED
  BY <1>3, <1>4, <1>5, <1>6, OneSlot DEF Over

(* Every answer has a cost, and so has a call after it. *)
LEMMA AnswerType ==
  ASSUME NEW stream \in Streams, NEW over, NEW call \in Calls
  PROVE  /\ AnswerOver(over, stream, call.aborted).usage \in Nat
         /\ AfterAsk(call, AnswerOver(over, stream, call.aborted)).spent \in Nat
         /\ AsksAgain(call, AnswerOver(over, stream, call.aborted))
              => AfterAsk(call, AnswerOver(over, stream, call.aborted)) \in Calls
<1> DEFINE answer == AnswerOver(over, stream, call.aborted)
<1>1. /\ stream.ended \in Endings /\ stream.usage \in Nat \cup {NoUsage}
      /\ Floor \in Nat /\ MaxAttempts \in Nat /\ call.aborted \in BOOLEAN
  BY ServiceAssumption, ModelCallAssumption DEF Calls
<1>2. UsageOrFloor(stream.usage) \in Nat
  BY <1>1 DEF UsageOrFloor
<1>3. Ask(stream, call.aborted).usage \in Nat
  <2>1. CASE stream.ended = "threw" \/ call.aborted \/ stream.ended = "errored"
    BY <1>2, <2>1 DEF Ask, Answer
  <2>2. CASE stream.ended = "success" /\ ~ call.aborted
    BY <1>1, <2>2 DEF Ask, Answer, NoUsage
  <2> QED
    BY <1>1, <2>1, <2>2 DEF Endings
<1>4. AskAPI(stream).usage \in Nat
  BY <1>1 DEF AskAPI, Answer, Endings
<1>5. answer.usage \in Nat
  BY <1>3, <1>4 DEF AnswerOver
<1> HIDE DEF answer
<1>6. AfterAsk(call, answer).spent \in Nat
  BY <1>5 DEF AfterAsk, Calls
<1>7. ASSUME AsksAgain(call, answer) PROVE AfterAsk(call, answer) \in Calls
  <2>1. call.attempt + 1 \in 1..MaxAttempts /\ call.spent + answer.usage \in Nat
    BY <1>1, <1>5, <1>7 DEF AsksAgain, Calls
  <2> QED
    BY <2>1 DEF AfterAsk, Calls
<1> QED
  BY <1>5, <1>6, <1>7 DEF answer

(* A role that is over has been counted; the last one leaves a verdict. *)
LEMMA EndRoleInv ==
  ASSUME ServiceInv, NEW s \in Slots, slot[s].pc = "roles", NEW cost \in Nat,
         NEW verdict \in {"approve", "request-changes", "missing"}, NEW proposals,
         EndRole(s, cost, verdict, proposals), UNCHANGED <<facts, transport>>, owed' \in Int
  PROVE  ServiceInv'
<1> DEFINE stated == Append(slot[s].stated, verdict)
           findings == Raise(drafts[s] \cup DraftsBy(s, RoleOf(s), proposals),
                             Read(s).index, Read(s).excluded)
           last == Len(stated) = Len(RoleOrder)
           conclusion == IF last THEN Verdict(stated, findings) ELSE slot[s].conclusion
           r == [slot[s] EXCEPT !.tokens = slot[s].tokens + cost, !.stated = stated,
                                !.call = NewCall,
                                !.pc = IF last THEN "reconcile" ELSE "roles",
                                !.conclusion = conclusion]
<1>1. slot[s] \in Reviews /\ Holds(s, slot[s]) /\ slot[s].tokens \in Nat
      /\ slot[s].stated \in Seq({"approve", "request-changes", "missing"})
  BY DEF ServiceInv, TypeOK, Reviews
<1>2. Len(slot[s].stated) < Len(RoleOrder) /\ slot[s].conclusion = "none"
      /\ slot[s].cause = "none"
  BY <1>1 DEF Holds, Stopping
<1>3. /\ stated \in Seq({"approve", "request-changes", "missing"})
      /\ Len(stated) = Len(slot[s].stated) + 1 /\ Len(slot[s].stated) \in Nat
  BY <1>1
<1>4. Len(RoleOrder) \in Nat
  BY ServiceAssumption
<1>5. Verdict(stated, findings) \in {"success", "failure"}
  BY DEF Verdict
<1>6. conclusion \in {"none", "success", "failure"} /\ (~ last => conclusion = "none")
  BY <1>2, <1>5
<1>7. NewCall \in Calls
  BY ModelCallAssumption DEF NewCall, Calls
<1> HIDE DEF stated, findings, conclusion
<1>8. r \in Reviews
  <2>1. /\ slot[s].tokens + cost \in Nat
        /\ (IF last THEN "reconcile" ELSE "roles") \in Steps
        /\ conclusion \in {"none", "success", "failure", "unreported"}
    BY <1>1, <1>6 DEF Steps
  <2> QED
    BY <1>1, <1>3, <1>7, <2>1 DEF Reviews
<1>9. /\ r.stated = stated /\ r.pc = (IF last THEN "reconcile" ELSE "roles")
      /\ r.cause = "none" /\ r.conclusion = conclusion
  BY <1>1, <1>2 DEF Reviews
<1>10. Len(r.stated) <= Len(RoleOrder)
  BY <1>2, <1>3, <1>4, <1>9
<1>11. s \in Present
  BY <1>1 DEF Holds
<1>12. Holds(s, r)
  BY <1>2, <1>3, <1>4, <1>6, <1>9, <1>11 DEF Holds, Stopping, BeforeRoles
<1>13. slot' = [slot EXCEPT ![s] = r]
  BY DEF EndRole, stated, findings, conclusion
<1>14. DOMAIN drafts' = Slots /\ spent' \in Nat
  BY <1>1 DEF EndRole, ServiceInv, TypeOK
<1> QED
  BY <1>8, <1>10, <1>12, <1>13, <1>14, OneSlot

(* Another ask, or a deadline: the call of a review changes. *)
LEMMA CallInv ==
  ASSUME ServiceInv, NEW s \in Slots, slot[s].pc = "roles", NEW call \in Calls,
         slot' = [slot EXCEPT ![s] = [slot[s] EXCEPT !.call = call]],
         UNCHANGED <<facts, transport, drafts, spent>>, owed' \in Int
  PROVE  ServiceInv'
<1> DEFINE r == [slot[s] EXCEPT !.call = call]
<1>1. /\ slot[s] \in Reviews /\ Holds(s, slot[s]) /\ Len(slot[s].stated) <= Len(RoleOrder)
      /\ DOMAIN drafts' = Slots /\ spent' \in Nat
  BY DEF ServiceInv, TypeOK
<1>2. r \in Reviews /\ r.stated = slot[s].stated
  BY <1>1 DEF Reviews
<1>3. Holds(s, r)
  BY <1>1 DEF Holds, Reviews, Stopping, BeforeRoles
<1> QED
  BY <1>1, <1>2, <1>3, OneSlot

LEMMA AnsweredInv == ASSUME ServiceInv, NEW s \in Slots, Answered(s) PROVE ServiceInv'
<1> DEFINE call == slot[s].call
           Given(stream) == AnswerOver(transport, stream, call.aborted)
<1>1. slot[s].pc = "roles" /\ UNCHANGED <<facts, transport>>
  BY DEF Answered, At
<1>2. call \in Calls /\ owed \in Int
  BY DEF ServiceInv, TypeOK, Reviews
<1>3. PICK stream \in Streams :
        LET answer == Given(stream)
            cost == AfterAsk(call, answer).spent
        IN /\ owed' = owed + answer.usage
           /\ CASE answer.kind = "review" ->
                     \E verdict \in {"approve", "request-changes"},
                        proposals \in {{}} \cup {{p} : p \in facts[s].proposals[RoleOf(s)]} :
                       EndRole(s, cost, verdict, proposals)
                [] AsksAgain(call, answer) ->
                     /\ slot' = [slot EXCEPT ![s].call = AfterAsk(call, answer)]
                     /\ UNCHANGED <<drafts, spent>>
                [] OTHER -> EndRole(s, cost, "missing", {})
  BY DEF Answered
<1> DEFINE answer == Given(stream)
           cost == AfterAsk(call, answer).spent
<1>4. answer.usage \in Nat /\ cost \in Nat
      /\ (AsksAgain(call, answer) => AfterAsk(call, answer) \in Calls)
  BY <1>2, AnswerType
<1> HIDE DEF answer, Given
<1>5. owed' \in Int
  BY <1>2, <1>3, <1>4 DEF answer
<1>6. AsksAgain(call, answer) => answer.kind # "review"
  BY DEF AsksAgain
<1>7. CASE \E verdict \in {"approve", "request-changes", "missing"} : \E proposals :
             EndRole(s, cost, verdict, proposals)
  BY <1>1, <1>4, <1>5, <1>7, EndRoleInv
<1>8. CASE /\ AsksAgain(call, answer) /\ UNCHANGED <<drafts, spent>>
           /\ slot' = [slot EXCEPT ![s].call = AfterAsk(call, answer)]
  BY <1>1, <1>4, <1>5, <1>8, CallInv
<1>9. CASE answer.kind = "review"
  <2>1. \E verdict \in {"approve", "request-changes"} : \E proposals :
           EndRole(s, cost, verdict, proposals)
    BY <1>3, <1>6, <1>9 DEF answer
  <2> QED
    BY <1>7, <2>1
<1>10. CASE AsksAgain(call, answer)
  BY <1>3, <1>6, <1>8, <1>10 DEF answer
<1>11. CASE answer.kind # "review" /\ ~ AsksAgain(call, answer)
  <2>1. EndRole(s, cost, "missing", {})
    BY <1>3, <1>11 DEF answer
  <2> QED
    BY <1>7, <2>1
<1> QED
  BY <1>9, <1>10, <1>11

LEMMA AllowanceInv == ASSUME ServiceInv, NEW s \in Slots, CheckAllowance(s) PROVE ServiceInv'
<1>1. slot[s].pc = "allowance" /\ UNCHANGED rest
  BY DEF CheckAllowance, At
<1>2. CASE GoTo(s, "open")
  BY <1>1, <1>2, FollowInv DEF NextCalls
<1>3. ASSUME NEW conclusion \in {"unreported", "failure"},
             StopWith(s, "platform.rate_limit", conclusion)
      PROVE  ServiceInv'
  <2> DEFINE r == [slot[s] EXCEPT !.pc = "find", !.cause = "platform.rate_limit",
                                  !.conclusion = conclusion]
  <2>1. r \in Reviews
    BY MovedType DEF Steps, Stopping, Causes
  <2>2. /\ slot[s] \in Reviews /\ Holds(s, slot[s]) /\ Len(slot[s].stated) <= Len(RoleOrder)
        /\ DOMAIN drafts' = Slots /\ spent' \in Nat /\ owed' \in Int
    BY <1>1 DEF rest, ServiceInv, TypeOK
  <2>3. r.stated = slot[s].stated /\ Holds(s, r)
    BY <1>1, <2>2 DEF Reviews, Holds, Stopping, BeforeRoles
  <2> QED
    BY <1>1, <1>3, <2>1, <2>2, <2>3, OneSlot DEF StopWith, rest
<1> QED
  BY <1>2, <1>3 DEF CheckAllowance

(* Escalation: a review that looks for its issue remembers whether it found it. *)
LEMMA FindInv == ASSUME ServiceInv, NEW s \in Slots, FindIssue(s) PROVE ServiceInv'
<1>1. slot[s].pc = "find" /\ UNCHANGED rest
  BY DEF FindIssue, At
<1>2. CASE GoTo(s, "comment")
  BY <1>1, <1>2, FollowInv DEF NextCalls
<1>3. CASE slot' = [slot EXCEPT ![s].pc = "deliver", ![s].found = Finds(s)]
  <2> DEFINE r == [slot[s] EXCEPT !.pc = "deliver", !.found = Finds(s)]
  <2>1. /\ slot[s] \in Reviews /\ Holds(s, slot[s]) /\ Len(slot[s].stated) <= Len(RoleOrder)
        /\ DOMAIN drafts' = Slots /\ spent' \in Nat /\ owed' \in Int
    BY <1>1 DEF rest, ServiceInv, TypeOK
  <2>2. Finds(s) \in BOOLEAN
    BY DEF Finds
  <2>3. r \in Reviews /\ r.stated = slot[s].stated
    BY <2>1, <2>2 DEF Reviews, Steps, Stopping
  <2>4. Holds(s, r)
    BY <1>1, <2>1 DEF Reviews, Holds, Stopping, BeforeRoles
  <2>5. slot' = [slot EXCEPT ![s] = r]
    BY <1>3
  <2> QED
    BY <1>1, <2>1, <2>3, <2>4, <2>5, OneSlot DEF rest
<1> QED
  BY <1>2, <1>3 DEF FindIssue

LEMMA StepInv == ServiceInv /\ [Next]_vars => ServiceInv'
<1> SUFFICES ASSUME ServiceInv, [Next]_vars PROVE ServiceInv'
  OBVIOUS
<1> USE DEF ServiceInv, TypeOK
<1>1. Present \subseteq Slots
  BY PresentIsSlots
<1>2. ASSUME NEW s \in Slots, Begin(s) PROVE ServiceInv'
  BY <1>2, <1>1, FreshInv DEF Begin, At, rest
<1>3. ASSUME NEW s \in Slots, ReadSnapshot(s) \/ ReadHistory(s) \/ OpenGate(s) \/ Reconcile(s)
      PROVE  ServiceInv'
  <2>1. UNCHANGED rest /\ s \in Present
    BY <1>3 DEF ReadSnapshot, ReadHistory, OpenGate, Reconcile, At
  <2>2. CASE slot[s].pc = "snapshot" /\ GoTo(s, "prerequisites")
    BY <2>1, <2>2, FollowInv DEF NextCalls
  <2>3. CASE slot[s].pc = "history" /\ GoTo(s, "threads")
    BY <2>1, <2>3, FollowInv DEF NextCalls
  <2>4. CASE slot[s].pc = "open" /\ GoTo(s, "roles")
    <3> DEFINE r == [slot[s] EXCEPT !.pc = "roles"]
    <3>1. Len(RoleOrder) \in Nat \ {0} /\ Len(<<>>) = 0
      BY ServiceAssumption
    <3>2. Holds(s, slot[s]) => /\ slot[s].stated = <<>> /\ slot[s].cause = "none"
                               /\ slot[s].conclusion = "none"
      BY <2>4 DEF Holds, Stopping, BeforeRoles
    <3>3. /\ r.stated = slot[s].stated /\ r.cause = slot[s].cause /\ r.pc = "roles"
          /\ r.conclusion = slot[s].conclusion
      BY DEF Reviews
    <3>4. Holds(s, slot[s]) => Holds(s, r)
      BY <2>1, <3>1, <3>2, <3>3 DEF Holds, Stopping, BeforeRoles
    <3> HIDE DEF ServiceInv, TypeOK
    <3> QED
      BY <2>1, <2>4, <3>4, GoInv DEF Steps
  <2>5. CASE slot[s].pc = "reconcile" /\ GoTo(s, "report")
    BY <2>1, <2>5, FollowInv DEF NextCalls
  <2> QED
    BY <1>3, <2>2, <2>3, <2>4, <2>5 DEF ReadSnapshot, ReadHistory, OpenGate, Reconcile, At
<1>4. ASSUME NEW s \in Slots, CheckPrerequisites(s) PROVE ServiceInv'
  <2> DEFINE hold == PrerequisitesHold(facts[s].granted, facts[s].response, facts[s].credential)
             own == IsSelfAuthored(facts[s].author)
             cause == CASE ~ hold -> "prerequisites.missing"
                        [] hold /\ own -> "identity.self_authored"
                        [] hold /\ ~ own -> "none"
  <2>1. /\ cause \in Causes
        /\ cause = "identity.self_authored" => IsSelfAuthored(facts[s].author)
        /\ cause = "none" => ~ IsSelfAuthored(facts[s].author)
    BY DEF Causes
  <2> QED
    BY <1>4, <2>1, CheckInv DEF CheckPrerequisites
<1>5. ASSUME NEW s \in Slots, CheckProgressOf(s) PROVE ServiceInv'
  <2>1. CheckProgress(facts[s].round, facts[s].replied)
          \in {"rounds.cap_exceeded", "progress.no_forward_progress", "none"}
    BY DEF CheckProgress
  <2> QED
    BY <1>5, <2>1, CheckInv DEF CheckProgressOf, Causes
<1>6. ASSUME NEW s \in Slots, CheckDiff(s) PROVE ServiceInv'
  <2> DEFINE empty == ~ Read(s).substantive
             tooLarge == ExceedsReviewable(Read(s).changedLines)
             allowed == Allowed(spent, Reservation(s))
             cause == CASE empty -> "diff.empty"
                        [] ~ empty /\ tooLarge -> "size.exceeds_reviewable"
                        [] ~ empty /\ ~ tooLarge /\ ~ allowed -> "budget.exhausted"
                        [] OTHER -> "none"
  <2>1. cause \in {"diff.empty", "size.exceeds_reviewable", "budget.exhausted", "none"}
    OBVIOUS
  <2> HIDE DEF cause
  <2>2. At(s, "diff") /\ StopOrGo(s, cause, "allowance") /\ UNCHANGED rest
    BY <1>6 DEF CheckDiff, cause
  <2> QED
    BY <2>1, <2>2, CheckInv DEF Causes
<1>7. ASSUME NEW s \in Slots, CheckAllowance(s) PROVE ServiceInv'
  BY <1>7, AllowanceInv
<1>8. ASSUME NEW s \in Slots, Answered(s) PROVE ServiceInv'
  BY <1>8, AnsweredInv
<1>9. ASSUME NEW s \in Slots, DeadlineFires(s) PROVE ServiceInv'
  <2> DEFINE call == [slot[s].call EXCEPT !.aborted = TRUE]
  <2>1. call \in Calls
    BY DEF Reviews, Calls
  <2>2. slot[s].pc = "roles" /\ UNCHANGED rest
        /\ slot' = [slot EXCEPT ![s] = [slot[s] EXCEPT !.call = call]]
    BY <1>9 DEF DeadlineFires, At, Reviews
  <2> QED
    BY <2>1, <2>2, CallInv DEF rest
<1>10. ASSUME NEW s \in Slots, Report(s) \/ Comment(s) PROVE ServiceInv'
  BY <1>10, OverInv DEF Report, Comment, At, Holds, Stopping
<1>11. ASSUME NEW s \in Slots, FindIssue(s) PROVE ServiceInv'
  BY <1>11, FindInv
<1>12. ASSUME NEW s \in Slots, DeliverIssue(s) PROVE ServiceInv'
  <2> DEFINE r == [slot[s] EXCEPT !.pc = "comment"]
  <2>1. /\ slot[s].pc = "deliver" /\ slot' = [slot EXCEPT ![s] = r]
        /\ UNCHANGED <<facts, transport, drafts, spent, owed>>
    BY <1>12 DEF DeliverIssue, At, GoTo
  <2>2. r \in Reviews /\ r.stated = slot[s].stated
    BY DEF Reviews, Steps, Stopping
  <2>3. Holds(s, r)
    BY <2>1 DEF Reviews, Holds, Stopping, BeforeRoles
  <2> QED
    BY <2>1, <2>2, <2>3, OneSlot
<1>13. ASSUME NEW s \in Slots, Dies(s) PROVE ServiceInv'
  <2>1. Pending(slot[s]) \in Nat
    BY DEF Pending, Reviews, Calls
  <2>2. DOMAIN drafts' = Slots /\ spent' \in Nat /\ owed' \in Int
    BY <1>13, <2>1 DEF Dies
  <2>3. s \in Present /\ slot' = [slot EXCEPT ![s] = NewReview("idle")]
        /\ UNCHANGED <<facts, transport>>
    BY <1>13 DEF Dies
  <2> HIDE DEF ServiceInv, TypeOK
  <2> QED
    BY <1>1, <2>2, <2>3, FreshInv
<1>14. CASE HumanCloses \/ UNCHANGED vars
  BY <1>14 DEF HumanCloses, vars, Holds, Present
<1> QED
  BY <1>2, <1>3, <1>4, <1>5, <1>6, <1>7, <1>8, <1>9, <1>10, <1>11, <1>12, <1>13, <1>14 DEF Next

(* A review is always at one step with what belongs to it: an ask never    *)
(* has an attempt beyond the last, no role answers twice, and nothing a    *)
(* call brings back makes the ledger anything but a sum of tokens          *)
(* (agent-sdk.ts, review; ledger/tokens.ts, record).                       *)
THEOREM ServiceTypes == Spec => []TypeOK
<1>1. ServiceInv => TypeOK
  BY DEF ServiceInv
<1> QED
  BY <1>1, InitInv, StepInv, PTL DEF Spec

---------------------------------------------------------------------------
(* The statechart *)

States == [s \in Slots |-> StateOf(slot[s])]
Found == [s \in Slots |->
            IF s \in Present THEN FindingsOf(facts[s], slot[s].cause) ELSE <<>>]

(* Where the statechart is, step by step. *)
LEMMA StateTable ==
  ASSUME NEW r, r.conclusion # "unreported"
  PROVE  /\ r.pc \in {"idle", "snapshot"} => StateOf(r) = "resolvingSettings"
         /\ r.pc = "prerequisites" => StateOf(r) = "checkingPrerequisites"
         /\ r.pc = "history" => StateOf(r) = "checkingIdentity"
         /\ r.pc = "threads" => StateOf(r) = "checkingProgress"
         /\ r.pc = "diff" => StateOf(r) = "checkingSize"
         /\ r.pc = "allowance" => StateOf(r) = "checkingBudgets"
         /\ r.pc \in {"open", "roles"} => StateOf(r) = "reviewing"
         /\ r.pc = "reconcile" => StateOf(r) = "reconciling"
         /\ r.pc = "report" => StateOf(r) = "reportingGate"
         /\ r.pc \in {"deliver", "comment"} => StateOf(r) = "escalating"
         /\ r.pc = "ended" => StateOf(r) = IF r.cause = "none" THEN "done" ELSE "halted"
         /\ r.pc = "find" => StateOf(r) = StoppedIn[r.cause]
BY DEF StateOf

LEMMA StoppedTable ==
  /\ StoppedIn["prerequisites.missing"] = "failingGate"
  /\ StoppedIn["diff.empty"] = "failingGate"
  /\ StoppedIn["size.exceeds_reviewable"] = "failingGate"
  /\ StoppedIn["identity.self_authored"] = "checkingIdentity"
  /\ StoppedIn["budget.exhausted"] = "checkingBudgets"
  /\ StoppedIn["rounds.cap_exceeded"] = "escalating"
  /\ StoppedIn["progress.no_forward_progress"] = "escalating"
  /\ StoppedIn["platform.rate_limit"] = "escalating"
BY DEF StoppedIn, Causes

(* A step of one slot moves one review of the statechart and leaves the    *)
(* findings of the others alone.                                           *)
LEMMA OneMoves ==
  ASSUME ServiceInv, NEW s \in Slots, NEW r, slot' = [slot EXCEPT ![s] = r], UNCHANGED facts
  PROVE  /\ States' = [States EXCEPT ![s] = StateOf(r)]
         /\ States[s] = StateOf(slot[s])
         /\ \A q \in Slots \ {s} : Found'[q] = Found[q]
         /\ (s \in Present /\ r.cause = slot[s].cause => Found' = Found)
         /\ (s \in Present => Found'[s] = FindingsOf(facts[s], r.cause))
         /\ slot'[s] = r
<1>1. slot \in [Slots -> Reviews]
  BY DEF ServiceInv, TypeOK
<1>2. slot'[s] = r /\ \A q \in Slots \ {s} : slot'[q] = slot[q]
  BY <1>1
<1>3. States' = [States EXCEPT ![s] = StateOf(r)]
  <2>1. \A q \in Slots : StateOf(slot'[q]) = IF q = s THEN StateOf(r) ELSE StateOf(slot[q])
    BY <1>2
  <2>2. States' = [q \in Slots |-> StateOf(slot'[q])]
    BY DEF States
  <2>3. States = [q \in Slots |-> StateOf(slot[q])]
    BY DEF States
  <2> QED
    BY <2>1, <2>2, <2>3
<1>4. Present' = Present
  BY DEF Present
<1>5. \A q \in Slots \ {s} : Found'[q] = Found[q]
  BY <1>2, <1>4 DEF Found
<1>6. s \in Present => Found'[s] = FindingsOf(facts[s], r.cause)
  BY <1>2, <1>4 DEF Found
<1>7. s \in Present /\ r.cause = slot[s].cause => Found' = Found
  BY <1>2, <1>4 DEF Found
<1> QED
  BY <1>2, <1>3, <1>5, <1>6, <1>7 DEF States

(* The guards of the statechart, in terms of the checks of the review. *)
LEMMA Guards ==
  ASSUME NEW f, Plausible(f), NEW cause
  PROVE  LET found == FindingsOf(f, cause) IN
         /\ ~ Machine!SettingsInvalid(found)
         /\ Machine!PermissionsMissing(found) \/ Machine!GateNotRequired(found)
              <=> ~ PrerequisitesHold(f.granted, f.response, f.credential)
         /\ Machine!SelfAuthored(found) <=> IsSelfAuthored(f.author)
         /\ Machine!RoundCapExceeded(found) \/ Machine!NoForwardProgress(found)
              <=> CheckProgress(f.round, f.replied) # "none"
         /\ Machine!DiffEmpty(found) <=> ~ Readings[f.change].substantive
         /\ Machine!DiffExceedsReviewableSize(found)
              <=> ExceedsReviewable(Readings[f.change].changedLines)
         /\ Machine!TokenBudgetExhausted(found) <=> cause = "budget.exhausted"
         /\ Machine!RateLimitWaitExceeded(found) <=> Assess(f.signals) = "escalate"
         /\ Assess(f.signals) = "proceed" => ~ Machine!PlatformReserveReached(found)
         /\ Assess(f.signals) = "wait" => Machine!PlatformReserveReached(found)
         /\ Assess(f.signals) \in {"proceed", "wait", "escalate"}
<1> DEFINE found == FindingsOf(f, cause)
           held == f.signals.readable /\ f.signals.remaining <= PlatformReserve
<1>1. /\ f.round \in Nat \ {0} /\ {f.replied, f.credential, f.signals.readable} \subseteq BOOLEAN
      /\ f.signals.retryAfter = -1 /\ {f.signals.remaining, f.signals.reset} \subseteq Int
      /\ {PlatformReserve, MaxRateLimitWait, MaxReviewRounds} \subseteq Nat
  BY StopsAssumption DEF Plausible
<1>2. DOMAIN found = {"missingPermissions", "gateRequiredByBranchProtection", "selfAuthored",
                      "roundNumber", "forwardProgress", "diffIsEmpty", "changedLines",
                      "tokenBudgetSufficient", "platformReserveReached", "rateLimitWaitSeconds"}
  BY DEF FindingsOf
<1>3. ~ Machine!SettingsInvalid(found)
  BY <1>2 DEF Machine!SettingsInvalid, Machine!Reported
<1>4. Machine!PermissionsMissing(found) \/ Machine!GateNotRequired(found)
        <=> ~ PrerequisitesHold(f.granted, f.response, f.credential)
  <2>1. Machine!PermissionsMissing(found)
          <=> MissingPermissions(f.granted) # {} \/ ~ f.credential
    BY DEF Machine!PermissionsMissing, FindingsOf
  <2>2. Machine!GateNotRequired(found) <=> ~ found["gateRequiredByBranchProtection"] = TRUE
    BY <1>2 DEF Machine!GateNotRequired, Machine!Reported
  <2>3. found["gateRequiredByBranchProtection"]
          = (f.response.status = 200 /\ GateName \in f.response.contexts)
    BY DEF FindingsOf
  <2>4. IsGateRequired(ClassifyProtection(f.response))
          <=> f.response.status = 200 /\ GateName \in f.response.contexts
    BY DEF IsGateRequired, ClassifyProtection
  <2> QED
    BY <2>1, <2>2, <2>3, <2>4 DEF PrerequisitesHold
<1>5. Machine!SelfAuthored(found) <=> IsSelfAuthored(f.author)
  BY DEF Machine!SelfAuthored, Machine!Reported, FindingsOf, IsSelfAuthored
<1>6. Machine!RoundCapExceeded(found) \/ Machine!NoForwardProgress(found)
        <=> CheckProgress(f.round, f.replied) # "none"
  <2>1. found["roundNumber"] = f.round /\ found["forwardProgress"] = (f.round = 1 \/ f.replied)
    BY DEF FindingsOf
  <2> HIDE DEF found
  <2>2. Machine!RoundCapExceeded(found) <=> f.round > MaxReviewRounds
    BY <1>2, <2>1 DEF Machine!RoundCapExceeded, Machine!Exceeds
  <2>3. Machine!NoForwardProgress(found) <=> ~ (f.round = 1 \/ f.replied)
    BY <1>1, <1>2, <2>1 DEF Machine!NoForwardProgress, Machine!Denied
  <2>4. CheckProgress(f.round, f.replied) # "none"
          <=> f.round > MaxReviewRounds \/ ~ (f.round = 1 \/ f.replied)
    BY <1>1 DEF CheckProgress
  <2> QED
    BY <2>2, <2>3, <2>4
<1>7. Machine!DiffEmpty(found) <=> ~ Readings[f.change].substantive
  BY DEF Machine!DiffEmpty, Machine!Reported, FindingsOf
<1>8. Machine!DiffExceedsReviewableSize(found)
        <=> ExceedsReviewable(Readings[f.change].changedLines)
  BY DEF Machine!DiffExceedsReviewableSize, Machine!Exceeds, FindingsOf, ExceedsReviewable
<1>9. Machine!TokenBudgetExhausted(found) <=> cause = "budget.exhausted"
  BY DEF Machine!TokenBudgetExhausted, Machine!Denied, FindingsOf
<1>10. /\ Machine!RateLimitWaitExceeded(found) <=> Assess(f.signals) = "escalate"
       /\ Assess(f.signals) = "proceed" => ~ Machine!PlatformReserveReached(found)
       /\ Assess(f.signals) = "wait" => Machine!PlatformReserveReached(found)
       /\ Assess(f.signals) \in {"proceed", "wait", "escalate"}
  <2>1. /\ found["platformReserveReached"] = held
        /\ found["rateLimitWaitSeconds"] = IF held THEN f.signals.reset ELSE 0
    BY DEF FindingsOf
  <2> HIDE DEF found
  <2>2. Machine!PlatformReserveReached(found) <=> held
    BY <1>1, <1>2, <2>1 DEF Machine!PlatformReserveReached, Machine!Reported
  <2>3. Machine!RateLimitWaitExceeded(found) <=> held /\ f.signals.reset > MaxRateLimitWait
    BY <1>1, <1>2, <2>1 DEF Machine!RateLimitWaitExceeded, Machine!Exceeds
  <2>4. Assess(f.signals) = IF ~ held THEN "proceed"
                            ELSE IF f.signals.reset > MaxRateLimitWait THEN "escalate" ELSE "wait"
    BY <1>1 DEF Assess, Bounded, WaitSeconds
  <2> QED
    BY <2>2, <2>3, <2>4
<1> QED
  BY <1>3, <1>4, <1>5, <1>6, <1>7, <1>8, <1>9, <1>10

(* One review of the statechart moves, and its step is one that the        *)
(* statechart declares.                                                    *)
Moves(s, to) ==
  /\ States' = [States EXCEPT ![s] = to]
  /\ \A q \in Slots \ {s} : Found'[q] = Found[q]

LEMMA MovesOthers == ASSUME NEW s \in Slots, NEW to, Moves(s, to) PROVE Machine!Others(s)
BY DEF Moves, Machine!Others, Found

LEMMA Restarts ==
  ASSUME NEW s \in Slots, Moves(s, "resolvingSettings")
  PROVE  Machine!Step(s)
BY MovesOthers DEF Moves, Machine!Step, Machine!NewRun, States

LEMMA Advances ==
  ASSUME NEW s \in Slots, NEW to, Moves(s, to),
         <<States[s], to>> \in {<<"reviewing", "reconciling">>, <<"reconciling", "reportingGate">>,
                               <<"reportingGate", "done">>, <<"failingGate", "escalating">>,
                               <<"escalating", "halted">>}
  PROVE  Machine!Step(s)
<1>1. States[s] \in DOMAIN Machine!Forward /\ to = Machine!Forward[States[s]]
  BY DEF Machine!Forward
<1> QED
  BY <1>1, MovesOthers DEF Moves, Machine!Step, Machine!Advance, States

LEMMA Checks ==
  ASSUME NEW s \in Slots, NEW to, Moves(s, to),
         NEW f, Plausible(f), NEW cause, Found'[s] = FindingsOf(f, cause),
         \/ States[s] = "resolvingSettings" /\ to = "checkingPrerequisites"
         \/ /\ States[s] = "checkingPrerequisites"
            /\ to = IF PrerequisitesHold(f.granted, f.response, f.credential)
                    THEN "checkingIdentity" ELSE "failingGate"
         \/ /\ States[s] = "checkingIdentity"
            /\ to = IF IsSelfAuthored(f.author) THEN "escalating" ELSE "checkingProgress"
         \/ /\ States[s] = "checkingProgress"
            /\ to = IF CheckProgress(f.round, f.replied) = "none"
                    THEN "checkingSize" ELSE "escalating"
         \/ /\ States[s] = "checkingSize"
            /\ to = IF \/ ~ Readings[f.change].substantive
                       \/ ExceedsReviewable(Readings[f.change].changedLines)
                    THEN "failingGate" ELSE "checkingBudgets"
         \/ /\ States[s] = "checkingBudgets"
            /\ to = IF cause = "budget.exhausted" \/ Assess(f.signals) = "escalate"
                    THEN "escalating"
                    ELSE IF Assess(f.signals) = "wait" THEN "waitingForReset" ELSE "reviewing"
  PROVE  Machine!Step(s)
<1> DEFINE found == Found'[s]
<1>1. /\ ~ Machine!SettingsInvalid(found)
      /\ Machine!PermissionsMissing(found) \/ Machine!GateNotRequired(found)
           <=> ~ PrerequisitesHold(f.granted, f.response, f.credential)
      /\ Machine!SelfAuthored(found) <=> IsSelfAuthored(f.author)
      /\ Machine!RoundCapExceeded(found) \/ Machine!NoForwardProgress(found)
           <=> CheckProgress(f.round, f.replied) # "none"
      /\ Machine!DiffEmpty(found) <=> ~ Readings[f.change].substantive
      /\ Machine!DiffExceedsReviewableSize(found)
           <=> ExceedsReviewable(Readings[f.change].changedLines)
      /\ Machine!TokenBudgetExhausted(found) <=> cause = "budget.exhausted"
      /\ Machine!RateLimitWaitExceeded(found) <=> Assess(f.signals) = "escalate"
      /\ Assess(f.signals) = "proceed" => ~ Machine!PlatformReserveReached(found)
      /\ Assess(f.signals) = "wait" => Machine!PlatformReserveReached(found)
      /\ Assess(f.signals) \in {"proceed", "wait", "escalate"}
  BY Guards
<1>2. Machine!Others(s)
  BY MovesOthers
<1>3. Machine!Check(s)
  <2>1. \A from, stopped, forward : \A stops \in BOOLEAN :
          States[s] = from /\ to = (IF stops THEN stopped ELSE forward)
            => Machine!Checked(s, from, stops, stopped, forward)
    BY DEF Moves, Machine!Checked, States
  <2>2. \/ Machine!Checked(s, "resolvingSettings", Machine!SettingsInvalid(found),
                           "failingGate", "checkingPrerequisites")
        \/ Machine!Checked(s, "checkingPrerequisites",
                           Machine!PermissionsMissing(found) \/ Machine!GateNotRequired(found),
                           "failingGate", "checkingIdentity")
        \/ Machine!Checked(s, "checkingIdentity", Machine!SelfAuthored(found),
                           "escalating", "checkingProgress")
        \/ Machine!Checked(s, "checkingProgress",
                           Machine!RoundCapExceeded(found) \/ Machine!NoForwardProgress(found),
                           "escalating", "checkingSize")
        \/ Machine!Checked(s, "checkingSize",
                           Machine!DiffEmpty(found) \/ Machine!DiffExceedsReviewableSize(found),
                           "failingGate", "checkingBudgets")
        \/ Machine!Checked(s, "checkingBudgets",
                           Machine!TokenBudgetExhausted(found)
                             \/ Machine!RateLimitWaitExceeded(found), "escalating",
                           IF Machine!PlatformReserveReached(found)
                           THEN "waitingForReset" ELSE "reviewing")
        => Machine!Check(s)
    BY DEF Machine!Check, Found
  <2>3. {Machine!SettingsInvalid(found), Machine!SelfAuthored(found)} \subseteq BOOLEAN
    BY DEF Machine!SettingsInvalid, Machine!SelfAuthored, Machine!Reported
  <2> HIDE DEF found
  <2>4. CASE States[s] = "resolvingSettings"
    BY <1>1, <2>1, <2>2, <2>3, <2>4
  <2>5. CASE States[s] = "checkingPrerequisites"
    BY <1>1, <2>1, <2>2, <2>5
  <2>6. CASE States[s] = "checkingIdentity"
    BY <1>1, <2>1, <2>2, <2>3, <2>6
  <2>7. CASE States[s] = "checkingProgress"
    BY <1>1, <2>1, <2>2, <2>7
  <2>8. CASE States[s] = "checkingSize"
    BY <1>1, <2>1, <2>2, <2>8
  <2>9. CASE States[s] = "checkingBudgets"
    BY <1>1, <2>1, <2>2, <2>9
  <2> QED
    BY <2>4, <2>5, <2>6, <2>7, <2>8, <2>9
<1> QED
  BY <1>2, <1>3 DEF Machine!Step

(* What a step of one slot is to the statechart.                           *)
LEMMA OneSlotMoves ==
  ASSUME ServiceInv, NEW s \in Slots, s \in Present, NEW r, slot' = [slot EXCEPT ![s] = r],
         UNCHANGED facts
  PROVE  /\ Moves(s, StateOf(r))
         /\ States[s] = StateOf(slot[s])
         /\ Found'[s] = FindingsOf(facts[s], r.cause)
         /\ Plausible(facts[s])
         /\ StateOf(r) = StateOf(slot[s]) /\ r.cause = slot[s].cause
              => UNCHANGED <<States, Found>>
<1>1. Plausible(facts[s])
  BY ServiceAssumption DEF ServiceInv, TypeOK, Present
<1>2. /\ States' = [States EXCEPT ![s] = StateOf(r)]
      /\ States[s] = StateOf(slot[s])
      /\ \A q \in Slots \ {s} : Found'[q] = Found[q]
      /\ r.cause = slot[s].cause => Found' = Found
      /\ Found'[s] = FindingsOf(facts[s], r.cause)
  BY OneMoves
<1>3. States = [States EXCEPT ![s] = States[s]]
  BY DEF States
<1>4. Moves(s, StateOf(r))
  BY <1>2 DEF Moves
<1> QED
  BY <1>1, <1>2, <1>3, <1>4

(* A review goes on to another step, for no cause. *)
LEMMA GoMoves ==
  ASSUME ServiceInv, NEW s \in Slots, s \in Present, NEW pc \in Steps, GoTo(s, pc), UNCHANGED facts
  PROVE  \E r :
         /\ r.pc = pc /\ r.cause = slot[s].cause /\ r.conclusion = slot[s].conclusion
         /\ Moves(s, StateOf(r))
         /\ States[s] = StateOf(slot[s])
         /\ Found'[s] = FindingsOf(facts[s], slot[s].cause)
         /\ Plausible(facts[s])
         /\ StateOf(r) = StateOf(slot[s]) => UNCHANGED <<States, Found>>
<1> DEFINE r == [slot[s] EXCEPT !.pc = pc]
<1>1. r.pc = pc /\ r.cause = slot[s].cause /\ r.conclusion = slot[s].conclusion
  BY DEF ServiceInv, TypeOK, Reviews
<1>2. slot' = [slot EXCEPT ![s] = r]
  BY DEF GoTo
<1> HIDE DEF r
<1>3. /\ Moves(s, StateOf(r)) /\ States[s] = StateOf(slot[s])
      /\ Found'[s] = FindingsOf(facts[s], slot[s].cause) /\ Plausible(facts[s])
      /\ StateOf(r) = StateOf(slot[s]) => UNCHANGED <<States, Found>>
  BY <1>1, <1>2, OneSlotMoves
<1> QED
  BY <1>1, <1>3

LEMMA StopMoves ==
  ASSUME ServiceInv, NEW s \in Slots, s \in Present, NEW cause, NEW conclusion,
         StopWith(s, cause, conclusion), UNCHANGED facts
  PROVE  \E r :
         /\ r.pc = "find" /\ r.cause = cause /\ r.conclusion = conclusion
         /\ Moves(s, StateOf(r))
         /\ States[s] = StateOf(slot[s])
         /\ Found'[s] = FindingsOf(facts[s], cause)
         /\ Plausible(facts[s])
<1> DEFINE r == [slot[s] EXCEPT !.pc = "find", !.cause = cause, !.conclusion = conclusion]
<1>1. r.pc = "find" /\ r.cause = cause /\ r.conclusion = conclusion
  BY DEF ServiceInv, TypeOK, Reviews
<1>2. slot' = [slot EXCEPT ![s] = r]
  BY DEF StopWith
<1> HIDE DEF r
<1>3. /\ Moves(s, StateOf(r)) /\ States[s] = StateOf(slot[s])
      /\ Found'[s] = FindingsOf(facts[s], cause) /\ Plausible(facts[s])
  BY <1>1, <1>2, OneSlotMoves
<1> QED
  BY <1>1, <1>3

(* The checks, one by one *)

LEMMA BeforeSpendingFollows ==
  ASSUME ServiceInv, NEW s \in Slots,
         ReadSnapshot(s) \/ CheckPrerequisites(s) \/ ReadHistory(s) \/ CheckProgressOf(s)
  PROVE  Machine!Step(s)
<1>1. s \in Present /\ UNCHANGED facts /\ slot[s] \in Reviews /\ Holds(s, slot[s])
  BY DEF ReadSnapshot, CheckPrerequisites, ReadHistory, CheckProgressOf, At, rest, ServiceInv,
         TypeOK
<1>2. slot[s].conclusion # "unreported" /\ slot[s].cause = "none"
  BY <1>1 DEF ReadSnapshot, CheckPrerequisites, ReadHistory, CheckProgressOf, At, Holds, Stopping
<1>3. CASE ReadSnapshot(s)
  <2>1. slot[s].pc = "snapshot" /\ GoTo(s, "prerequisites")
    BY <1>3 DEF ReadSnapshot, At
  <2>2. Moves(s, "checkingPrerequisites") /\ States[s] = "resolvingSettings"
        /\ Found'[s] = FindingsOf(facts[s], "none") /\ Plausible(facts[s])
    BY <1>1, <1>2, <2>1, GoMoves, StateTable DEF Steps
  <2> QED
    BY <2>2, Checks
<1>4. CASE ReadHistory(s)
  <2>1. slot[s].pc = "history" /\ GoTo(s, "threads") /\ ~ IsSelfAuthored(facts[s].author)
    BY <1>1, <1>4 DEF ReadHistory, At, Holds
  <2>2. Moves(s, "checkingProgress") /\ States[s] = "checkingIdentity"
        /\ Found'[s] = FindingsOf(facts[s], "none") /\ Plausible(facts[s])
    BY <1>1, <1>2, <2>1, GoMoves, StateTable DEF Steps
  <2> QED
    BY <2>1, <2>2, Checks
<1>5. CASE CheckPrerequisites(s)
  <2> DEFINE hold == PrerequisitesHold(facts[s].granted, facts[s].response, facts[s].credential)
             own == IsSelfAuthored(facts[s].author)
  <2>1. /\ slot[s].pc = "prerequisites"
        /\ \/ ~ hold /\ StopWith(s, "prerequisites.missing", "failure")
           \/ hold /\ own /\ StopWith(s, "identity.self_authored", "failure")
           \/ hold /\ ~ own /\ GoTo(s, "history")
    BY <1>5 DEF CheckPrerequisites, At, StopOrGo
  <2> HIDE DEF hold
  <2>2. CASE ~ hold /\ StopWith(s, "prerequisites.missing", "failure")
    <3>1. Moves(s, "failingGate") /\ States[s] = "checkingPrerequisites"
          /\ Found'[s] = FindingsOf(facts[s], "prerequisites.missing") /\ Plausible(facts[s])
      BY <1>1, <1>2, <2>1, <2>2, StopMoves, StateTable, StoppedTable
    <3> QED
      BY <2>2, <3>1, Checks DEF hold
  <2>3. CASE hold /\ own /\ StopWith(s, "identity.self_authored", "failure")
    <3>1. Moves(s, "checkingIdentity") /\ States[s] = "checkingPrerequisites"
          /\ Found'[s] = FindingsOf(facts[s], "identity.self_authored") /\ Plausible(facts[s])
      BY <1>1, <1>2, <2>1, <2>3, StopMoves, StateTable, StoppedTable
    <3> QED
      BY <2>3, <3>1, Checks DEF hold
  <2>4. CASE hold /\ ~ own /\ GoTo(s, "history")
    <3>1. Moves(s, "checkingIdentity") /\ States[s] = "checkingPrerequisites"
          /\ Found'[s] = FindingsOf(facts[s], "none") /\ Plausible(facts[s])
      BY <1>1, <1>2, <2>1, <2>4, GoMoves, StateTable DEF Steps
    <3> QED
      BY <2>4, <3>1, Checks DEF hold
  <2> QED
    BY <2>1, <2>2, <2>3, <2>4
<1>6. CASE CheckProgressOf(s)
  <2> DEFINE cause == CheckProgress(facts[s].round, facts[s].replied)
  <2>1. /\ slot[s].pc = "threads"
        /\ \/ cause = "none" /\ GoTo(s, "diff")
           \/ cause # "none" /\ StopWith(s, cause, "failure")
    BY <1>6 DEF CheckProgressOf, At, StopOrGo
  <2>2. cause # "none" => StoppedIn[cause] = "escalating"
    BY StoppedTable DEF CheckProgress
  <2> HIDE DEF cause
  <2>3. CASE cause = "none" /\ GoTo(s, "diff")
    <3>1. Moves(s, "checkingSize") /\ States[s] = "checkingProgress"
          /\ Found'[s] = FindingsOf(facts[s], "none") /\ Plausible(facts[s])
      BY <1>1, <1>2, <2>1, <2>3, GoMoves, StateTable DEF Steps
    <3> QED
      BY <2>3, <3>1, Checks DEF cause
  <2>4. CASE cause # "none" /\ StopWith(s, cause, "failure")
    <3>1. Moves(s, "escalating") /\ States[s] = "checkingProgress"
          /\ Found'[s] = FindingsOf(facts[s], cause) /\ Plausible(facts[s])
      BY <1>1, <1>2, <2>1, <2>2, <2>4, StopMoves, StateTable
    <3> QED
      BY <2>4, <3>1, Checks DEF cause
  <2> QED
    BY <2>1, <2>3, <2>4
<1> QED
  BY <1>3, <1>4, <1>5, <1>6

LEMMA SpendingFollows ==
  ASSUME ServiceInv, NEW s \in Slots, CheckDiff(s) \/ CheckAllowance(s)
  PROVE  Machine!Step(s)
<1>1. s \in Present /\ UNCHANGED facts /\ slot[s] \in Reviews /\ Holds(s, slot[s])
  BY DEF CheckDiff, CheckAllowance, At, rest, ServiceInv, TypeOK
<1>2. slot[s].conclusion # "unreported" /\ slot[s].cause = "none"
  BY <1>1 DEF CheckDiff, CheckAllowance, At, Holds, Stopping
<1>3. CASE CheckDiff(s)
  <2> DEFINE empty == ~ Read(s).substantive
             tooLarge == ExceedsReviewable(Read(s).changedLines)
  <2>1. /\ slot[s].pc = "diff"
        /\ \/ empty /\ StopWith(s, "diff.empty", "failure")
           \/ ~ empty /\ tooLarge /\ StopWith(s, "size.exceeds_reviewable", "failure")
           \/ ~ empty /\ ~ tooLarge /\ StopWith(s, "budget.exhausted", "failure")
           \/ ~ empty /\ ~ tooLarge /\ GoTo(s, "allowance")
    BY <1>3 DEF CheckDiff, At, StopOrGo
  <2>2. Read(s) = Readings[facts[s].change]
    BY DEF Read
  <2> HIDE DEF empty, tooLarge
  <2>3. CASE empty /\ StopWith(s, "diff.empty", "failure")
    <3>1. Moves(s, "failingGate") /\ States[s] = "checkingSize"
          /\ Found'[s] = FindingsOf(facts[s], "diff.empty") /\ Plausible(facts[s])
      BY <1>1, <1>2, <2>1, <2>3, StopMoves, StateTable, StoppedTable
    <3> QED
      BY <2>2, <2>3, <3>1, Checks DEF empty
  <2>4. CASE ~ empty /\ tooLarge /\ StopWith(s, "size.exceeds_reviewable", "failure")
    <3>1. Moves(s, "failingGate") /\ States[s] = "checkingSize"
          /\ Found'[s] = FindingsOf(facts[s], "size.exceeds_reviewable") /\ Plausible(facts[s])
      BY <1>1, <1>2, <2>1, <2>4, StopMoves, StateTable, StoppedTable
    <3> QED
      BY <2>2, <2>4, <3>1, Checks DEF tooLarge
  <2>5. CASE ~ empty /\ ~ tooLarge /\ StopWith(s, "budget.exhausted", "failure")
    <3>1. Moves(s, "checkingBudgets") /\ States[s] = "checkingSize"
          /\ Found'[s] = FindingsOf(facts[s], "budget.exhausted") /\ Plausible(facts[s])
      BY <1>1, <1>2, <2>1, <2>5, StopMoves, StateTable, StoppedTable
    <3> QED
      BY <2>2, <2>5, <3>1, Checks DEF empty, tooLarge
  <2>6. CASE ~ empty /\ ~ tooLarge /\ GoTo(s, "allowance")
    <3>1. Moves(s, "checkingBudgets") /\ States[s] = "checkingSize"
          /\ Found'[s] = FindingsOf(facts[s], "none") /\ Plausible(facts[s])
      BY <1>1, <1>2, <2>1, <2>6, GoMoves, StateTable DEF Steps
    <3> QED
      BY <2>2, <2>6, <3>1, Checks DEF empty, tooLarge
  <2> QED
    BY <2>1, <2>3, <2>4, <2>5, <2>6
<1>4. CASE CheckAllowance(s)
  <2> DEFINE verdict == Assess(facts[s].signals)
  <2>1. /\ slot[s].pc = "allowance"
        /\ \/ verdict = "proceed" /\ GoTo(s, "open")
           \/ /\ verdict = "wait"
              /\ StopWith(s, "platform.rate_limit", "unreported")
           \/ /\ verdict = "escalate"
              /\ StopWith(s, "platform.rate_limit", "failure")
    BY <1>4 DEF CheckAllowance, At, Assess, Bounded
  <2>2. CASE verdict = "proceed" /\ GoTo(s, "open")
    <3>1. Moves(s, "reviewing") /\ States[s] = "checkingBudgets"
          /\ Found'[s] = FindingsOf(facts[s], "none") /\ Plausible(facts[s])
      BY <1>1, <1>2, <2>1, <2>2, GoMoves, StateTable DEF Steps
    <3> QED
      BY <2>2, <3>1, Checks
  <2>3. CASE verdict = "wait" /\ StopWith(s, "platform.rate_limit", "unreported")
    <3>1. Moves(s, "waitingForReset") /\ States[s] = "checkingBudgets"
          /\ Found'[s] = FindingsOf(facts[s], "platform.rate_limit") /\ Plausible(facts[s])
      <4>1. \A r : r.conclusion = "unreported" => StateOf(r) = "waitingForReset"
        BY DEF StateOf
      <4> QED
        BY <1>1, <1>2, <2>1, <2>3, <4>1, StopMoves, StateTable
    <3> QED
      BY <2>3, <3>1, Checks
  <2>4. CASE verdict = "escalate" /\ StopWith(s, "platform.rate_limit", "failure")
    <3>1. Moves(s, "escalating") /\ States[s] = "checkingBudgets"
          /\ Found'[s] = FindingsOf(facts[s], "platform.rate_limit") /\ Plausible(facts[s])
      BY <1>1, <1>2, <2>1, <2>4, StopMoves, StateTable, StoppedTable
    <3> QED
      BY <2>4, <3>1, Checks
  <2> QED
    BY <2>1, <2>2, <2>3, <2>4
<1> QED
  BY <1>3, <1>4

(* The roles: the statechart advances when the last one is over. *)

LEMMA EndRoleFollows ==
  ASSUME ServiceInv, NEW s \in Slots, slot[s].pc = "roles", NEW cost, NEW verdict, NEW proposals,
         EndRole(s, cost, verdict, proposals), UNCHANGED facts
  PROVE  Machine!Step(s) \/ UNCHANGED <<States, Found>>
<1>1. slot[s] \in Reviews /\ Holds(s, slot[s])
  BY DEF ServiceInv, TypeOK
<1>2. s \in Present /\ slot[s].conclusion = "none" /\ slot[s].cause = "none"
  BY <1>1 DEF Holds, Stopping
<1>3. PICK r : /\ slot' = [slot EXCEPT ![s] = r] /\ r.cause = "none"
               /\ \/ r.pc = "roles" /\ r.conclusion = "none"
                  \/ r.pc = "reconcile" /\ r.conclusion \in {"success", "failure"}
  <2> DEFINE stated == Append(slot[s].stated, verdict)
             findings == Raise(drafts[s] \cup DraftsBy(s, RoleOf(s), proposals),
                               Read(s).index, Read(s).excluded)
             last == Len(stated) = Len(RoleOrder)
             r == [slot[s] EXCEPT !.tokens = slot[s].tokens + cost, !.stated = stated,
                                  !.call = NewCall,
                                  !.pc = IF last THEN "reconcile" ELSE "roles",
                                  !.conclusion =
                                     IF last THEN Verdict(stated, findings) ELSE @]
  <2>1. slot' = [slot EXCEPT ![s] = r]
    BY DEF EndRole
  <2>2. Verdict(stated, findings) \in {"success", "failure"}
    BY DEF Verdict
  <2> HIDE DEF stated, findings
  <2>3. /\ r.cause = "none"
        /\ r.pc = (IF last THEN "reconcile" ELSE "roles")
        /\ r.conclusion = (IF last THEN Verdict(stated, findings) ELSE "none")
    BY <1>1, <1>2 DEF Reviews
  <2> QED
    BY <2>1, <2>2, <2>3
<1>4. /\ Moves(s, StateOf(r)) /\ States[s] = "reviewing"
      /\ StateOf(r) = "reviewing" => UNCHANGED <<States, Found>>
  <2>1. /\ Moves(s, StateOf(r)) /\ States[s] = StateOf(slot[s])
        /\ StateOf(r) = StateOf(slot[s]) /\ r.cause = slot[s].cause => UNCHANGED <<States, Found>>
    BY <1>2, <1>3, OneSlotMoves
  <2>2. StateOf(slot[s]) = "reviewing"
    BY <1>2, StateTable
  <2> QED
    BY <1>2, <1>3, <2>1, <2>2
<1>5. StateOf(r) \in {"reviewing", "reconciling"}
  BY <1>3, StateTable
<1> QED
  BY <1>4, <1>5, Advances

LEMMA AnsweredFollows ==
  ASSUME ServiceInv, NEW s \in Slots, Answered(s)
  PROVE  Machine!Step(s) \/ UNCHANGED <<States, Found>>
<1>1. slot[s].pc = "roles" /\ UNCHANGED facts /\ s \in Present
      /\ slot[s] \in Reviews /\ slot[s].conclusion # "unreported"
  BY DEF Answered, At, ServiceInv, TypeOK, Holds, Stopping
<1>2. CASE \E cost : \E verdict : \E proposals : EndRole(s, cost, verdict, proposals)
  BY <1>1, <1>2, EndRoleFollows
<1>3. ASSUME NEW call, slot' = [slot EXCEPT ![s].call = call]
      PROVE  UNCHANGED <<States, Found>>
  <2> DEFINE r == [slot[s] EXCEPT !.call = call]
  <2>1. r.pc = "roles" /\ r.cause = slot[s].cause /\ r.conclusion # "unreported"
    BY <1>1 DEF Reviews
  <2>2. slot' = [slot EXCEPT ![s] = r]
    BY <1>3
  <2> HIDE DEF r
  <2>3. StateOf(r) = StateOf(slot[s]) /\ r.cause = slot[s].cause => UNCHANGED <<States, Found>>
    BY <1>1, <2>2, OneSlotMoves
  <2>4. StateOf(slot[s]) = "reviewing" /\ StateOf(r) = "reviewing"
    BY <1>1, <2>1, StateTable
  <2> QED
    BY <2>1, <2>3, <2>4
<1>4. \/ \E cost : \E verdict : \E proposals : EndRole(s, cost, verdict, proposals)
      \/ \E call : slot' = [slot EXCEPT ![s].call = call]
  BY DEF Answered
<1> QED
  BY <1>2, <1>3, <1>4

(* A stop is escalated; a wait for the platform stays where it is. *)
LEMMA EscalationFollows ==
  ASSUME ServiceInv, NEW s \in Slots, FindIssue(s) \/ DeliverIssue(s)
  PROVE  Machine!Step(s) \/ UNCHANGED <<States, Found>>
<1>1. slot[s] \in Reviews /\ Holds(s, slot[s]) /\ s \in Present /\ UNCHANGED facts
  BY DEF ServiceInv, TypeOK, FindIssue, DeliverIssue, At, rest
<1>2. slot[s].cause \in Causes \ {"none"} /\ slot[s].pc \in {"find", "deliver"}
  BY <1>1 DEF Holds, Stopping, Reviews, FindIssue, DeliverIssue, At
<1>3. PICK r : /\ slot' = [slot EXCEPT ![s] = r] /\ r.cause = slot[s].cause
               /\ r.conclusion = slot[s].conclusion
               /\ r.pc \in {"deliver", "comment"}
  <2>1. CASE slot' = [slot EXCEPT ![s].pc = "deliver", ![s].found = Finds(s)]
    <3> DEFINE r == [slot[s] EXCEPT !.pc = "deliver", !.found = Finds(s)]
    <3>1. slot' = [slot EXCEPT ![s] = r]
      BY <2>1
    <3>2. r.pc = "deliver" /\ r.cause = slot[s].cause /\ r.conclusion = slot[s].conclusion
      BY <1>1 DEF Reviews
    <3> QED
      BY <3>1, <3>2
  <2>2. CASE GoTo(s, "comment")
    <3> DEFINE r == [slot[s] EXCEPT !.pc = "comment"]
    <3>1. slot' = [slot EXCEPT ![s] = r]
      BY <2>2 DEF GoTo
    <3>2. r.pc = "comment" /\ r.cause = slot[s].cause /\ r.conclusion = slot[s].conclusion
      BY <1>1 DEF Reviews
    <3> QED
      BY <3>1, <3>2
  <2> QED
    BY <2>1, <2>2 DEF FindIssue, DeliverIssue
<1>4. /\ Moves(s, StateOf(r)) /\ States[s] = StateOf(slot[s])
      /\ Found'[s] = FindingsOf(facts[s], slot[s].cause) /\ Plausible(facts[s])
      /\ StateOf(r) = StateOf(slot[s]) => UNCHANGED <<States, Found>>
  BY <1>1, <1>3, OneSlotMoves
<1>5. CASE slot[s].conclusion = "unreported"
  <2>1. StateOf(r) = "waitingForReset" /\ StateOf(slot[s]) = "waitingForReset"
    BY <1>3, <1>5 DEF StateOf
  <2> QED
    BY <1>4, <2>1
<1>6. CASE slot[s].conclusion # "unreported" /\ slot[s].pc = "deliver"
  <2>1. StateOf(r) = "escalating" /\ StateOf(slot[s]) = "escalating"
    BY <1>3, <1>6, StateTable
  <2> QED
    BY <1>4, <2>1
<1>7. CASE slot[s].conclusion # "unreported" /\ slot[s].pc = "find"
  <2>1. Moves(s, "escalating") /\ States[s] = StoppedIn[slot[s].cause]
    BY <1>3, <1>4, <1>7, StateTable
  <2>2. CASE slot[s].cause \in {"prerequisites.missing", "diff.empty", "size.exceeds_reviewable"}
    BY <2>1, <2>2, StoppedTable, Advances
  <2>3. CASE slot[s].cause = "identity.self_authored"
    BY <1>1, <1>4, <1>7, <2>1, <2>3, StoppedTable, Checks DEF Holds
  <2>4. CASE slot[s].cause = "budget.exhausted"
    BY <1>4, <2>1, <2>4, StoppedTable, Checks
  <2>5. CASE slot[s].cause \in {"rounds.cap_exceeded", "progress.no_forward_progress",
                               "platform.rate_limit"}
    <3>1. StateOf(r) = "escalating" /\ StateOf(slot[s]) = "escalating"
      BY <1>3, <1>7, <2>5, StateTable, StoppedTable
    <3> QED
      BY <1>4, <3>1
  <2> QED
    BY <1>2, <2>2, <2>3, <2>4, <2>5 DEF Causes
<1> QED
  BY <1>2, <1>5, <1>6, <1>7

(* The end of a review, reported or stopped. *)
LEMMA OverFollows ==
  ASSUME ServiceInv, NEW s \in Slots, Report(s) \/ Comment(s)
  PROVE  Machine!Step(s) \/ UNCHANGED <<States, Found>>
<1>1. slot[s] \in Reviews /\ Holds(s, slot[s]) /\ s \in Present /\ UNCHANGED facts /\ Over(s)
      /\ slot[s].pc \in {"report", "comment"}
  BY DEF ServiceInv, TypeOK, Report, Comment, At, Over
<1> DEFINE r == [NewReview("ended") EXCEPT !.cause = slot[s].cause,
                                           !.conclusion = slot[s].conclusion]
<1>2. /\ r.pc = "ended" /\ r.cause = slot[s].cause /\ r.conclusion = slot[s].conclusion
      /\ slot' = [slot EXCEPT ![s] = r]
  BY <1>1 DEF NewReview, Over
<1> HIDE DEF r
<1>3. /\ Moves(s, StateOf(r)) /\ States[s] = StateOf(slot[s])
      /\ StateOf(r) = StateOf(slot[s]) => UNCHANGED <<States, Found>>
  BY <1>1, <1>2, OneSlotMoves
<1>4. CASE slot[s].conclusion = "unreported"
  <2>1. StateOf(r) = "waitingForReset" /\ StateOf(slot[s]) = "waitingForReset"
    BY <1>2, <1>4 DEF StateOf
  <2> QED
    BY <1>3, <2>1
<1>5. CASE slot[s].conclusion # "unreported" /\ slot[s].pc = "report"
  <2>1. slot[s].cause = "none"
    BY <1>1, <1>5 DEF Holds, Stopping
  <2>2. StateOf(r) = "done" /\ StateOf(slot[s]) = "reportingGate"
    BY <1>2, <1>5, <2>1, StateTable
  <2> QED
    BY <1>3, <2>2, Advances
<1>6. CASE slot[s].conclusion # "unreported" /\ slot[s].pc = "comment"
  <2>1. slot[s].cause # "none"
    BY <1>1, <1>6 DEF Holds, Stopping
  <2>2. StateOf(r) = "halted" /\ StateOf(slot[s]) = "escalating"
    BY <1>2, <1>6, <2>1, StateTable
  <2> QED
    BY <1>3, <2>2, Advances
<1> QED
  BY <1>1, <1>4, <1>5, <1>6

LEMMA StepFollows ==
  ASSUME ServiceInv, [Next]_vars
  PROVE  (\E s \in Slots : Machine!Step(s)) \/ UNCHANGED <<States, Found>>
<1>1. ASSUME NEW s \in Slots, Begin(s) \/ Dies(s) PROVE Machine!Step(s)
  <2>1. PICK r : /\ slot' = [slot EXCEPT ![s] = r] /\ r.pc \in {"snapshot", "idle"}
                 /\ r.conclusion = "none"
    <3>1. \A pc : NewReview(pc).pc = pc /\ NewReview(pc).conclusion = "none"
      BY DEF NewReview
    <3>2. \E pc \in {"snapshot", "idle"} : slot' = [slot EXCEPT ![s] = NewReview(pc)]
      BY <1>1 DEF Begin, Dies
    <3> QED
      BY <3>1, <3>2
  <2>2. s \in Present /\ UNCHANGED facts
    BY <1>1 DEF Begin, Dies, At, rest
  <2>3. Moves(s, StateOf(r))
    BY <2>1, <2>2, OneSlotMoves
  <2>4. StateOf(r) = "resolvingSettings"
    BY <2>1, StateTable
  <2> QED
    BY <2>3, <2>4, Restarts
<1>2. ASSUME NEW s \in Slots,
             ReadSnapshot(s) \/ CheckPrerequisites(s) \/ ReadHistory(s) \/ CheckProgressOf(s)
      PROVE  Machine!Step(s)
  BY <1>2, BeforeSpendingFollows
<1>3. ASSUME NEW s \in Slots, CheckDiff(s) \/ CheckAllowance(s) PROVE Machine!Step(s)
  BY <1>3, SpendingFollows
<1>4. ASSUME NEW s \in Slots, OpenGate(s) PROVE UNCHANGED <<States, Found>>
  <2>1. /\ slot[s].pc = "open" /\ GoTo(s, "roles") /\ UNCHANGED facts /\ s \in Present
        /\ slot[s].conclusion # "unreported"
    BY <1>4 DEF OpenGate, At, rest, ServiceInv, Holds, Stopping
  <2> QED
    BY <2>1, GoMoves, StateTable DEF Steps
<1>5. ASSUME NEW s \in Slots, Reconcile(s) PROVE Machine!Step(s)
  <2>1. /\ slot[s].pc = "reconcile" /\ GoTo(s, "report") /\ UNCHANGED facts /\ s \in Present
        /\ slot[s].conclusion # "unreported"
    BY <1>5 DEF Reconcile, At, rest, ServiceInv, Holds, Stopping
  <2>2. Moves(s, "reportingGate") /\ States[s] = "reconciling"
    BY <2>1, GoMoves, StateTable DEF Steps
  <2> QED
    BY <2>2, Advances
<1>6. ASSUME NEW s \in Slots, DeadlineFires(s) PROVE UNCHANGED <<States, Found>>
  <2> DEFINE r == [slot[s] EXCEPT !.call = [slot[s].call EXCEPT !.aborted = TRUE]]
  <2>1. /\ slot[s].pc = "roles" /\ s \in Present /\ UNCHANGED facts
        /\ slot[s].conclusion # "unreported" /\ slot' = [slot EXCEPT ![s] = r]
    BY <1>6 DEF DeadlineFires, At, rest, ServiceInv, Holds, Stopping
  <2>2. r.pc = "roles" /\ r.cause = slot[s].cause /\ r.conclusion # "unreported"
    BY <2>1 DEF ServiceInv, TypeOK, Reviews
  <2> HIDE DEF r
  <2>3. StateOf(r) = StateOf(slot[s]) /\ r.cause = slot[s].cause => UNCHANGED <<States, Found>>
    BY <2>1, OneSlotMoves
  <2>4. StateOf(r) = "reviewing" /\ StateOf(slot[s]) = "reviewing"
    BY <2>1, <2>2, StateTable
  <2> QED
    BY <2>2, <2>3, <2>4
<1>7. CASE HumanCloses \/ UNCHANGED vars
  BY <1>7 DEF HumanCloses, vars, States, Found, Present
<1> QED
  BY <1>1, <1>2, <1>3, <1>4, <1>5, <1>6, <1>7, AnsweredFollows, EscalationFollows, OverFollows
  DEF Next

(* Whatever reviews find and whatever model calls bring back, a review     *)
(* makes its checks in the order the statechart declares and stops exactly *)
(* at its guards (composition.ts, reviewPullRequest; review/machine.ts).   *)
THEOREM FollowsTheStatechart == Spec => ImplementsReviewMachine
<1>1. Init => Machine!Init
  BY StateTable DEF Init, Machine!Init, NewReview
<1>2. ServiceInv /\ [Next]_vars
        => [\E r \in Slots : Machine!Step(r)]_(Machine!machineVars)
  BY StepFollows DEF Machine!machineVars, States, Found
<1> QED
  BY <1>1, <1>2, InitInv, StepInv, PTL DEF Spec, ImplementsReviewMachine, Machine!UnfailingSpec

---------------------------------------------------------------------------
(* What a pass costs *)

(* Over the harness, a role that handed back a review has cost something,  *)
(* and only reviews make a verdict of success.                             *)
Metered(r) ==
  transport = "agent-sdk" =>
    /\ r.pc = "roles" /\ (\A i \in DOMAIN r.stated : r.stated[i] # "missing")
         => r.tokens >= Len(r.stated)
    /\ r.pc # "ended" /\ r.conclusion = "success" => r.tokens >= Len(RoleOrder)

MeteredInv == \A s \in Slots : Metered(slot[s])

LEMMA OneSlotMetered ==
  ASSUME ServiceInv, MeteredInv, UNCHANGED transport, NEW s \in Slots, NEW r,
         slot' = [slot EXCEPT ![s] = r], Metered(r)
  PROVE  MeteredInv'
<1>1. \A q \in Slots : slot'[q] = IF q = s THEN r ELSE slot[q]
  BY DEF ServiceInv, TypeOK
<1> QED
  BY <1>1 DEF MeteredInv, Metered

(* A review that moves without a new conclusion has been metered already. *)
LEMMA GoMetered ==
  ASSUME ServiceInv, MeteredInv, UNCHANGED rest, NEW s \in Slots, NEW pc \in Steps \ {"roles"},
         slot[s].pc # "ended", GoTo(s, pc)
  PROVE  MeteredInv'
<1> DEFINE r == [slot[s] EXCEPT !.pc = pc]
<1>1. slot[s] \in Reviews
  BY DEF ServiceInv, TypeOK
<1>2. r.pc = pc /\ r.tokens = slot[s].tokens /\ r.conclusion = slot[s].conclusion
  BY <1>1 DEF Reviews
<1>3. slot' = [slot EXCEPT ![s] = r] /\ UNCHANGED transport
  BY DEF GoTo, rest
<1> HIDE DEF r
<1>4. Metered(r)
  BY <1>2 DEF Metered, MeteredInv
<1> QED
  BY <1>3, <1>4, OneSlotMetered

LEMMA StopMetered ==
  ASSUME ServiceInv, MeteredInv, UNCHANGED rest, NEW s \in Slots, NEW cause,
         NEW conclusion, conclusion # "success", StopWith(s, cause, conclusion)
  PROVE  MeteredInv'
<1> DEFINE r == [slot[s] EXCEPT !.pc = "find", !.cause = cause, !.conclusion = conclusion]
<1>1. r.pc = "find" /\ r.conclusion = conclusion
  BY DEF ServiceInv, TypeOK, Reviews
<1>2. slot' = [slot EXCEPT ![s] = r] /\ UNCHANGED transport
  BY DEF StopWith, rest
<1> HIDE DEF r
<1>3. Metered(r)
  BY <1>1 DEF Metered
<1> QED
  BY <1>2, <1>3, OneSlotMetered

(* The answer with a review is one whose usage was counted. *)
LEMMA ReviewsCost ==
  ASSUME NEW stream \in Streams, NEW call \in Calls,
         Ask(stream, call.aborted).kind = "review"
  PROVE  AfterAsk(call, Ask(stream, call.aborted)).spent >= 1
<1>1. /\ stream.ended \in Endings /\ stream.usage \in Nat \cup {NoUsage}
      /\ call.aborted \in BOOLEAN /\ call.spent \in Nat
  BY ServiceAssumption DEF Calls
<1>2. /\ stream.ended = "success" /\ ~ call.aborted /\ stream.usage \notin {NoUsage, 0}
      /\ Ask(stream, call.aborted).usage = stream.usage
  <2>1. ~ (stream.ended = "threw" \/ call.aborted \/ stream.ended = "errored")
    BY DEF Ask, Answer
  <2>2. stream.ended = "success" /\ ~ call.aborted
    BY <1>1, <2>1 DEF Endings
  <2> QED
    BY <2>1, <2>2 DEF Ask, Answer
<1>3. Ask(stream, call.aborted).usage \in Nat /\ Ask(stream, call.aborted).usage >= 1
  BY <1>1, <1>2
<1> QED
  BY <1>1, <1>3 DEF AfterAsk, Calls

LEMMA EndRoleMetered ==
  ASSUME ServiceInv, MeteredInv, NEW s \in Slots, slot[s].pc = "roles", NEW cost \in Nat,
         NEW verdict \in {"approve", "request-changes", "missing"}, NEW proposals,
         transport = "agent-sdk" /\ verdict # "missing" => cost >= 1,
         EndRole(s, cost, verdict, proposals), UNCHANGED transport
  PROVE  MeteredInv'
<1> DEFINE stated == Append(slot[s].stated, verdict)
           findings == Raise(drafts[s] \cup DraftsBy(s, RoleOf(s), proposals),
                             Read(s).index, Read(s).excluded)
           last == Len(stated) = Len(RoleOrder)
           r == [slot[s] EXCEPT !.tokens = slot[s].tokens + cost, !.stated = stated,
                                !.call = NewCall, !.pc = IF last THEN "reconcile" ELSE "roles",
                                !.conclusion = IF last THEN Verdict(stated, findings) ELSE @]
<1>1. /\ slot[s] \in Reviews /\ slot[s].tokens \in Nat /\ slot[s].conclusion = "none"
      /\ slot[s].stated \in Seq({"approve", "request-changes", "missing"})
  BY DEF ServiceInv, TypeOK, Reviews, Holds
<1>2. slot' = [slot EXCEPT ![s] = r]
  BY DEF EndRole
<1>3. /\ Len(stated) = Len(slot[s].stated) + 1 /\ Len(slot[s].stated) \in Nat
      /\ DOMAIN stated = 1..(Len(slot[s].stated) + 1)
      /\ DOMAIN slot[s].stated = 1..Len(slot[s].stated)
      /\ stated[Len(slot[s].stated) + 1] = verdict
      /\ \A i \in DOMAIN slot[s].stated : stated[i] = slot[s].stated[i]
  BY <1>1
<1>4. Verdict(stated, findings) = "success" => \A i \in DOMAIN stated : stated[i] # "missing"
  BY DEF Verdict
<1> HIDE DEF stated, findings
<1>5. /\ r.stated = stated /\ r.tokens = slot[s].tokens + cost
      /\ r.pc = (IF last THEN "reconcile" ELSE "roles")
      /\ r.conclusion = (IF last THEN Verdict(stated, findings) ELSE "none")
  BY <1>1 DEF Reviews
<1>6. ASSUME transport = "agent-sdk", \A i \in DOMAIN stated : stated[i] # "missing"
      PROVE  slot[s].tokens + cost >= Len(stated)
  <2>1. verdict # "missing" /\ cost >= 1
    BY <1>3, <1>6
  <2>2. \A i \in DOMAIN slot[s].stated : slot[s].stated[i] # "missing"
    BY <1>3, <1>6
  <2>3. slot[s].tokens >= Len(slot[s].stated)
    BY <1>6, <2>2 DEF MeteredInv, Metered
  <2> QED
    BY <1>1, <1>3, <2>1, <2>3
<1> HIDE DEF r
<1>7. Metered(r)
  BY <1>4, <1>5, <1>6 DEF Metered
<1> QED
  BY <1>2, <1>7, OneSlotMetered

LEMMA AnsweredMetered ==
  ASSUME ServiceInv, MeteredInv, NEW s \in Slots, Answered(s)
  PROVE  MeteredInv'
<1> DEFINE call == slot[s].call
           Given(stream) == AnswerOver(transport, stream, call.aborted)
<1>1. slot[s].pc = "roles" /\ UNCHANGED transport /\ slot[s] \in Reviews /\ call \in Calls
  BY DEF Answered, At, ServiceInv, TypeOK, Reviews
<1>2. PICK stream \in Streams :
        LET answer == Given(stream)
            cost == AfterAsk(call, answer).spent
        IN CASE answer.kind = "review" ->
                  \E verdict \in {"approve", "request-changes"},
                     proposals \in {{}} \cup {{p} : p \in facts[s].proposals[RoleOf(s)]} :
                    EndRole(s, cost, verdict, proposals)
             [] AsksAgain(call, answer) ->
                  /\ slot' = [slot EXCEPT ![s].call = AfterAsk(call, answer)]
                  /\ UNCHANGED <<drafts, spent>>
             [] OTHER -> EndRole(s, cost, "missing", {})
  BY DEF Answered
<1> DEFINE answer == Given(stream)
           cost == AfterAsk(call, answer).spent
<1>3. cost \in Nat
  BY <1>1, AnswerType
<1>4. transport = "agent-sdk" /\ answer.kind = "review" => cost >= 1
  BY <1>1, ReviewsCost DEF AnswerOver
<1> HIDE DEF answer, Given
<1>5. AsksAgain(call, answer) => answer.kind # "review"
  BY DEF AsksAgain
<1>6. CASE answer.kind = "review"
  <2>1. \E verdict \in {"approve", "request-changes"} : \E proposals :
           EndRole(s, cost, verdict, proposals)
    BY <1>2, <1>5, <1>6 DEF answer
  <2> QED
    BY <1>1, <1>3, <1>4, <1>6, <2>1, EndRoleMetered
<1>7. CASE AsksAgain(call, answer)
  <2> DEFINE r == [slot[s] EXCEPT !.call = AfterAsk(call, answer)]
  <2>1. slot' = [slot EXCEPT ![s] = r]
    BY <1>2, <1>5, <1>7 DEF answer
  <2>2. /\ r.pc = slot[s].pc /\ r.stated = slot[s].stated /\ r.tokens = slot[s].tokens
        /\ r.conclusion = slot[s].conclusion
    BY <1>1 DEF Reviews
  <2> HIDE DEF r
  <2>3. Metered(r)
    BY <2>2 DEF Metered, MeteredInv
  <2> QED
    BY <1>1, <2>1, <2>3, OneSlotMetered
<1>8. CASE answer.kind # "review" /\ ~ AsksAgain(call, answer)
  <2>1. EndRole(s, cost, "missing", {})
    BY <1>2, <1>8 DEF answer
  <2> QED
    BY <1>1, <1>3, <2>1, EndRoleMetered
<1> QED
  BY <1>6, <1>7, <1>8

LEMMA StepMetered == ASSUME ServiceInv, MeteredInv, [Next]_vars PROVE MeteredInv'
<1>1. ASSUME NEW s \in Slots, NEW r, slot' = [slot EXCEPT ![s] = r],
             r.pc # "roles", r.pc = "ended" \/ r.conclusion = "none", UNCHANGED transport
      PROVE  MeteredInv'
  <2>1. Metered(r)
    BY <1>1 DEF Metered
  <2> QED
    BY <1>1, <2>1, OneSlotMetered
<1>2. ASSUME NEW s \in Slots, Begin(s) \/ Dies(s) PROVE MeteredInv'
  <2>1. PICK r : /\ slot' = [slot EXCEPT ![s] = r] /\ r.pc \in {"snapshot", "idle"}
                 /\ r.conclusion = "none"
    <3>1. \A pc : NewReview(pc).pc = pc /\ NewReview(pc).conclusion = "none"
      BY DEF NewReview
    <3>2. \E pc \in {"snapshot", "idle"} : slot' = [slot EXCEPT ![s] = NewReview(pc)]
      BY <1>2 DEF Begin, Dies
    <3> QED
      BY <3>1, <3>2
  <2>2. UNCHANGED transport
    BY <1>2 DEF Begin, Dies, rest
  <2> QED
    BY <1>1, <2>1, <2>2
<1>3. ASSUME NEW s \in Slots, ReadSnapshot(s) \/ ReadHistory(s) \/ Reconcile(s)
      PROVE  MeteredInv'
  BY <1>3, GoMetered DEF ReadSnapshot, ReadHistory, Reconcile, At, Steps
<1>4. ASSUME NEW s \in Slots, OpenGate(s) PROVE MeteredInv'
  <2> DEFINE r == [slot[s] EXCEPT !.pc = "roles"]
  <2>1. slot[s] \in Reviews /\ slot[s].stated = <<>> /\ slot[s].tokens = 0
        /\ slot[s].conclusion = "none"
    BY <1>4 DEF OpenGate, At, ServiceInv, TypeOK, Holds, BeforeRoles
  <2>2. r.conclusion = "none" /\ r.stated = <<>> /\ r.tokens = 0
    BY <2>1 DEF Reviews
  <2>3. slot' = [slot EXCEPT ![s] = r] /\ UNCHANGED transport
    BY <1>4 DEF OpenGate, GoTo, rest
  <2> HIDE DEF r
  <2>4. Metered(r)
    BY <2>2 DEF Metered
  <2> QED
    BY <2>3, <2>4, OneSlotMetered
<1>5. ASSUME NEW s \in Slots, NEW cause, NEW pc \in {"history", "diff", "allowance"},
             slot[s].pc # "ended", StopOrGo(s, cause, pc), UNCHANGED rest
      PROVE  MeteredInv'
  BY <1>5, GoMetered, StopMetered DEF StopOrGo, Steps
<1>6. ASSUME NEW s \in Slots, CheckPrerequisites(s) \/ CheckProgressOf(s) \/ CheckDiff(s)
      PROVE  MeteredInv'
  <2>1. \E cause : \E pc \in {"history", "diff", "allowance"} : StopOrGo(s, cause, pc)
    BY <1>6 DEF CheckPrerequisites, CheckProgressOf, CheckDiff
  <2>2. slot[s].pc # "ended" /\ UNCHANGED rest
    BY <1>6 DEF CheckPrerequisites, CheckProgressOf, CheckDiff, At
  <2> QED
    BY <1>5, <2>1, <2>2
<1>7. ASSUME NEW s \in Slots, CheckAllowance(s) PROVE MeteredInv'
  BY <1>7, GoMetered, StopMetered DEF CheckAllowance, At, Steps
<1>8. ASSUME NEW s \in Slots, DeadlineFires(s) \/ FindIssue(s) \/ DeliverIssue(s)
      PROVE  MeteredInv'
  <2>1. slot[s] \in Reviews /\ UNCHANGED transport /\ slot[s].pc # "ended"
    BY <1>8 DEF DeadlineFires, FindIssue, DeliverIssue, At, rest, ServiceInv, TypeOK
  <2>2. PICK r : /\ slot' = [slot EXCEPT ![s] = r]
                 /\ r.stated = slot[s].stated /\ r.tokens = slot[s].tokens
                 /\ r.conclusion = slot[s].conclusion
                 /\ r.pc = slot[s].pc \/ r.pc \in {"deliver", "comment"}
    <3>1. CASE slot' = [slot EXCEPT ![s].call.aborted = TRUE]
      <4> DEFINE r == [slot[s] EXCEPT !.call = [slot[s].call EXCEPT !.aborted = TRUE]]
      <4>1. slot' = [slot EXCEPT ![s] = r]
        BY <3>1
      <4>2. /\ r.stated = slot[s].stated /\ r.tokens = slot[s].tokens /\ r.pc = slot[s].pc
            /\ r.conclusion = slot[s].conclusion
        BY <2>1 DEF Reviews
      <4> QED
        BY <4>1, <4>2
    <3>2. CASE slot' = [slot EXCEPT ![s].pc = "deliver", ![s].found = Finds(s)]
      <4> DEFINE r == [slot[s] EXCEPT !.pc = "deliver", !.found = Finds(s)]
      <4>1. slot' = [slot EXCEPT ![s] = r]
        BY <3>2
      <4>2. /\ r.stated = slot[s].stated /\ r.tokens = slot[s].tokens /\ r.pc = "deliver"
            /\ r.conclusion = slot[s].conclusion
        BY <2>1 DEF Reviews
      <4> QED
        BY <4>1, <4>2
    <3>3. CASE GoTo(s, "comment")
      <4> DEFINE r == [slot[s] EXCEPT !.pc = "comment"]
      <4>1. slot' = [slot EXCEPT ![s] = r]
        BY <3>3 DEF GoTo
      <4>2. /\ r.stated = slot[s].stated /\ r.tokens = slot[s].tokens /\ r.pc = "comment"
            /\ r.conclusion = slot[s].conclusion
        BY <2>1 DEF Reviews
      <4> QED
        BY <4>1, <4>2
    <3> QED
      BY <1>8, <3>1, <3>2, <3>3 DEF DeadlineFires, FindIssue, DeliverIssue
  <2>3. Metered(r)
    BY <2>1, <2>2 DEF Metered, MeteredInv
  <2> QED
    BY <2>1, <2>2, <2>3, OneSlotMetered
<1>9. ASSUME NEW s \in Slots, Report(s) \/ Comment(s) PROVE MeteredInv'
  <2> DEFINE r == [NewReview("ended") EXCEPT !.cause = slot[s].cause,
                                             !.conclusion = slot[s].conclusion]
  <2>1. r.pc = "ended"
    BY DEF NewReview
  <2>2. slot' = [slot EXCEPT ![s] = r] /\ UNCHANGED transport
    BY <1>9 DEF Report, Comment, Over
  <2> HIDE DEF r
  <2> QED
    BY <1>1, <2>1, <2>2
<1>10. CASE HumanCloses \/ UNCHANGED vars
  BY <1>10 DEF HumanCloses, vars, MeteredInv, Metered
<1> QED
  BY <1>2, <1>3, <1>4, <1>6, <1>7, <1>8, <1>9, <1>10, AnsweredMetered DEF Next

(* However calls end, whatever usage they state and however often they are *)
(* asked again, no review over the harness passes on an answer that was    *)
(* not counted (agent-sdk.ts, #ask: usage of zero is no usage).            *)
THEOREM PassesAreCounted == Spec => []PassesAreMetered
<1>1. Init => MeteredInv
  BY DEF Init, MeteredInv, Metered, NewReview
<1>2. ServiceInv /\ MeteredInv => PassesAreMetered
  BY PresentIsSlots DEF MeteredInv, Metered, PassesAreMetered
<1> QED
  BY <1>1, <1>2, InitInv, StepInv, StepMetered, PTL DEF Spec

---------------------------------------------------------------------------
(* The budget *)

MaxCall == MaxAttempts * MaxUsage

(* No call costs more than its asks, and no role more than a call. *)
Affordable(r) ==
  /\ r.call.spent <= (r.call.attempt - 1) * MaxUsage
  /\ r.tokens <= Len(r.stated) * MaxCall

Admitted == {"allowance", "open", "roles"}

(* The reviews that the budget check let through and that have not recorded *)
UnderWay == {s \in Slots : slot[s].pc \in Admitted}

(* Each review under way may still spend what one review costs; the review *)
(* that was let through last found room for its reservation.               *)
Room(inUse, card) ==
  \E s \in Present :
    inUse + Reservation(s) + card * MaxCost <= TokenBudget + Cardinality(Present) * MaxCost

BudgetInv ==
  /\ \A s \in Slots : Affordable(slot[s])
  /\ UnderWay # {} \/ spent > 0 => Room(spent, Cardinality(UnderWay))

LEMMA CostTypes ==
  /\ MaxUsage \in Nat /\ MaxAttempts \in Nat \ {0} /\ MaxCall \in Nat
  /\ MaxCost \in Nat /\ MaxCost = Len(RoleOrder) * MaxCall /\ Len(RoleOrder) \in Nat
<1>1. MaxUsage \in Nat /\ MaxAttempts \in Nat \ {0} /\ Len(RoleOrder) \in Nat
  BY MaxUsageAssumption, ModelCallAssumption, ServiceAssumption
<1>2. \A a, b, c \in Nat : a * b \in Nat /\ a * b * c = a * (b * c) /\ a * b * c \in Nat
  OBVIOUS
<1> QED
  BY <1>1, <1>2 DEF MaxCall, MaxCost

LEMMA CardTypes ==
  ASSUME ServiceInv
  PROVE  /\ IsFiniteSet(Present) /\ Cardinality(Present) \in Nat
         /\ UnderWay \subseteq Present /\ IsFiniteSet(UnderWay) /\ Cardinality(UnderWay) \in Nat
         /\ \A s \in Present : Reservation(s) \in Int
         /\ TokenBudget \in Nat
<1>1. Present \subseteq Slots /\ IsFiniteSet(Present)
  BY PresentIsSlots, ServiceAssumption, FS_Subset
<1>2. UnderWay \subseteq Present
  BY DEF UnderWay, Admitted, ServiceInv, Holds
<1>3. ASSUME NEW s \in Present PROVE Reservation(s) \in Int
  <2>1. facts[s].length \in Nat
    BY ServiceAssumption DEF ServiceInv, TypeOK, Present, Plausible
  <2>2. EstimateReviewTokens(facts[s].length) \in Int
    BY <2>1, StopsAssumption DEF EstimateReviewTokens
  <2> QED
    BY <2>2, CostTypes DEF Reservation
<1> QED
  BY <1>1, <1>2, <1>3, FS_Subset, FS_CardinalityType, StopsAssumption

(* Room for some is room for fewer. *)
LEMMA RoomForFewer ==
  ASSUME ServiceInv, NEW inUse \in Nat, NEW more \in Nat, NEW fewer \in 0..more,
         Room(inUse, more)
  PROVE  Room(inUse, fewer)
<1>1. PICK s \in Present :
        inUse + Reservation(s) + more * MaxCost <= TokenBudget + Cardinality(Present) * MaxCost
  BY DEF Room
<1>2. \A a, b, c \in Nat : a <= b => a * c <= b * c /\ a * c \in Nat /\ b * c \in Nat
  OBVIOUS
<1>3. fewer * MaxCost <= more * MaxCost /\ {fewer * MaxCost, more * MaxCost} \subseteq Nat
      /\ Cardinality(Present) * MaxCost \in Nat
  <2>1. MaxCost \in Nat /\ Cardinality(Present) \in Nat
    BY CostTypes, CardTypes
  <2>2. fewer \in Nat /\ fewer <= more
    OBVIOUS
  <2>3. fewer * MaxCost <= more * MaxCost /\ fewer * MaxCost \in Nat /\ more * MaxCost \in Nat
    BY <1>2, <2>1, <2>2, Zenon
  <2>4. Cardinality(Present) * MaxCost \in Nat
    BY <2>1
  <2> QED
    BY <2>3, <2>4
<1>4. Reservation(s) \in Int /\ TokenBudget \in Nat
  BY CardTypes
<1> QED
  BY <1>1, <1>3, <1>4 DEF Room

(* A step of one slot that records nothing and admits nothing *)
LEMMA OneSlotBudget ==
  ASSUME ServiceInv, BudgetInv, UNCHANGED <<facts, spent>>, NEW s \in Slots, NEW r,
         slot' = [slot EXCEPT ![s] = r], Affordable(r),
         r.pc \in Admitted => slot[s].pc \in Admitted
  PROVE  BudgetInv'
<1>1. \A q \in Slots : slot'[q] = IF q = s THEN r ELSE slot[q]
  BY DEF ServiceInv, TypeOK
<1>2. \A q \in Slots : Affordable(slot[q])'
  BY <1>1 DEF BudgetInv, Affordable
<1>3. UnderWay' \subseteq UnderWay
  BY <1>1 DEF UnderWay
<1>4. Cardinality(UnderWay') \in 0..Cardinality(UnderWay) /\ Cardinality(UnderWay) \in Nat
  BY <1>3, CardTypes, FS_Subset, FS_CardinalityType
<1>5. spent \in Nat
  BY DEF ServiceInv, TypeOK
<1>6. ASSUME UnderWay' # {} \/ spent' > 0 PROVE Room(spent, Cardinality(UnderWay))'
  <2>1. Room(spent, Cardinality(UnderWay))
    BY <1>3, <1>6 DEF BudgetInv
  <2> DEFINE fewer == Cardinality(UnderWay')
  <2>2. Room(spent, fewer)
    BY <1>4, <1>5, <2>1, RoomForFewer
  <2> QED
    BY <2>2 DEF Room, Present, Reservation
<1> QED
  BY <1>2, <1>6 DEF BudgetInv

LEMMA AnswerBound ==
  ASSUME NEW stream \in Streams, NEW over, NEW aborted \in BOOLEAN
  PROVE  AnswerOver(over, stream, aborted).usage <= MaxUsage
<1>1. /\ stream.ended \in Endings /\ stream.usage \in Nat \cup {NoUsage}
      /\ Floor \in Nat /\ MaxUsage \in Nat /\ Floor <= MaxUsage /\ stream.usage <= MaxUsage
  BY ServiceAssumption, ModelCallAssumption, MaxUsageAssumption
<1>2. UsageOrFloor(stream.usage) <= MaxUsage
  BY <1>1 DEF UsageOrFloor
<1>3. Ask(stream, aborted).usage <= MaxUsage
  <2>1. CASE stream.ended = "threw" \/ aborted \/ stream.ended = "errored"
    BY <1>2, <2>1 DEF Ask, Answer
  <2>2. CASE stream.ended = "success" /\ ~ aborted
    BY <1>1, <2>2 DEF Ask, Answer
  <2> QED
    BY <1>1, <2>1, <2>2 DEF Endings
<1>4. AskAPI(stream).usage <= MaxUsage
  BY <1>1 DEF AskAPI, Answer, Endings
<1> QED
  BY <1>3, <1>4 DEF AnswerOver

(* One more ask costs at most one more ask. *)
LEMMA AskBound ==
  ASSUME NEW stream \in Streams, NEW over, NEW call \in Calls,
         call.spent <= (call.attempt - 1) * MaxUsage
  PROVE  LET after == AfterAsk(call, AnswerOver(over, stream, call.aborted)) IN
         /\ after.spent <= (after.attempt - 1) * MaxUsage
         /\ after.spent <= MaxCall
<1> DEFINE answer == AnswerOver(over, stream, call.aborted)
           after == AfterAsk(call, answer)
<1>1. call.attempt \in 1..MaxAttempts /\ call.spent \in Nat /\ call.aborted \in BOOLEAN
  BY DEF Calls
<1>2. answer.usage \in Nat /\ answer.usage <= MaxUsage
  BY <1>1, AnswerType, AnswerBound
<1> HIDE DEF answer
<1>3. after.spent = call.spent + answer.usage /\ after.attempt = call.attempt + 1
  BY DEF AfterAsk, Calls
<1>4. \A a, u \in Nat : (a - 1) * u + u = a * u
  OBVIOUS
<1>5. \A a, b, c \in Nat : a <= b => a * c <= b * c
  OBVIOUS
<1>6. (call.attempt - 1) * MaxUsage + MaxUsage = call.attempt * MaxUsage
      /\ call.attempt * MaxUsage <= MaxAttempts * MaxUsage
  BY <1>1, <1>4, <1>5, CostTypes
<1>7. (call.attempt - 1) * MaxUsage \in Int /\ call.attempt * MaxUsage \in Int
      /\ MaxUsage \in Nat /\ MaxCall \in Nat
  BY <1>1, CostTypes
<1>8. after.spent <= call.attempt * MaxUsage /\ after.spent <= MaxCall
  BY <1>1, <1>2, <1>3, <1>6, <1>7 DEF MaxCall
<1>9. after.attempt - 1 = call.attempt
  BY <1>1, <1>3
<1> QED
  BY <1>8, <1>9 DEF answer

LEMMA EndRoleBudget ==
  ASSUME ServiceInv, BudgetInv, NEW s \in Slots, slot[s].pc = "roles",
         NEW cost \in Nat, cost <= MaxCall, NEW verdict, NEW proposals,
         verdict \in {"approve", "request-changes", "missing"},
         EndRole(s, cost, verdict, proposals), UNCHANGED facts
  PROVE  BudgetInv'
<1> DEFINE stated == Append(slot[s].stated, verdict)
           findings == Raise(drafts[s] \cup DraftsBy(s, RoleOf(s), proposals),
                             Read(s).index, Read(s).excluded)
           last == Len(stated) = Len(RoleOrder)
           tokens == slot[s].tokens + cost
           r == [slot[s] EXCEPT !.tokens = tokens, !.stated = stated,
                                !.call = NewCall, !.pc = IF last THEN "reconcile" ELSE "roles",
                                !.conclusion = IF last THEN Verdict(stated, findings) ELSE @]
<1>1. /\ slot[s] \in Reviews /\ slot[s].tokens \in Nat /\ spent \in Nat
      /\ slot[s].stated \in Seq({"approve", "request-changes", "missing"})
      /\ slot \in [Slots -> Reviews]
  BY DEF ServiceInv, TypeOK, Reviews
<1>2. slot' = [slot EXCEPT ![s] = r] /\ spent' = IF last THEN spent + tokens ELSE spent
  BY DEF EndRole
<1>3. Len(stated) = Len(slot[s].stated) + 1 /\ Len(slot[s].stated) \in Nat
  BY <1>1
<1>4. /\ r.stated = stated /\ r.tokens = tokens /\ r.call = NewCall
      /\ r.pc = (IF last THEN "reconcile" ELSE "roles")
  BY <1>1 DEF Reviews
<1> HIDE DEF stated, findings, r
<1>5. tokens <= Len(stated) * MaxCall
  <2>1. slot[s].tokens <= Len(slot[s].stated) * MaxCall
    BY DEF BudgetInv, Affordable
  <2>2. \A a, c \in Nat : (a + 1) * c = a * c + c /\ a * c \in Nat
    OBVIOUS
  <2>3. (Len(slot[s].stated) + 1) * MaxCall = Len(slot[s].stated) * MaxCall + MaxCall
        /\ Len(slot[s].stated) * MaxCall \in Nat /\ MaxCall \in Nat
    BY <1>3, <2>2, CostTypes
  <2> QED
    BY <1>1, <1>3, <2>1, <2>3
<1>6. Affordable(r)
  <2>1. NewCall.spent <= (NewCall.attempt - 1) * MaxUsage
    BY CostTypes DEF NewCall
  <2> QED
    BY <1>4, <1>5, <2>1 DEF Affordable
<1>7. CASE ~ last
  BY <1>2, <1>4, <1>6, <1>7, OneSlotBudget DEF Admitted
<1>8. CASE last
  <2>1. \A q \in Slots : slot'[q] = IF q = s THEN r ELSE slot[q]
    BY <1>1, <1>2
  <2>2. \A q \in Slots : Affordable(slot[q])'
    BY <1>6, <2>1 DEF BudgetInv, Affordable
  <2>3. UnderWay' = UnderWay \ {s} /\ s \in UnderWay
    BY <1>4, <1>8, <2>1 DEF UnderWay, Admitted
  <2> DEFINE more == Cardinality(UnderWay)
             fewer == Cardinality(UnderWay')
  <2>4. fewer = more - 1 /\ more \in Nat
    BY <2>3, CardTypes, FS_RemoveElement
  <2>5. PICK p \in Present :
          spent + Reservation(p) + more * MaxCost <= TokenBudget + Cardinality(Present) * MaxCost
    BY <2>3 DEF BudgetInv, Room
  <2>6. tokens <= MaxCost
    BY <1>5, <1>8, CostTypes
  <2> HIDE DEF more, fewer
  <2>7. \A a, c \in Nat : (a - 1) * c = a * c - c /\ a * c \in Nat
    OBVIOUS
  <2>8. fewer * MaxCost = more * MaxCost - MaxCost /\ more * MaxCost \in Nat
        /\ MaxCost \in Nat /\ Cardinality(Present) * MaxCost \in Nat
    BY <2>4, <2>7, CostTypes, CardTypes
  <2>9. Reservation(p) \in Int /\ TokenBudget \in Nat /\ tokens \in Nat
    BY <1>1, CardTypes
  <2> HIDE DEF tokens
  <2>10. (spent + tokens) + Reservation(p) + fewer * MaxCost
           <= TokenBudget + Cardinality(Present) * MaxCost
    BY <1>1, <2>5, <2>6, <2>8, <2>9
  <2>11. Room(spent, Cardinality(UnderWay))'
    <3>1. spent' = spent + tokens /\ Present' = Present /\ p \in Present'
          /\ Reservation(p)' = Reservation(p)
      BY <1>2, <1>8 DEF Present, Reservation
    <3> QED
      BY <2>10, <3>1 DEF Room, fewer
  <2> QED
    BY <2>2, <2>11 DEF BudgetInv
<1> QED
  BY <1>7, <1>8

LEMMA AnsweredBudget ==
  ASSUME ServiceInv, BudgetInv, NEW s \in Slots, Answered(s)
  PROVE  BudgetInv'
<1> DEFINE call == slot[s].call
           Given(stream) == AnswerOver(transport, stream, call.aborted)
<1>1. slot[s].pc = "roles" /\ UNCHANGED facts /\ slot[s] \in Reviews /\ call \in Calls
      /\ call.spent <= (call.attempt - 1) * MaxUsage
  BY DEF Answered, At, ServiceInv, TypeOK, Reviews, BudgetInv, Affordable
<1>2. PICK stream \in Streams :
        LET answer == Given(stream)
            cost == AfterAsk(call, answer).spent
        IN CASE answer.kind = "review" ->
                  \E verdict \in {"approve", "request-changes"},
                     proposals \in {{}} \cup {{p} : p \in facts[s].proposals[RoleOf(s)]} :
                    EndRole(s, cost, verdict, proposals)
             [] AsksAgain(call, answer) ->
                  /\ slot' = [slot EXCEPT ![s].call = AfterAsk(call, answer)]
                  /\ UNCHANGED <<drafts, spent>>
             [] OTHER -> EndRole(s, cost, "missing", {})
  BY DEF Answered
<1> DEFINE answer == Given(stream)
           cost == AfterAsk(call, answer).spent
<1>3. cost \in Nat /\ cost <= MaxCall
      /\ AfterAsk(call, answer).spent <= (AfterAsk(call, answer).attempt - 1) * MaxUsage
  BY <1>1, AnswerType, AskBound
<1> HIDE DEF answer, Given
<1>4. AsksAgain(call, answer) => answer.kind # "review"
  BY DEF AsksAgain
<1>5. CASE \E verdict \in {"approve", "request-changes", "missing"} : \E proposals :
             EndRole(s, cost, verdict, proposals)
  BY <1>1, <1>3, <1>5, EndRoleBudget
<1>6. CASE answer.kind = "review"
  <2>1. \E verdict \in {"approve", "request-changes"} : \E proposals :
           EndRole(s, cost, verdict, proposals)
    BY <1>2, <1>4, <1>6 DEF answer
  <2> QED
    BY <1>5, <2>1
<1>7. CASE AsksAgain(call, answer)
  <2> DEFINE after == AfterAsk(call, answer)
             r == [slot[s] EXCEPT !.call = after]
  <2>1. slot' = [slot EXCEPT ![s] = r] /\ UNCHANGED spent
    BY <1>2, <1>4, <1>7 DEF answer
  <2> HIDE DEF after
  <2>2. r.pc = slot[s].pc /\ r.stated = slot[s].stated /\ r.tokens = slot[s].tokens
        /\ r.call = after
    BY <1>1 DEF Reviews
  <2> HIDE DEF r
  <2>3. Affordable(r)
    BY <1>3, <2>2 DEF Affordable, BudgetInv, after
  <2> QED
    BY <1>1, <2>1, <2>2, <2>3, OneSlotBudget
<1>8. CASE answer.kind # "review" /\ ~ AsksAgain(call, answer)
  <2>1. EndRole(s, cost, "missing", {})
    BY <1>2, <1>8 DEF answer
  <2> QED
    BY <1>5, <2>1
<1> QED
  BY <1>6, <1>7, <1>8

(* The budget check lets a review through only with room for it; the       *)
(* others under way are at most one for each process.                      *)
LEMMA DiffBudget ==
  ASSUME ServiceInv, BudgetInv, NEW s \in Slots, CheckDiff(s)
  PROVE  BudgetInv'
<1>1. s \in Present /\ slot[s].pc = "diff" /\ UNCHANGED <<facts, spent>> /\ slot[s] \in Reviews
      /\ slot \in [Slots -> Reviews] /\ spent \in Nat
  BY DEF CheckDiff, At, rest, ServiceInv, TypeOK
<1>2. CASE GoTo(s, "allowance") /\ Allowed(spent, Reservation(s))
  <2> DEFINE r == [slot[s] EXCEPT !.pc = "allowance"]
  <2>1. slot' = [slot EXCEPT ![s] = r]
    BY <1>2 DEF GoTo
  <2>2. r.pc = "allowance" /\ r.stated = slot[s].stated /\ r.tokens = slot[s].tokens
        /\ r.call = slot[s].call
    BY <1>1 DEF Reviews
  <2> HIDE DEF r
  <2>3. \A q \in Slots : slot'[q] = IF q = s THEN r ELSE slot[q]
    BY <1>1, <2>1
  <2>4. \A q \in Slots : Affordable(slot[q])'
    BY <2>2, <2>3 DEF BudgetInv, Affordable
  <2>5. UnderWay' \subseteq Present
    BY <1>1, <2>3, CardTypes DEF UnderWay
  <2> DEFINE card == Cardinality(UnderWay')
  <2>6. card \in Nat /\ Cardinality(Present) \in Nat /\ card <= Cardinality(Present)
    BY <2>5, CardTypes, FS_Subset, FS_CardinalityType
  <2> HIDE DEF card
  <2>7. \A a, b, c \in Nat : a <= b => a * c <= b * c /\ a * c \in Nat /\ b * c \in Nat
    OBVIOUS
  <2>8. card * MaxCost <= Cardinality(Present) * MaxCost
        /\ {card * MaxCost, Cardinality(Present) * MaxCost} \subseteq Nat
    BY <2>6, <2>7, CostTypes
  <2>9. spent + Reservation(s) + card * MaxCost <= TokenBudget + Cardinality(Present) * MaxCost
    BY <1>1, <1>2, <2>8, CardTypes DEF Allowed
  <2>10. Room(spent, Cardinality(UnderWay))'
    <3>1. Present' = Present /\ Reservation(s)' = Reservation(s) /\ spent' = spent
      BY <1>1 DEF Present, Reservation
    <3> QED
      BY <1>1, <2>9, <3>1 DEF Room, card
  <2> QED
    BY <2>4, <2>10 DEF BudgetInv
<1>3. ASSUME NEW cause, StopWith(s, cause, "failure") PROVE BudgetInv'
  <2> DEFINE r == [slot[s] EXCEPT !.pc = "find", !.cause = cause, !.conclusion = "failure"]
  <2>1. slot' = [slot EXCEPT ![s] = r]
    BY <1>3 DEF StopWith
  <2>2. r.pc = "find" /\ r.stated = slot[s].stated /\ r.tokens = slot[s].tokens
        /\ r.call = slot[s].call
    BY <1>1 DEF Reviews
  <2> HIDE DEF r
  <2>3. Affordable(r)
    BY <2>2 DEF BudgetInv, Affordable
  <2> QED
    BY <1>1, <2>1, <2>2, <2>3, OneSlotBudget DEF Admitted
<1>4. (GoTo(s, "allowance") /\ Allowed(spent, Reservation(s)))
        \/ \E cause : StopWith(s, cause, "failure")
  BY DEF CheckDiff, StopOrGo
<1> QED
  BY <1>2, <1>3, <1>4

LEMMA GoBudget ==
  ASSUME ServiceInv, BudgetInv, NEW s \in Slots, NEW pc, GoTo(s, pc), UNCHANGED <<facts, spent>>,
         pc \in Admitted => slot[s].pc \in Admitted
  PROVE  BudgetInv'
<1> DEFINE r == [slot[s] EXCEPT !.pc = pc]
<1>1. slot' = [slot EXCEPT ![s] = r]
  BY DEF GoTo
<1>2. r.pc = pc /\ r.stated = slot[s].stated /\ r.tokens = slot[s].tokens
      /\ r.call = slot[s].call
  BY DEF ServiceInv, TypeOK, Reviews
<1> HIDE DEF r
<1>3. Affordable(r)
  BY <1>2 DEF BudgetInv, Affordable
<1> QED
  BY <1>1, <1>2, <1>3, OneSlotBudget

(* A review that starts over or is over has spent nothing. *)
LEMMA FreshBudget ==
  ASSUME ServiceInv, BudgetInv, NEW s \in Slots, NEW r, slot' = [slot EXCEPT ![s] = r],
         UNCHANGED <<facts, spent>>, r.pc \notin Admitted,
         r.call = NewCall, r.tokens = 0, r.stated = <<>>
  PROVE  BudgetInv'
<1>1. NewCall.spent = 0 /\ NewCall.attempt - 1 = 0
  BY DEF NewCall
<1>2. 0 * MaxUsage = 0 /\ 0 * MaxCall = 0 /\ Len(<<>>) = 0
  BY CostTypes
<1>3. Affordable(r)
  BY <1>1, <1>2 DEF Affordable
<1> QED
  BY <1>3, OneSlotBudget

LEMMA StepBudget == ASSUME ServiceInv, BudgetInv, [Next]_vars PROVE BudgetInv'
<1>1. ASSUME NEW s \in Slots, Begin(s) \/ Dies(s) PROVE BudgetInv'
  <2>1. PICK r : /\ slot' = [slot EXCEPT ![s] = r] /\ r.pc \in {"snapshot", "idle"}
                 /\ r.call = NewCall /\ r.tokens = 0 /\ r.stated = <<>>
    <3>1. \A pc : /\ NewReview(pc).pc = pc /\ NewReview(pc).call = NewCall
                  /\ NewReview(pc).tokens = 0 /\ NewReview(pc).stated = <<>>
      BY DEF NewReview
    <3>2. \E pc \in {"snapshot", "idle"} : slot' = [slot EXCEPT ![s] = NewReview(pc)]
      BY <1>1 DEF Begin, Dies
    <3> QED
      BY <3>1, <3>2
  <2>2. UNCHANGED <<facts, spent>>
    BY <1>1 DEF Begin, Dies, rest
  <2> QED
    BY <2>1, <2>2, FreshBudget DEF Admitted
<1>2. ASSUME NEW s \in Slots, ReadSnapshot(s) \/ ReadHistory(s) \/ OpenGate(s) \/ Reconcile(s)
      PROVE  BudgetInv'
  <2>1. UNCHANGED <<facts, spent>>
    BY <1>2 DEF ReadSnapshot, ReadHistory, OpenGate, Reconcile, rest
  <2>2. \E pc : GoTo(s, pc) /\ (pc \in Admitted => slot[s].pc \in Admitted)
    BY <1>2 DEF ReadSnapshot, ReadHistory, OpenGate, Reconcile, At, Admitted
  <2> QED
    BY <2>1, <2>2, GoBudget
<1>3. ASSUME NEW s \in Slots, NEW cause, NEW conclusion, StopWith(s, cause, conclusion),
             UNCHANGED rest
      PROVE  BudgetInv'
  <2> DEFINE r == [slot[s] EXCEPT !.pc = "find", !.cause = cause, !.conclusion = conclusion]
  <2>1. slot' = [slot EXCEPT ![s] = r] /\ UNCHANGED <<facts, spent>>
    BY <1>3 DEF StopWith, rest
  <2>2. r.pc = "find" /\ r.stated = slot[s].stated /\ r.tokens = slot[s].tokens
        /\ r.call = slot[s].call
    BY DEF ServiceInv, TypeOK, Reviews
  <2> HIDE DEF r
  <2>3. Affordable(r)
    BY <2>2 DEF BudgetInv, Affordable
  <2> QED
    BY <2>1, <2>2, <2>3, OneSlotBudget DEF Admitted
<1>4. ASSUME NEW s \in Slots, CheckPrerequisites(s) \/ CheckProgressOf(s) PROVE BudgetInv'
  <2>1. UNCHANGED rest
    BY <1>4 DEF CheckPrerequisites, CheckProgressOf
  <2>2. \/ \E pc \in {"history", "diff"} : GoTo(s, pc)
        \/ \E cause : \E conclusion : StopWith(s, cause, conclusion)
    BY <1>4 DEF CheckPrerequisites, CheckProgressOf, StopOrGo
  <2> QED
    BY <1>3, <2>1, <2>2, GoBudget DEF Admitted, rest
<1>5. ASSUME NEW s \in Slots, CheckDiff(s) PROVE BudgetInv'
  BY <1>5, DiffBudget
<1>6. ASSUME NEW s \in Slots, CheckAllowance(s) PROVE BudgetInv'
  <2>1. UNCHANGED rest /\ slot[s].pc \in Admitted
    BY <1>6 DEF CheckAllowance, At, Admitted
  <2>2. GoTo(s, "open") \/ \E cause : \E conclusion : StopWith(s, cause, conclusion)
    BY <1>6 DEF CheckAllowance
  <2> QED
    BY <1>3, <2>1, <2>2, GoBudget DEF rest
<1>7. ASSUME NEW s \in Slots, Answered(s) PROVE BudgetInv'
  BY <1>7, AnsweredBudget
<1>8. ASSUME NEW s \in Slots, DeadlineFires(s) PROVE BudgetInv'
  <2> DEFINE call == [slot[s].call EXCEPT !.aborted = TRUE]
             r == [slot[s] EXCEPT !.call = call]
  <2>1. slot' = [slot EXCEPT ![s] = r] /\ UNCHANGED <<facts, spent>>
    BY <1>8 DEF DeadlineFires, rest
  <2>2. call.spent = slot[s].call.spent /\ call.attempt = slot[s].call.attempt
    BY DEF ServiceInv, TypeOK, Reviews, Calls
  <2> HIDE DEF call
  <2>3. r.pc = slot[s].pc /\ r.stated = slot[s].stated /\ r.tokens = slot[s].tokens
        /\ r.call = call
    BY DEF ServiceInv, TypeOK, Reviews
  <2> HIDE DEF r
  <2>4. Affordable(r)
    BY <2>2, <2>3 DEF BudgetInv, Affordable
  <2> QED
    BY <2>1, <2>3, <2>4, OneSlotBudget
<1>9. ASSUME NEW s \in Slots, Report(s) \/ Comment(s) PROVE BudgetInv'
  <2> DEFINE r == [NewReview("ended") EXCEPT !.cause = slot[s].cause,
                                             !.conclusion = slot[s].conclusion]
  <2>1. r.pc = "ended" /\ r.call = NewCall /\ r.tokens = 0 /\ r.stated = <<>>
    BY DEF NewReview
  <2>2. slot' = [slot EXCEPT ![s] = r] /\ UNCHANGED <<facts, spent>>
    BY <1>9 DEF Report, Comment, Over
  <2> HIDE DEF r
  <2> QED
    BY <2>1, <2>2, FreshBudget DEF Admitted
<1>10. ASSUME NEW s \in Slots, FindIssue(s) PROVE BudgetInv'
  <2>1. UNCHANGED <<facts, spent>>
    BY <1>10 DEF FindIssue, rest
  <2>2. CASE GoTo(s, "comment")
    BY <2>1, <2>2, GoBudget DEF Admitted
  <2>3. CASE slot' = [slot EXCEPT ![s].pc = "deliver", ![s].found = Finds(s)]
    <3> DEFINE r == [slot[s] EXCEPT !.pc = "deliver", !.found = Finds(s)]
    <3>1. slot' = [slot EXCEPT ![s] = r]
      BY <2>3
    <3>2. r.pc = "deliver" /\ r.stated = slot[s].stated /\ r.tokens = slot[s].tokens
          /\ r.call = slot[s].call
      BY DEF ServiceInv, TypeOK, Reviews
    <3> HIDE DEF r
    <3>3. Affordable(r)
      BY <3>2 DEF BudgetInv, Affordable
    <3> QED
      BY <2>1, <3>1, <3>2, <3>3, OneSlotBudget DEF Admitted
  <2> QED
    BY <1>10, <2>2, <2>3 DEF FindIssue
<1>11. ASSUME NEW s \in Slots, DeliverIssue(s) PROVE BudgetInv'
  BY <1>11, GoBudget DEF DeliverIssue, Admitted
<1>12. CASE HumanCloses \/ UNCHANGED vars
  BY <1>12 DEF HumanCloses, vars, BudgetInv, Affordable, UnderWay, Room, Present, Reservation
<1> QED
  BY <1>1, <1>2, <1>4, <1>5, <1>6, <1>7, <1>8, <1>9, <1>10, <1>11, <1>12 DEF Next

(* For any number of processes that review at once, and whatever calls     *)
(* cost within MaxUsage, what the ledger adds up to exceeds the budget by  *)
(* no more than one review of each (ledger/tokens.ts, check, asked before  *)
(* the roles run and recorded only after the last one).                    *)
THEOREM BudgetIsHeld == Spec => []BudgetHeldUpToReviewsUnderWay
<1>1. Init => BudgetInv
  <2>1. Init => \A s \in Slots : Affordable(slot[s])
    <3>1. NewReview("idle").tokens = 0 /\ NewReview("idle").stated = <<>>
          /\ NewReview("idle").call.spent = 0 /\ NewReview("idle").call.attempt - 1 = 0
      BY DEF NewReview, NewCall
    <3>2. 0 * MaxUsage = 0 /\ 0 * MaxCall = 0 /\ Len(<<>>) = 0
      BY CostTypes
    <3> QED
      BY <3>1, <3>2 DEF Init, Affordable
  <2>2. Init => UnderWay = {} /\ ~ spent > 0
    BY DEF Init, UnderWay, Admitted, NewReview
  <2> QED
    BY <2>1, <2>2 DEF BudgetInv
<1>2. ServiceInv /\ BudgetInv => BudgetHeldUpToReviewsUnderWay
  <2> SUFFICES ASSUME ServiceInv, BudgetInv, spent > 0
               PROVE  \E s \in Present :
                        spent + Reservation(s) <= TokenBudget + Cardinality(Present) * MaxCost
    BY DEF BudgetHeldUpToReviewsUnderWay
  <2> DEFINE card == Cardinality(UnderWay)
  <2>1. PICK s \in Present :
          spent + Reservation(s) + card * MaxCost <= TokenBudget + Cardinality(Present) * MaxCost
    BY DEF BudgetInv, Room
  <2>2. card \in Nat /\ Cardinality(Present) \in Nat /\ MaxCost \in Nat /\ spent \in Nat
        /\ Reservation(s) \in Int /\ TokenBudget \in Nat
    BY CardTypes, CostTypes DEF ServiceInv, TypeOK
  <2> HIDE DEF card
  <2>3. card * MaxCost \in Nat /\ Cardinality(Present) * MaxCost \in Nat
    BY <2>2
  <2> QED
    BY <2>1, <2>2, <2>3
<1> QED
  BY <1>1, <1>2, InitInv, StepInv, StepBudget, PTL DEF Spec
=============================================================================
