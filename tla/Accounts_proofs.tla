-------------------------- MODULE Accounts_proofs --------------------------
(***************************************************************************)
(* What several reviews keep together: the tokens they spend, in the       *)
(* ledger or still owed, and the open issues they escalate to.             *)
(***************************************************************************)
EXTENDS Service_proofs, FoldLemmas, SequenceTheorems

---------------------------------------------------------------------------
(* Tokens *)

PendingTotal(reviews) == MapThenSumSet(LAMBDA s : Pending(reviews[s]), Slots)

(* What the reviews under way owe together is a sum, whatever the order in *)
(* which MapThenSumSet takes the slots.                                    *)
LEMMA PendingIsSum ==
  ASSUME NEW reviews, \A s \in Slots : Pending(reviews[s]) \in Int
  PROVE  \E total : /\ Additive(total, Slots, [s \in Slots |-> Pending(reviews[s])])
                    /\ total[Slots] = PendingTotal(reviews)
<1> DEFINE f == [s \in Slots |-> Pending(reviews[s])]
           pick == [X \in SUBSET Slots |-> CHOOSE x \in X : TRUE]
           Body(iter) ==
             [X \in SUBSET Slots |->
                IF X = {} THEN 0
                ELSE Pending(reviews[CHOOSE x \in X : TRUE]) + iter[X \ {CHOOSE x \in X : TRUE}]]
           total == CHOOSE iter : iter = Body(iter)
<1>1. PendingTotal(reviews) = total[Slots]
  BY DEF PendingTotal, MapThenSumSet, MapThenFoldSet
<1>2. \A X \in SUBSET Slots : X # {} => pick[X] \in X
  OBVIOUS
<1>3. f \in [Slots -> Int] /\ IsFiniteSet(Slots)
  BY ServiceAssumption
<1>4. PICK g : IsSum(g, Slots, f, pick)
  BY <1>2, <1>3, SumExists
<1>5. ASSUME NEW iter
      PROVE  Body(iter) = [X \in SUBSET Slots |->
                             IF X = {} THEN 0 ELSE f[pick[X]] + iter[X \ {pick[X]}]]
  <2>1. \A X \in SUBSET Slots : X # {} =>
          pick[X] = (CHOOSE x \in X : TRUE) /\ f[pick[X]] = Pending(reviews[CHOOSE x \in X : TRUE])
    BY <1>2
  <2> HIDE DEF f, pick
  <2> QED
    BY <2>1
<1> HIDE DEF f, pick, Body
<1>6. g = Body(g)
  BY <1>4, <1>5 DEF IsSum
<1>7. total = Body(total)
  BY <1>6
<1>8. IsSum(total, Slots, f, pick)
  BY <1>5, <1>7 DEF IsSum
<1> HIDE DEF total
<1>9. Additive(total, Slots, f)
  BY <1>2, <1>3, <1>8, SumIsAdditive
<1> QED
  BY <1>1, <1>9 DEF f

(* When one review changes, the total changes by as much. *)
LEMMA OnePendingChanges ==
  ASSUME NEW before, \A q \in Slots : Pending(before[q]) \in Int,
         NEW after, \A q \in Slots : Pending(after[q]) \in Int,
         NEW s \in Slots, \A q \in Slots \ {s} : after[q] = before[q]
  PROVE  /\ PendingTotal(after) = PendingTotal(before) + Pending(after[s]) - Pending(before[s])
         /\ PendingTotal(before) \in Int
<1> DEFINE f == [q \in Slots |-> Pending(before[q])]
           h == [q \in Slots |-> Pending(after[q])]
<1>1. PICK g : Additive(g, Slots, f) /\ g[Slots] = PendingTotal(before)
  BY PendingIsSum
<1>2. PICK k : Additive(k, Slots, h) /\ k[Slots] = PendingTotal(after)
  BY PendingIsSum
<1>3. /\ f \in [Slots -> Int] /\ h \in [Slots -> Int]
      /\ \A q \in Slots \ {s} : f[q] = h[q]
      /\ f[s] = Pending(before[s]) /\ h[s] = Pending(after[s])
  OBVIOUS
<1>4. IsFiniteSet(Slots)
  BY ServiceAssumption
<1> HIDE DEF f, h
<1>5. k[Slots] = g[Slots] + h[s] - f[s] /\ g[Slots] \in Int
  BY <1>1, <1>2, <1>3, <1>4, SumChanges
<1> QED
  BY <1>1, <1>2, <1>3, <1>5

LEMMA PendingType ==
  ASSUME NEW r \in Reviews
  PROVE  Pending(r) \in Nat
BY DEF Pending, Reviews, Calls

(* What a review owes as it moves, and what the ledger and the account of  *)
(* all asks do with it.                                                    *)
Balanced(s, r) ==
  /\ slot' = [slot EXCEPT ![s] = r]
  /\ spent' + Pending(r) - owed' = spent + Pending(slot[s]) - owed

LEMMA BalanceIsKept ==
  ASSUME ServiceInv, ServiceInv', TokensAreAccountedFor, NEW s \in Slots, NEW r, Balanced(s, r)
  PROVE  TokensAreAccountedFor'
<1>1. /\ \A q \in Slots : Pending(slot[q]) \in Nat /\ Pending(slot'[q]) \in Nat
      /\ spent \in Nat /\ owed \in Int /\ spent' \in Nat /\ owed' \in Int
  BY PendingType DEF ServiceInv, TypeOK
<1>2. \A q \in Slots : slot'[q] = IF q = s THEN r ELSE slot[q]
  BY DEF ServiceInv, TypeOK, Balanced
<1>3. /\ PendingTotal(slot') = PendingTotal(slot) + Pending(r) - Pending(slot[s])
      /\ PendingTotal(slot) \in Int
  BY <1>1, <1>2, OnePendingChanges
<1>4. spent + PendingTotal(slot) = owed
  BY DEF TokensAreAccountedFor, PendingTotal
<1>5. Pending(r) \in Nat /\ Pending(slot[s]) \in Nat
  BY <1>1, <1>2
<1>6. spent' + Pending(r) - owed' = spent + Pending(slot[s]) - owed
  BY DEF Balanced
<1>7. spent' + PendingTotal(slot') = owed'
  BY <1>1, <1>3, <1>4, <1>5, <1>6
<1> QED
  BY <1>7 DEF TokensAreAccountedFor, PendingTotal, MapThenSumSet, MapThenFoldSet

(* A step that touches neither the ledger nor the account, of a review     *)
(* that owes as much afterwards.                                           *)
LEMMA QuietIsBalanced ==
  ASSUME UNCHANGED <<spent, owed>>, NEW s, NEW r, slot' = [slot EXCEPT ![s] = r],
         Pending(r) = Pending(slot[s])
  PROVE  Balanced(s, r)
BY DEF Balanced

LEMMA EndRoleBalanced ==
  ASSUME ServiceInv, NEW s \in Slots, slot[s].pc = "roles", NEW usage \in Nat, NEW cost \in Nat,
         cost = slot[s].call.spent + usage, owed' = owed + usage,
         NEW verdict, NEW proposals, EndRole(s, cost, verdict, proposals)
  PROVE  \E r : Balanced(s, r)
<1> DEFINE stated == Append(slot[s].stated, verdict)
           findings == Raise(drafts[s] \cup DraftsBy(s, RoleOf(s), proposals),
                             Read(s).index, Read(s).excluded)
           last == Len(stated) = Len(RoleOrder)
           r == [slot[s] EXCEPT !.tokens = slot[s].tokens + cost, !.stated = stated,
                                !.call = NewCall, !.pc = IF last THEN "reconcile" ELSE "roles",
                                !.conclusion = IF last THEN Verdict(stated, findings) ELSE @]
<1>1. /\ slot[s] \in Reviews /\ slot[s].tokens \in Nat /\ slot[s].call.spent \in Nat
      /\ spent \in Nat /\ owed \in Int
  BY DEF ServiceInv, TypeOK, Reviews, Calls
<1>2. slot' = [slot EXCEPT ![s] = r] /\ spent' = IF last THEN spent + slot[s].tokens + cost
                                                ELSE spent
  BY <1>1 DEF EndRole
<1> HIDE DEF stated, findings
<1>3. /\ r.tokens = slot[s].tokens + cost /\ r.call = NewCall
      /\ r.pc = IF last THEN "reconcile" ELSE "roles"
  BY <1>1 DEF Reviews
<1>4. NewCall.spent = 0
  BY DEF NewCall
<1> HIDE DEF r
<1>5. Pending(slot[s]) = slot[s].tokens + slot[s].call.spent
  BY DEF Pending
<1>6. Pending(r) = IF last THEN 0 ELSE slot[s].tokens + cost
  BY <1>1, <1>3, <1>4 DEF Pending
<1> HIDE DEF last
<1>7. spent' + Pending(r) - owed' = spent + Pending(slot[s]) - owed
  <2>1. /\ spent' + Pending(r) = spent + slot[s].tokens + cost
        /\ spent' \in Int /\ Pending(r) \in Int
    BY <1>1, <1>2, <1>6
  <2> QED
    BY <1>1, <1>5, <2>1
<1> QED
  BY <1>2, <1>7 DEF Balanced

LEMMA AnsweredBalanced ==
  ASSUME ServiceInv, NEW s \in Slots, Answered(s)
  PROVE  \E r : Balanced(s, r)
<1> DEFINE call == slot[s].call
           Given(stream) == AnswerOver(transport, stream, call.aborted)
<1>1. /\ slot[s].pc = "roles" /\ slot[s] \in Reviews /\ call \in Calls /\ call.spent \in Nat
      /\ slot[s].tokens \in Nat /\ spent \in Nat /\ owed \in Int
  BY DEF Answered, At, ServiceInv, TypeOK, Reviews, Calls
<1>2. PICK stream \in Streams :
        LET answer == Given(stream)
            cost == AfterAsk(call, answer).spent
        IN /\ owed' = owed + answer.usage
           /\ CASE answer.kind = "review" ->
                     \E verdict \in {"approve", "request-changes"},
                        proposals \in {{}} \cup {{p} : p \in facts[s].proposals[RoleOf(s)]} :
                       EndRole(s, cost, verdict, proposals)
                [] AsksAgain(call, answer) ->
                     /\ slot' = [slot EXCEPT ![s].call = AfterAsk(call, answer)]
                     /\ UNCHANGED <<drafts, spent>>
                [] OTHER -> EndRole(s, cost, "missing", {})
  BY DEF Answered
<1> DEFINE answer == Given(stream)
           cost == AfterAsk(call, answer).spent
<1>3. answer.usage \in Nat /\ cost \in Nat
  BY <1>1, AnswerType
<1> HIDE DEF answer, Given
<1>4. cost = call.spent + answer.usage
  BY <1>1 DEF AfterAsk, Calls
<1>5. owed' = owed + answer.usage
  BY <1>2 DEF answer
<1>6. AsksAgain(call, answer) => answer.kind # "review"
  BY DEF AsksAgain
<1>7. CASE \E verdict : \E proposals : EndRole(s, cost, verdict, proposals)
  BY <1>1, <1>3, <1>4, <1>5, <1>7, EndRoleBalanced
<1>8. CASE answer.kind = "review"
  <2>1. \E verdict \in {"approve", "request-changes"} : \E proposals :
           EndRole(s, cost, verdict, proposals)
    BY <1>2, <1>6, <1>8 DEF answer
  <2> QED
    BY <1>7, <2>1
<1>9. CASE AsksAgain(call, answer)
  <2> DEFINE r == [slot[s] EXCEPT !.call = AfterAsk(call, answer)]
  <2>1. slot' = [slot EXCEPT ![s] = r] /\ spent' = spent
    BY <1>2, <1>6, <1>9 DEF answer
  <2>2. r.pc = "roles" /\ r.tokens = slot[s].tokens /\ r.call.spent = cost
    BY <1>1 DEF Reviews
  <2> HIDE DEF r
  <2>3. Pending(slot[s]) = slot[s].tokens + call.spent /\ Pending(r) = slot[s].tokens + cost
    BY <1>1, <2>2 DEF Pending
  <2>4. Balanced(s, r)
    BY <1>1, <1>3, <1>4, <1>5, <2>1, <2>3 DEF Balanced
  <2> QED
    BY <2>4
<1>10. CASE answer.kind # "review" /\ ~ AsksAgain(call, answer)
  <2>1. EndRole(s, cost, "missing", {})
    BY <1>2, <1>10 DEF answer
  <2> QED
    BY <1>7, <2>1
<1> QED
  BY <1>8, <1>9, <1>10

(* The other steps neither spend nor forget, but for a death. *)
LEMMA QuietBalanced ==
  ASSUME ServiceInv, NEW s \in Slots,
         \/ Begin(s) \/ ReadSnapshot(s) \/ CheckPrerequisites(s) \/ ReadHistory(s)
         \/ CheckProgressOf(s) \/ CheckDiff(s) \/ CheckAllowance(s) \/ OpenGate(s)
         \/ DeadlineFires(s) \/ Reconcile(s) \/ Report(s) \/ FindIssue(s) \/ DeliverIssue(s)
         \/ Comment(s) \/ Dies(s)
  PROVE  \E r : Balanced(s, r)
<1>1. slot[s] \in Reviews /\ spent \in Nat /\ owed \in Int /\ Holds(s, slot[s])
  BY DEF ServiceInv, TypeOK
<1>2. \A pc : NewReview(pc).pc = pc /\ NewReview(pc).tokens = 0 /\ NewReview(pc).call.spent = 0
  BY DEF NewReview, NewCall
<1>3. \A pc : Pending(NewReview(pc)) = 0
  BY <1>2 DEF Pending
<1>4. ASSUME UNCHANGED <<spent, owed>>, slot[s].pc # "roles",
             NEW pc, pc # "roles", GoTo(s, pc)
      PROVE  \E r : Balanced(s, r)
  <2> DEFINE r == [slot[s] EXCEPT !.pc = pc]
  <2>1. slot' = [slot EXCEPT ![s] = r] /\ r.pc = pc
    BY <1>1, <1>4 DEF GoTo, Reviews
  <2> HIDE DEF r
  <2>2. Pending(r) = 0 /\ Pending(slot[s]) = 0
    BY <1>4, <2>1 DEF Pending
  <2> QED
    BY <1>4, <2>1, <2>2, QuietIsBalanced
<1>5. ASSUME UNCHANGED <<spent, owed>>, slot[s].pc # "roles",
             NEW cause, NEW conclusion, StopWith(s, cause, conclusion)
      PROVE  \E r : Balanced(s, r)
  <2> DEFINE r == [slot[s] EXCEPT !.pc = "find", !.cause = cause, !.conclusion = conclusion]
  <2>1. slot' = [slot EXCEPT ![s] = r] /\ r.pc = "find"
    BY <1>1, <1>5 DEF StopWith, Reviews
  <2> HIDE DEF r
  <2>2. Pending(r) = 0 /\ Pending(slot[s]) = 0
    BY <1>5, <2>1 DEF Pending
  <2> QED
    BY <1>5, <2>1, <2>2, QuietIsBalanced
<1>6. CASE Begin(s)
  <2>1. slot' = [slot EXCEPT ![s] = NewReview("snapshot")] /\ slot[s].pc # "roles"
        /\ UNCHANGED <<spent, owed>>
    BY <1>6 DEF Begin, At, rest
  <2>2. Pending(slot[s]) = 0
    BY <2>1 DEF Pending
  <2> QED
    BY <1>3, <2>1, <2>2, QuietIsBalanced
<1>7. CASE ReadSnapshot(s) \/ ReadHistory(s) \/ Reconcile(s)
  BY <1>4, <1>7 DEF ReadSnapshot, ReadHistory, Reconcile, At, rest
<1>8. CASE CheckPrerequisites(s) \/ CheckProgressOf(s) \/ CheckDiff(s)
  <2>1. \E cause : \E pc \in {"history", "diff", "allowance"} : StopOrGo(s, cause, pc)
    BY <1>8 DEF CheckPrerequisites, CheckProgressOf, CheckDiff
  <2>2. slot[s].pc # "roles" /\ UNCHANGED <<spent, owed>>
    BY <1>8 DEF CheckPrerequisites, CheckProgressOf, CheckDiff, At, rest
  <2> QED
    BY <1>4, <1>5, <2>1, <2>2 DEF StopOrGo
<1>9. CASE CheckAllowance(s)
  <2>1. slot[s].pc # "roles" /\ UNCHANGED <<spent, owed>>
    BY <1>9 DEF CheckAllowance, At, rest
  <2> QED
    BY <1>4, <1>5, <1>9, <2>1 DEF CheckAllowance
<1>10. CASE OpenGate(s)
  <2> DEFINE r == [slot[s] EXCEPT !.pc = "roles"]
  <2>1. slot' = [slot EXCEPT ![s] = r] /\ UNCHANGED <<spent, owed>> /\ slot[s].pc = "open"
    BY <1>10 DEF OpenGate, GoTo, At, rest
  <2>2. slot[s].tokens = 0 /\ slot[s].call = NewCall
    BY <1>1, <2>1 DEF Holds, BeforeRoles
  <2>3. r.pc = "roles" /\ r.tokens = 0 /\ r.call.spent = 0
    BY <1>1, <2>2 DEF Reviews, NewCall
  <2> HIDE DEF r
  <2>4. Pending(r) = 0 /\ Pending(slot[s]) = 0
    BY <2>1, <2>3 DEF Pending
  <2> QED
    BY <2>1, <2>4, QuietIsBalanced
<1>11. CASE DeadlineFires(s)
  <2> DEFINE r == [slot[s] EXCEPT !.call = [slot[s].call EXCEPT !.aborted = TRUE]]
  <2>1. slot' = [slot EXCEPT ![s] = r] /\ UNCHANGED <<spent, owed>>
    BY <1>11 DEF DeadlineFires, rest
  <2>2. r.pc = slot[s].pc /\ r.tokens = slot[s].tokens /\ r.call.spent = slot[s].call.spent
    BY <1>1 DEF Reviews, Calls
  <2> HIDE DEF r
  <2>3. Pending(r) = Pending(slot[s])
    BY <2>2 DEF Pending
  <2> QED
    BY <2>1, <2>3, QuietIsBalanced
<1>12. CASE Report(s) \/ Comment(s)
  <2> DEFINE r == [NewReview("ended") EXCEPT !.cause = slot[s].cause,
                                             !.conclusion = slot[s].conclusion]
  <2>1. slot' = [slot EXCEPT ![s] = r] /\ UNCHANGED <<spent, owed>> /\ slot[s].pc # "roles"
    BY <1>12 DEF Report, Comment, Over, At
  <2>2. r.pc = "ended"
    BY DEF NewReview
  <2> HIDE DEF r
  <2>3. Pending(r) = 0 /\ Pending(slot[s]) = 0
    BY <2>1, <2>2 DEF Pending
  <2> QED
    BY <2>1, <2>3, QuietIsBalanced
<1>13. CASE FindIssue(s)
  <2>1. slot[s].pc = "find" /\ UNCHANGED <<spent, owed>>
    BY <1>13 DEF FindIssue, At, rest
  <2>2. CASE GoTo(s, "comment")
    BY <1>4, <2>1, <2>2
  <2>3. CASE slot' = [slot EXCEPT ![s].pc = "deliver", ![s].found = Finds(s)]
    <3> DEFINE r == [slot[s] EXCEPT !.pc = "deliver", !.found = Finds(s)]
    <3>1. slot' = [slot EXCEPT ![s] = r] /\ r.pc = "deliver"
      BY <1>1, <2>3 DEF Reviews
    <3> HIDE DEF r
    <3>2. Pending(r) = 0 /\ Pending(slot[s]) = 0
      BY <2>1, <3>1 DEF Pending
    <3> QED
      BY <2>1, <3>1, <3>2, QuietIsBalanced
  <2> QED
    BY <1>13, <2>2, <2>3 DEF FindIssue
<1>14. CASE DeliverIssue(s)
  BY <1>4, <1>14 DEF DeliverIssue, At
<1>15. CASE Dies(s)
  <2>1. /\ slot' = [slot EXCEPT ![s] = NewReview("idle")]
        /\ owed' = owed - Pending(slot[s]) /\ spent' = spent
    BY <1>15 DEF Dies
  <2>2. Pending(slot[s]) \in Nat /\ Pending(NewReview("idle")) = 0
    BY <1>1, <1>3, PendingType
  <2>3. Balanced(s, NewReview("idle"))
    BY <1>1, <2>1, <2>2 DEF Balanced
  <2> QED
    BY <2>3
<1> QED
  BY <1>6, <1>7, <1>8, <1>9, <1>10, <1>11, <1>12, <1>13, <1>14, <1>15

(* No retry, deadline, unmetered answer or missing verdict loses a token   *)
(* or counts it twice, however many processes share the ledger             *)
(* (agent-sdk.ts, review; composition.ts records after the last role).     *)
THEOREM NoTokenIsLost == Spec => []TokensAreAccountedFor
<1>1. Init => TokensAreAccountedFor
  <2> SUFFICES ASSUME Init PROVE spent + PendingTotal(slot) = owed
    BY DEF TokensAreAccountedFor, PendingTotal
  <2> DEFINE f == [s \in Slots |-> Pending(slot[s])]
  <2>1. \A s \in Slots : Pending(slot[s]) = 0
    BY DEF Init, Pending, NewReview
  <2>2. PICK g : Additive(g, Slots, f) /\ g[Slots] = PendingTotal(slot)
    BY <2>1, PendingIsSum
  <2>3. IsFiniteSet(Slots) /\ \A s \in Slots : f[s] = 0
    BY <2>1, ServiceAssumption
  <2> HIDE DEF f
  <2>4. g[Slots] = 0
    BY <2>2, <2>3, SumOfZeros
  <2> QED
    BY <2>2, <2>4 DEF Init
<1>2. ASSUME ServiceInv, ServiceInv', TokensAreAccountedFor, [Next]_vars
      PROVE  TokensAreAccountedFor'
  <2>1. ASSUME NEW s \in Slots, \E r : Balanced(s, r) PROVE TokensAreAccountedFor'
    BY <1>2, <2>1, BalanceIsKept
  <2>2. CASE UNCHANGED <<slot, spent, owed>>
    BY <1>2, <2>2 DEF TokensAreAccountedFor, MapThenSumSet, MapThenFoldSet
  <2> QED
    BY <1>2, <2>1, <2>2, QuietBalanced, AnsweredBalanced DEF Next, HumanCloses, vars
<1> QED
  BY <1>1, <1>2, InitInv, StepInv, PTL DEF Spec

---------------------------------------------------------------------------
(* Escalation issues *)

Copies(list, issue) == {i \in DOMAIN list : list[i] = issue}

LEMMA CopiesFinite ==
  ASSUME NEW V, NEW list \in Seq(V), NEW issue
  PROVE  IsFiniteSet(Copies(list, issue)) /\ Cardinality(Copies(list, issue)) \in Nat
<1>1. DOMAIN list = 1..Len(list) /\ Len(list) \in Nat
  OBVIOUS
<1>2. IsFiniteSet(1..Len(list))
  BY <1>1, FS_Interval
<1>3. Copies(list, issue) \in SUBSET (1..Len(list))
  BY <1>1 DEF Copies
<1> QED
  BY <1>2, <1>3, FS_Subset, FS_CardinalityType

(* A new issue goes to the front. *)
LEMMA CopiesInFront ==
  ASSUME NEW V, NEW list \in Seq(V), NEW new \in V, NEW issue
  PROVE  /\ <<new>> \o list \in Seq(V)
         /\ Cardinality(Copies(<<new>> \o list, issue)) =
              Cardinality(Copies(list, issue)) + IF new = issue THEN 1 ELSE 0
<1> DEFINE longer == <<new>> \o list
           Moved == {i + 1 : i \in Copies(list, issue)}
<1>1. /\ longer \in Seq(V) /\ Len(longer) = Len(list) + 1 /\ Len(list) \in Nat
      /\ DOMAIN list = 1..Len(list) /\ DOMAIN longer = 1..(Len(list) + 1)
      /\ longer[1] = new /\ \A i \in 1..Len(list) : longer[i + 1] = list[i]
  OBVIOUS
<1> HIDE DEF longer
<1>2. \A i \in Copies(longer, issue) : i = 1 \/ i - 1 \in Copies(list, issue)
  <2> TAKE i \in Copies(longer, issue)
  <2>1. i \in 1..(Len(list) + 1) /\ longer[i] = issue
    BY <1>1 DEF Copies
  <2>2. CASE i # 1
    <3>1. i - 1 \in 1..Len(list) /\ (i - 1) + 1 = i
      BY <1>1, <2>1, <2>2
    <3>2. list[i - 1] = issue
      BY <1>1, <2>1, <3>1
    <3> QED
      BY <1>1, <3>1, <3>2 DEF Copies
  <2> QED
    BY <2>2
<1>3. \A i \in Copies(list, issue) : i + 1 \in Copies(longer, issue) /\ i \in Nat /\ i # 0
  BY <1>1 DEF Copies
<1>4. 1 \in Copies(longer, issue) <=> new = issue
  BY <1>1 DEF Copies
<1>5. Copies(longer, issue) = Moved \cup IF new = issue THEN {1} ELSE {}
  <2>1. ASSUME NEW i \in Copies(longer, issue), i # 1 PROVE i \in Moved
    <3>1. i - 1 \in Copies(list, issue) /\ i \in Int
      BY <1>1, <1>2, <2>1 DEF Copies
    <3>2. (i - 1) + 1 = i
      BY <3>1
    <3> QED
      BY <3>1, <3>2
  <2> QED
    BY <1>3, <1>4, <2>1
<1>6. IsFiniteSet(Copies(list, issue)) /\ Cardinality(Copies(list, issue)) \in Nat
  BY CopiesFinite
<1>7. IsFiniteSet(Moved) /\ Cardinality(Moved) = Cardinality(Copies(list, issue))
  <2> DEFINE f == [i \in Copies(list, issue) |-> i + 1]
  <2>1. f \in Bijection(Copies(list, issue), Moved)
    BY <1>3 DEF Bijection, Injection, Surjection, IsInjective
  <2> QED
    BY <1>6, <2>1, FS_Bijection DEF ExistsBijection
<1>8. 1 \notin Moved
  BY <1>3
<1> HIDE DEF Moved
<1>9. new = issue => Cardinality(Moved \cup {1}) = Cardinality(Moved) + 1
  BY <1>7, <1>8, FS_AddElement
<1> QED
  BY <1>1, <1>5, <1>7, <1>9 DEF longer

(* Closing an issue leaves no more of any than there were. *)
LEMMA CopiesWithout ==
  ASSUME NEW V, NEW list \in Seq(V), NEW n \in DOMAIN list, NEW issue
  PROVE  /\ RemoveAt(list, n) \in Seq(V)
         /\ Cardinality(Copies(RemoveAt(list, n), issue)) <= Cardinality(Copies(list, issue))
<1> DEFINE shorter == RemoveAt(list, n)
           Place(i) == IF i < n THEN i ELSE i + 1
           f == [i \in Copies(shorter, issue) |-> Place(i)]
<1>1. /\ Len(list) \in Nat /\ n \in 1..Len(list) /\ DOMAIN list = 1..Len(list)
  OBVIOUS
<1>2. /\ shorter \in Seq(V) /\ Len(shorter) = Len(list) - 1
      /\ \A i \in 1..(Len(list) - 1) : shorter[i] = list[Place(i)]
  <2> DEFINE front == SubSeq(list, 1, n - 1)
             back == SubSeq(list, n + 1, Len(list))
  <2>1. /\ front \in Seq(V) /\ Len(front) = n - 1
        /\ \A i \in 1..(n - 1) : front[i] = list[i]
    BY <1>1
  <2>2. /\ back \in Seq(V) /\ Len(back) = Len(list) - n
        /\ \A i \in 1..(Len(list) - n) : back[i] = list[i + n]
    BY <1>1
  <2> HIDE DEF front, back
  <2>3. /\ front \o back \in Seq(V) /\ Len(front \o back) = Len(list) - 1
        /\ \A i \in 1..(Len(list) - 1) :
             (front \o back)[i] = IF i <= n - 1 THEN front[i] ELSE back[i - (n - 1)]
    <3>1. /\ front \o back \in Seq(V) /\ Len(front \o back) = Len(front) + Len(back)
          /\ \A i \in 1..(Len(front) + Len(back)) : (front \o back)[i] =
               IF i <= Len(front) THEN front[i] ELSE back[i - Len(front)]
      BY <2>1, <2>2, ConcatProperties
    <3>2. Len(front) + Len(back) = Len(list) - 1
      BY <1>1, <2>1, <2>2
    <3> QED
      BY <2>1, <3>1, <3>2
  <2>4. ASSUME NEW i \in 1..(Len(list) - 1) PROVE (front \o back)[i] = list[Place(i)]
    <3>1. CASE i < n
      <4>1. i \in 1..(n - 1) /\ Place(i) = i
        BY <1>1, <3>1
      <4> QED
        BY <2>1, <2>3, <4>1
    <3>2. CASE i >= n
      <4> DEFINE j == i - (n - 1)
      <4>1. /\ j \in 1..(Len(list) - n) /\ j + n = i + 1 /\ ~ (i <= n - 1)
            /\ Place(i) = i + 1
        BY <1>1, <3>2
      <4>2. (front \o back)[i] = back[j]
        BY <2>3, <4>1
      <4> HIDE DEF j
      <4>3. back[j] = list[j + n]
        BY <2>2, <4>1
      <4> QED
        BY <4>1, <4>2, <4>3
    <3>3. i < n \/ i >= n
      BY <1>1
    <3> QED
      BY <3>1, <3>2, <3>3
  <2> QED
    BY <2>3, <2>4 DEF RemoveAt, front, back
<1> HIDE DEF shorter
<1>3. \A i \in Copies(shorter, issue) : i \in 1..(Len(list) - 1) /\ list[Place(i)] = issue
  BY <1>1, <1>2 DEF Copies
<1>4. \A i \in Copies(shorter, issue) : Place(i) \in Copies(list, issue)
  BY <1>1, <1>3 DEF Copies
<1>5. \A i, j \in Copies(shorter, issue) : Place(i) = Place(j) => i = j
  BY <1>1, <1>3
<1> HIDE DEF Place
<1>6. f \in Injection(Copies(shorter, issue), Copies(list, issue))
  BY <1>4, <1>5 DEF Injection, IsInjective
<1>7. IsFiniteSet(Copies(list, issue))
  BY CopiesFinite
<1>8. Cardinality(Copies(shorter, issue)) <= Cardinality(Copies(list, issue))
  BY <1>6, <1>7, FS_Injection
<1> QED
  BY <1>2, <1>8 DEF shorter

(* A page of the search for open issues with the label has 100 of them. *)
OnePage == Len(issues) <= 100

IssueKeys == [pullRequest : {facts[s].pullRequest : s \in Present}, cause : Causes]

(* Who has looked for an issue, has not found it, and may still create it *)
Posters(issue) ==
  {s \in Present : slot[s].pc = "deliver" /\ ~ slot[s].found /\ Issue(s) = issue}

(* An issue is open as often as processes that missed it have created it;  *)
(* those that are about to create it are counted beforehand.               *)
IssueInv ==
  /\ issues \in Seq(IssueKeys)
  /\ \A issue \in IssueKeys :
       Cardinality(Copies(issues, issue)) + Cardinality(Posters(issue)) <= Cardinality(Present)

LEMMA PresentFinite ==
  ASSUME ServiceInv
  PROVE  /\ IsFiniteSet(Present) /\ Cardinality(Present) \in Nat
         /\ \A X \in SUBSET Present : /\ IsFiniteSet(X) /\ Cardinality(X) \in Nat
                                      /\ Cardinality(X) <= Cardinality(Present)
<1>1. Present \in SUBSET Slots /\ IsFiniteSet(Slots)
  BY PresentIsSlots, ServiceAssumption
<1>2. IsFiniteSet(Present)
  BY <1>1, FS_Subset
<1> QED
  BY <1>2, FS_Subset, FS_CardinalityType

LEMMA IssueIsKey ==
  ASSUME ServiceInv, NEW s \in Present
  PROVE  Issue(s) \in IssueKeys
BY PresentIsSlots DEF ServiceInv, TypeOK, Reviews, Issue, IssueKeys

(* No review joins those about to create an issue. *)
LEMMA NobodyJoins ==
  ASSUME ServiceInv, IssueInv, UNCHANGED <<facts, issues>>,
         \A q \in Present : \/ slot'[q] = slot[q] \/ slot'[q].pc # "deliver"
                            \/ slot'[q].found
  PROVE  IssueInv'
<1>1. UNCHANGED Present /\ UNCHANGED IssueKeys
  BY DEF Present, IssueKeys
<1>2. ASSUME NEW issue \in IssueKeys
      PROVE  Cardinality(Posters(issue)') <= Cardinality(Posters(issue))
             /\ Cardinality(Posters(issue)') \in Nat /\ Cardinality(Posters(issue)) \in Nat
  <2>1. Posters(issue) \in SUBSET Present
    BY DEF Posters
  <2>2. IsFiniteSet(Posters(issue)) /\ Cardinality(Posters(issue)) \in Nat
    BY <2>1, PresentFinite
  <2>3. Posters(issue)' \in SUBSET Posters(issue)
    BY <1>1 DEF Posters, Issue
  <2> QED
    BY <2>2, <2>3, FS_Subset, FS_CardinalityType
<1>3. ASSUME NEW issue \in IssueKeys
      PROVE  Cardinality(Copies(issues, issue)) + Cardinality(Posters(issue)')
               <= Cardinality(Present)
  <2>1. Cardinality(Copies(issues, issue)) \in Nat /\ Cardinality(Present) \in Nat
    BY CopiesFinite, PresentFinite DEF IssueInv
  <2>2. Cardinality(Copies(issues, issue)) + Cardinality(Posters(issue)) <= Cardinality(Present)
    BY DEF IssueInv
  <2> QED
    BY <1>2, <2>1, <2>2
<1> QED
  BY <1>1, <1>3 DEF IssueInv

(* A process that misses an issue on a full view of the open ones joins    *)
(* when there is none.                                                     *)
LEMMA SearchKeepsIssues ==
  ASSUME ServiceInv, IssueInv, OnePage, NEW s \in Slots, FindIssue(s)
  PROVE  IssueInv'
<1>1. /\ s \in Present /\ slot[s].pc = "find" /\ UNCHANGED <<facts, issues>>
      /\ slot[s] \in Reviews /\ slot \in [Slots -> Reviews]
  BY DEF FindIssue, At, rest, ServiceInv, TypeOK
<1>2. CASE GoTo(s, "comment")
  <2>1. \A q \in Present : slot'[q] = slot[q] \/ slot'[q].pc # "deliver"
    BY <1>1, <1>2, PresentIsSlots DEF GoTo, Reviews
  <2> QED
    BY <1>1, <2>1, NobodyJoins
<1>3. ASSUME slot' = [slot EXCEPT ![s].pc = "deliver", ![s].found = Finds(s)]
      PROVE  IssueInv'
  <2>1. /\ slot'[s].found = Finds(s) /\ slot'[s].cause = slot[s].cause
        /\ \A q \in Present \ {s} : slot'[q] = slot[q]
    BY <1>1, <1>3, PresentIsSlots DEF Reviews
  <2>2. CASE Finds(s)
    BY <1>1, <2>1, <2>2, NobodyJoins
  <2>3. CASE ~ Finds(s)
    <3>1. Copies(issues, Issue(s)) = {}
      <4>1. issues \in Seq(IssueKeys)
        BY DEF IssueInv
      <4>2. \A i \in DOMAIN issues : i <= 100
        BY <4>1 DEF OnePage
      <4> QED
        BY <2>3, <4>2 DEF Finds, Copies
    <3>2. UNCHANGED Present /\ UNCHANGED IssueKeys
      BY <1>1 DEF Present, IssueKeys
    <3>3. ASSUME NEW issue \in IssueKeys
          PROVE  Cardinality(Copies(issues, issue)) + Cardinality(Posters(issue)')
                   <= Cardinality(Present)
      <4>1. CASE issue = Issue(s)
        <5>1. Cardinality(Copies(issues, issue)) = 0
          BY <3>1, <4>1, FS_EmptySet
        <5>2. Posters(issue)' \in SUBSET Present
          BY <3>2 DEF Posters
        <5>3. Cardinality(Posters(issue)') \in Nat
              /\ Cardinality(Posters(issue)') <= Cardinality(Present)
              /\ Cardinality(Present) \in Nat
          BY <5>2, PresentFinite
        <5> QED
          BY <5>1, <5>3
      <4>2. CASE issue # Issue(s)
        <5>1. Issue(s)' = Issue(s)
          BY <1>1, <2>1 DEF Issue
        <5>2. Posters(issue)' = Posters(issue)
          BY <1>1, <2>1, <3>2, <4>2, <5>1 DEF Posters, Issue
        <5> QED
          BY <5>2 DEF IssueInv
      <4> QED
        BY <4>1, <4>2
    <3> QED
      BY <1>1, <3>2, <3>3 DEF IssueInv
  <2> QED
    BY <2>2, <2>3
<1> QED
  BY <1>2, <1>3 DEF FindIssue

(* Creating an issue takes one off those about to create it. *)
LEMMA DeliveryKeepsIssues ==
  ASSUME ServiceInv, IssueInv, NEW s \in Slots, DeliverIssue(s)
  PROVE  IssueInv'
<1>1. /\ s \in Present /\ slot[s].pc = "deliver" /\ UNCHANGED facts
      /\ slot[s] \in Reviews /\ slot \in [Slots -> Reviews] /\ GoTo(s, "comment")
  BY DEF DeliverIssue, At, ServiceInv, TypeOK
<1>2. slot'[s].pc = "comment" /\ \A q \in Present \ {s} : slot'[q] = slot[q]
  BY <1>1, PresentIsSlots DEF GoTo, Reviews
<1>3. CASE issues' = issues
  BY <1>1, <1>2, <1>3, NobodyJoins
<1>4. CASE ~ slot[s].found /\ issues' = <<Issue(s)>> \o issues
  <2>1. UNCHANGED Present /\ UNCHANGED IssueKeys
    BY <1>1 DEF Present, IssueKeys
  <2>2. issues \in Seq(IssueKeys) /\ Issue(s) \in IssueKeys
    BY <1>1, IssueIsKey DEF IssueInv
  <2>3. ASSUME NEW issue \in IssueKeys
        PROVE  Cardinality(Copies(issues', issue)) + Cardinality(Posters(issue)')
                 <= Cardinality(Present)
    <3>1. Cardinality(Copies(issues', issue)) =
            Cardinality(Copies(issues, issue)) + IF Issue(s) = issue THEN 1 ELSE 0
      BY <1>4, <2>2, CopiesInFront
    <3>2. Cardinality(Copies(issues, issue)) \in Nat /\ Cardinality(Present) \in Nat
      BY <2>2, CopiesFinite, PresentFinite
    <3>3. Posters(issue) \in SUBSET Present
      BY DEF Posters
    <3>4. IsFiniteSet(Posters(issue)) /\ Cardinality(Posters(issue)) \in Nat
      BY <3>3, PresentFinite
    <3>5. Posters(issue)' = Posters(issue) \ {s}
      BY <1>1, <1>2, <2>1 DEF Posters, Issue
    <3>6. s \in Posters(issue) <=> Issue(s) = issue
      BY <1>1, <1>4 DEF Posters
    <3>7. Cardinality(Posters(issue)') =
            IF s \in Posters(issue) THEN Cardinality(Posters(issue)) - 1
                                    ELSE Cardinality(Posters(issue))
      BY <3>4, <3>5, FS_RemoveElement
    <3>8. Cardinality(Copies(issues, issue)) + Cardinality(Posters(issue))
            <= Cardinality(Present)
      BY DEF IssueInv
    <3>9. CASE Issue(s) = issue
      BY <3>1, <3>2, <3>4, <3>6, <3>7, <3>8, <3>9
    <3>10. CASE Issue(s) # issue
      BY <3>1, <3>2, <3>4, <3>6, <3>7, <3>8, <3>10
    <3> QED
      BY <3>9, <3>10
  <2>4. issues' \in Seq(IssueKeys)
    BY <1>4, <2>2, CopiesInFront
  <2> QED
    BY <2>1, <2>3, <2>4 DEF IssueInv
<1> QED
  BY <1>3, <1>4 DEF DeliverIssue

LEMMA ClosingKeepsIssues == ASSUME ServiceInv, IssueInv, HumanCloses PROVE IssueInv'
<1>1. PICK n \in DOMAIN issues : issues' = RemoveAt(issues, n)
  BY DEF HumanCloses
<1>2. /\ issues \in Seq(IssueKeys) /\ UNCHANGED Present /\ UNCHANGED IssueKeys
      /\ \A issue : Posters(issue)' = Posters(issue)
  BY DEF IssueInv, HumanCloses, Present, IssueKeys, Posters, Issue
<1>3. ASSUME NEW issue \in IssueKeys
      PROVE  Cardinality(Copies(issues', issue)) + Cardinality(Posters(issue))
               <= Cardinality(Present)
  <2>1. Cardinality(Copies(issues', issue)) <= Cardinality(Copies(issues, issue))
        /\ issues' \in Seq(IssueKeys)
    BY <1>1, <1>2, CopiesWithout
  <2>2. /\ Cardinality(Copies(issues', issue)) \in Nat
        /\ Cardinality(Copies(issues, issue)) \in Nat
    BY <1>2, <2>1, CopiesFinite
  <2>3. Posters(issue) \in SUBSET Present
    BY DEF Posters
  <2>4. Cardinality(Posters(issue)) \in Nat /\ Cardinality(Present) \in Nat
    BY <2>3, PresentFinite
  <2>5. Cardinality(Copies(issues, issue)) + Cardinality(Posters(issue)) <= Cardinality(Present)
    BY DEF IssueInv
  <2> QED
    BY <2>1, <2>2, <2>4, <2>5
<1>4. issues' \in Seq(IssueKeys)
  BY <1>1, <1>2, CopiesWithout
<1> QED
  BY <1>2, <1>3, <1>4 DEF IssueInv

(* The other steps have to do with no issue. *)
LEMMA OthersKeepIssues ==
  ASSUME ServiceInv, IssueInv, NEW s \in Slots,
         \/ Begin(s) \/ ReadSnapshot(s) \/ CheckPrerequisites(s) \/ ReadHistory(s)
         \/ CheckProgressOf(s) \/ CheckDiff(s) \/ CheckAllowance(s) \/ OpenGate(s)
         \/ Answered(s) \/ DeadlineFires(s) \/ Reconcile(s) \/ Report(s)
         \/ Comment(s) \/ Dies(s)
  PROVE  IssueInv'
<1>1. slot[s] \in Reviews /\ slot \in [Slots -> Reviews]
  BY DEF ServiceInv, TypeOK
<1>2. ASSUME NEW r, slot' = [slot EXCEPT ![s] = r], r.pc # "deliver", UNCHANGED <<facts, issues>>
      PROVE  IssueInv'
  <2>1. \A q \in Present : slot'[q] = slot[q] \/ slot'[q].pc # "deliver"
    BY <1>1, <1>2, PresentIsSlots
  <2> QED
    BY <1>2, <2>1, NobodyJoins
<1>3. ASSUME NEW pc, pc # "deliver", GoTo(s, pc), UNCHANGED <<facts, issues>>
      PROVE  IssueInv'
  <2> DEFINE r == [slot[s] EXCEPT !.pc = pc]
  <2>1. slot' = [slot EXCEPT ![s] = r] /\ r.pc = pc
    BY <1>1, <1>3 DEF GoTo, Reviews
  <2> QED
    BY <1>2, <1>3, <2>1
<1>4. ASSUME NEW cause, NEW conclusion, StopWith(s, cause, conclusion),
             UNCHANGED <<facts, issues>>
      PROVE  IssueInv'
  <2> DEFINE r == [slot[s] EXCEPT !.pc = "find", !.cause = cause, !.conclusion = conclusion]
  <2>1. slot' = [slot EXCEPT ![s] = r] /\ r.pc = "find"
    BY <1>1, <1>4 DEF StopWith, Reviews
  <2> QED
    BY <1>2, <1>4, <2>1
<1>5. CASE Begin(s) \/ Dies(s)
  <2>1. PICK pc \in {"snapshot", "idle"} : slot' = [slot EXCEPT ![s] = NewReview(pc)]
    BY <1>5 DEF Begin, Dies
  <2>2. NewReview(pc).pc = pc /\ pc # "deliver" /\ UNCHANGED <<facts, issues>>
    BY <1>5 DEF NewReview, Begin, Dies, rest
  <2> QED
    BY <1>2, <2>1, <2>2
<1>6. CASE ReadSnapshot(s) \/ ReadHistory(s) \/ OpenGate(s) \/ Reconcile(s)
  BY <1>3, <1>6 DEF ReadSnapshot, ReadHistory, OpenGate, Reconcile, rest
<1>7. CASE CheckPrerequisites(s) \/ CheckProgressOf(s) \/ CheckDiff(s)
  <2>1. \E cause : \E pc \in {"history", "diff", "allowance"} : StopOrGo(s, cause, pc)
    BY <1>7 DEF CheckPrerequisites, CheckProgressOf, CheckDiff
  <2>2. UNCHANGED <<facts, issues>>
    BY <1>7 DEF CheckPrerequisites, CheckProgressOf, CheckDiff, rest
  <2> QED
    BY <1>3, <1>4, <2>1, <2>2 DEF StopOrGo
<1>8. CASE CheckAllowance(s)
  <2>1. UNCHANGED <<facts, issues>>
    BY <1>8 DEF CheckAllowance, rest
  <2> QED
    BY <1>3, <1>4, <1>8, <2>1 DEF CheckAllowance
<1>9. CASE Report(s) \/ Comment(s)
  <2> DEFINE r == [NewReview("ended") EXCEPT !.cause = slot[s].cause,
                                             !.conclusion = slot[s].conclusion]
  <2>1. slot' = [slot EXCEPT ![s] = r] /\ UNCHANGED <<facts, issues>>
    BY <1>9 DEF Report, Comment, Over
  <2>2. r.pc = "ended"
    BY DEF NewReview
  <2> HIDE DEF r
  <2> QED
    BY <1>2, <2>1, <2>2
<1>10. ASSUME At(s, "roles"), NEW f, slot' = [slot EXCEPT ![s] = [slot[s] EXCEPT !.call = f]],
              UNCHANGED <<facts, issues>>
       PROVE  IssueInv'
  <2>1. [slot[s] EXCEPT !.call = f].pc = "roles"
    BY <1>1, <1>10 DEF At, Reviews
  <2> QED
    BY <1>2, <1>10, <2>1
<1>11. CASE DeadlineFires(s)
  <2>1. slot' = [slot EXCEPT ![s] = [slot[s] EXCEPT !.call = [slot[s].call EXCEPT !.aborted = TRUE]]]
    BY <1>11 DEF DeadlineFires
  <2> QED
    BY <1>10, <1>11, <2>1 DEF DeadlineFires, rest
<1>12. CASE Answered(s)
  <2>1. UNCHANGED <<facts, issues>> /\ At(s, "roles")
    BY <1>12 DEF Answered
  <2>2. ASSUME NEW cost, NEW verdict, NEW proposals, EndRole(s, cost, verdict, proposals)
        PROVE  IssueInv'
    <3> DEFINE stated == Append(slot[s].stated, verdict)
               findings == Raise(drafts[s] \cup DraftsBy(s, RoleOf(s), proposals),
                                 Read(s).index, Read(s).excluded)
               last == Len(stated) = Len(RoleOrder)
               r == [slot[s] EXCEPT !.tokens = slot[s].tokens + cost, !.stated = stated,
                                    !.call = NewCall, !.pc = IF last THEN "reconcile" ELSE "roles",
                                    !.conclusion = IF last THEN Verdict(stated, findings) ELSE @]
    <3>1. slot' = [slot EXCEPT ![s] = r]
      BY <2>2 DEF EndRole
    <3> HIDE DEF stated, findings, last
    <3>2. r.pc # "deliver"
      BY <1>1 DEF Reviews
    <3> HIDE DEF r
    <3> QED
      BY <1>2, <2>1, <3>1, <3>2
  <2>3. ASSUME NEW answer, slot' = [slot EXCEPT ![s].call = AfterAsk(slot[s].call, answer)]
        PROVE  IssueInv'
    <3>1. slot' = [slot EXCEPT ![s] = [slot[s] EXCEPT !.call = AfterAsk(slot[s].call, answer)]]
      BY <2>3
    <3> QED
      BY <1>10, <2>1, <3>1
  <2> QED
    BY <1>12, <2>2, <2>3 DEF Answered
<1> QED
  BY <1>5, <1>6, <1>7, <1>8, <1>9, <1>11, <1>12

(* While there are no more open issues with the label than one page of the *)
(* search holds, an issue is open at most once for each process that may   *)
(* have looked for it at the same time, however often its cause recurs     *)
(* (escalate.ts looks among the first 100; beyond that page it no longer   *)
(* sees what it created, so the condition is not idle).                    *)
THEOREM IssuesAreUpdated == Spec /\ []OnePage => []IssuesAreNotRepeated
<1>1. Init => IssueInv
  <2> SUFFICES ASSUME Init PROVE IssueInv
    OBVIOUS
  <2>1. ServiceInv /\ issues = <<>> /\ \A s \in Slots : slot[s].pc = "idle"
    BY InitInv DEF Init, NewReview
  <2>2. \A issue : Copies(issues, issue) = {} /\ Posters(issue) = {}
    BY <2>1, PresentIsSlots DEF Copies, Posters
  <2>3. Cardinality({}) = 0 /\ Cardinality(Present) \in Nat
    BY <2>1, FS_EmptySet, PresentFinite
  <2>4. issues \in Seq(IssueKeys)
    BY <2>1
  <2>5. \A issue : Cardinality(Copies(issues, issue)) = 0 /\ Cardinality(Posters(issue)) = 0
    BY <2>2, <2>3
  <2>6. 0 + 0 <= Cardinality(Present)
    BY <2>3
  <2> QED
    BY <2>4, <2>5, <2>6 DEF IssueInv
<1>2. ServiceInv /\ IssueInv /\ OnePage /\ [Next]_vars => IssueInv'
  <2> SUFFICES ASSUME ServiceInv, IssueInv, OnePage, [Next]_vars PROVE IssueInv'
    OBVIOUS
  <2>1. CASE UNCHANGED vars
    BY <2>1, NobodyJoins DEF vars
  <2>2. CASE HumanCloses
    BY <2>2, ClosingKeepsIssues
  <2>3. ASSUME NEW s \in Slots, FindIssue(s) PROVE IssueInv'
    BY <2>3, SearchKeepsIssues
  <2>4. ASSUME NEW s \in Slots, DeliverIssue(s) PROVE IssueInv'
    BY <2>4, DeliveryKeepsIssues
  <2> QED
    BY <2>1, <2>2, <2>3, <2>4, OthersKeepIssues DEF Next
<1>3. ServiceInv /\ IssueInv => IssuesAreNotRepeated
  <2> SUFFICES ASSUME ServiceInv, IssueInv, NEW issue \in ToSet(issues)
               PROVE  Cardinality(Copies(issues, issue)) <= Cardinality(Present)
    BY DEF IssuesAreNotRepeated, Copies
  <2>1. issues \in Seq(IssueKeys) /\ issue \in IssueKeys
    BY DEF IssueInv, ToSet
  <2>2. Posters(issue) \in SUBSET Present
    BY DEF Posters
  <2>3. /\ Cardinality(Copies(issues, issue)) \in Nat /\ Cardinality(Posters(issue)) \in Nat
        /\ Cardinality(Present) \in Nat
    BY <2>1, <2>2, CopiesFinite, PresentFinite
  <2>4. Cardinality(Copies(issues, issue)) + Cardinality(Posters(issue)) <= Cardinality(Present)
    BY <2>1 DEF IssueInv
  <2> QED
    BY <2>3, <2>4
<1> QED
  BY <1>1, <1>2, <1>3, InitInv, StepInv, PTL DEF Spec
=============================================================================
