----------------------------- MODULE ModelCall -----------------------------
(***************************************************************************)
(* One role's model call, over either transport: the harness of            *)
(* model/agent-sdk.ts, which may be asked a second time under the same     *)
(* deadline, and the API of model/anthropic.ts, which is asked once.       *)
(*                                                                         *)
(* What comes back is a stream: how it ended, the usage its result states, *)
(* and what its text is.  What the service makes of it is an answer: a     *)
(* review, an answer that misses the schema, or a failure, each with the   *)
(* tokens it is taken to have cost.                                        *)
(***************************************************************************)
EXTENDS Integers

CONSTANTS
  MaxAttempts,      \* MAX_ATTEMPTS
  Floor             \* the tokens of the prompt sent, counted from its length

ASSUME ModelCallAssumption == {MaxAttempts, Floor} \subseteq Nat \ {0}

NoUsage == -1       \* the result carried no usage, or there was no result
Endings == {"threw", "errored", "success"}
Texts == {"none", "malformed", "review"}

Answer(kind, usage) == [kind |-> kind, usage |-> usage]

(* usage ?? floor: a usage of zero is a usage. *)
UsageOrFloor(usage) == IF usage = NoUsage THEN Floor ELSE usage

(* Slip: usage that was never counted is taken for zero. *)
AskUnmetered(stream, aborted) ==
  IF stream.ended # "success" \/ aborted THEN Answer("failed", UsageOrFloor(stream.usage))
  ELSE Answer(stream.text, IF stream.usage = NoUsage THEN 0 ELSE stream.usage)

(* One ask.  The order of the checks decides what a failure costs.  A      *)
(* refused tool ends the turn with an error.                               *)
Ask(stream, aborted) ==
  CASE stream.ended = "threw" \/ aborted \/ stream.ended = "errored" ->
         Answer("failed", UsageOrFloor(stream.usage))
    [] stream.ended = "success" /\ ~ aborted ->
         IF stream.usage \in {NoUsage, 0} THEN Answer("failed", Floor)
         ELSE IF stream.text = "none" THEN Answer("failed", stream.usage)
         ELSE Answer(stream.text, stream.usage)

(* The API reaches a response or it does not; usage it does not state      *)
(* counts as zero, and nothing is asked again.                             *)
AskAPI(stream) ==
  LET usage == IF stream.usage = NoUsage THEN 0 ELSE stream.usage IN
  CASE stream.ended \in {"threw", "errored"} -> Answer("failed", 0)
    [] stream.ended = "success" ->
         Answer(IF stream.text = "review" THEN "review" ELSE "failed", usage)

AnswerOver(transport, stream, aborted) ==
  IF transport = "agent-sdk" THEN Ask(stream, aborted) ELSE AskAPI(stream)

---------------------------------------------------------------------------
(* review: the asks of one call, under one deadline *)

NewCall == [attempt |-> 1, aborted |-> FALSE, spent |-> 0]

(* Slip: asked again for as long as there is time. *)
AsksAgainWhileThereIsTime(call, answer) == answer.kind = "malformed" /\ ~ call.aborted

(* isSchemaViolation, an attempt left, and a deadline that has not fired *)
AsksAgain(call, answer) ==
  answer.kind = "malformed" /\ call.attempt < MaxAttempts /\ ~ call.aborted

(* Slip: the second ask forgets what the first one cost. *)
AfterAskLatest(call, answer) ==
  [call EXCEPT !.spent = answer.usage, !.attempt = @ + 1]

AfterAsk(call, answer) ==
  [call EXCEPT !.spent = @ + answer.usage, !.attempt = @ + 1]
=============================================================================
