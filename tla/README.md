# A verification of the independent review service

The repository is a service that reviews the pull requests of one GitHub
repository. A daemon polls the open pull requests, has each one reviewed by two
model-backed roles, posts what they find, and reports one required check run,
the gate. This directory holds TLA+ models of the parts whose correctness
depends on order, failure and concurrency, the TLC runs that check them on small
instances, and theorems about them that TLAPS proves for every instance.

## 1. Inventory

Sources are under `src/src/`; `docs/` and `specs/` are beside it.

| component | state it keeps | operations | interacts by |
|---|---|---|---|
| Daemon (`daemon.ts`) | the ETag, `queuedSince`, the queue of a tick | tick, decide, enqueue, workers, sleep; exit on a rejection, restart by launchd | lists pull requests, calls reviews, takes host leases |
| One review (`composition.ts`, `reviewPullRequest`) | locals: head, baseline round, threads read, diff, findings, open check run | about a dozen awaited calls, eight early stops | reads and writes GitHub, calls the roles and the ledger, escalates |
| Decisions (`review/gate.ts`, `reconcile.ts`, `replies.ts`, `progress.ts`, `round-history.ts`) | none | aggregate, reconcile, judge replies, check progress, number the round | called by a review; `decideReview` repeats the reply comparison |
| Host lease (`host-lease.ts`) | one file per slot in a shared directory | acquire, reclaim a stale slot, release | file system, other agents' processes |
| Queue wait (`review/queue.ts`) | none | measure a wait | called under a lease, before a review |
| GitHub adapters (`github/*.ts`, `composition.ts`) | none; the platform keeps check runs, threads, reviews, comments | create and update a run, list threads, resolve, submit a review, comment | HTTP |
| Escalation (`observability/escalate.ts`) | none | find, create or update an issue; comment | GitHub |
| Roles and rules (`review/roles`, `review/rules`) | none | one model call per role; deterministic findings | model transport |
| Stops (`review/prerequisites.ts`, `self-review.ts`, `rules/empty-diff.ts`, `rules/reviewable-size.ts`, `github/branch-protection.ts`, `github/rate-limit.ts`) | none | one predicate each | called by a review |
| Findings, locations, precedence | none | fingerprint, addressability, settle disagreements | called by a review |
| Token ledger (`ledger/`) | an append-only file | check, record, reconstruct | called by every review |
| Model transports (`model/`) | none beyond one call | ask, retry a schema violation once under one deadline | network |
| Installation token (`github/auth.ts`) | a cached token | authenticate, refresh near expiry | read once per tick |
| Statechart (`review/machine.ts`) | its own state | run by tests and the diagram generator only | none |
| Command line (`cli.ts`) | none | one review by hand, without a lease | the same reviews |
| Worktree (`worktree.ts`) | a mirror and a tree on disk | called by tests only | git |
| Settings, target, records | none | validate, resolve, redact | everywhere |

**What is hard.** Nothing is persisted but what GitHub holds, so every claim about
recovery is a claim about reading facts back. A review suspends at every call: what
it read is old when it is used. Up to `maxConcurrentReviews` reviews interleave,
a rejected one ends the loop while its siblings go on, and the process may die at
any call. The listing may answer 304, and then nothing is selected. The host's slots
are shared with processes the service does not know. `PROJECT.json` lists these
hazards one by one, each at its line, with the property that covers it or the
reason why none does.

**What makes each part correct.** The daemon: never two reviews of one pull
request, every lasting head judged, every late reply answered. A review: no
finding posted again that has a thread, a pass only when every role spoke and
nothing blocking is left, the rounds of a revision counted and capped, concluded
check runs final. The gate: opened before a verdict, and a pass never
taken back. The stops: made in the order of the statechart, each exactly at its
limit. Spending: every token accounted for, the budget held up to what is under
way, no pass for free. Escalation: one issue per pull request and cause, as far as
a search before a creation can promise that. Findings: anchored exactly where the
diff has the line, no pass around a deterministic rule, and no commented-out line
unreported. The lease: exclusive and within the cap until a live file is removed,
and no slot lost to the dead.

## 2. The modules

| module | models | built on |
|---|---|---|
| `ReviewRules` | the pure decisions, and `decideReview` | |
| `GitHub` | the platform's state, what people do to it, what each API call does to it | `ReviewRules` |
| `Review` | one review: an action per awaited call, per worker; the queue-wait failure of `runOne` | `GitHub` |
| `Daemon` | ticks, queue, workers, faults, restart, the rest of the world; `Spec` and `FairSpec` | `Review` |
| `DaemonProperties` | every property of the composed machine | `Daemon` |
| `MCDaemon` | values for TLC | `DaemonProperties` |
| `MergeGate` | the abstract gate of a revision; `Daemon` implements it | |
| `Daemon_proofs`, `ReviewThreads_proofs`, `Gate_proofs` | theorems about `Daemon` | `DaemonProperties` |
| `HostLease` | the lease protocol, and its properties | |
| `MCHostLease`, `HostLease_proofs` | values for TLC; theorems | `HostLease` |
| `Stops` | the conditions that stop a review before it spends | |
| `Diffs` | what is read out of a diff: the index of lines, excluded paths, substance | |
| `FindingRules` | deterministic rules, placing, blocking and identity of findings, the verdict | `Diffs` |
| `ModelCall` | one role's model call over either transport, with its retry and its cost | |
| `Service` | reviews by several processes, composed of the four above, with the ledger and the escalation issues they share | `Stops`, `FindingRules`, `ModelCall` |
| `ReviewMachine` | the declared statechart; `Service` implements it | |
| `ServiceProperties` | every property of the composed service, and the refinement mapping | `Service` |
| `MCService` | values for TLC | `ServiceProperties` |
| `Service_proofs` | theorems: types, statechart, metering, budget | `ServiceProperties` |
| `FoldLemmas` | lemmas on numbers, finite sets and the folds the models are written with; about no code | |
| `Accounts_proofs` | theorems: the ledger, the escalation issues | `Service_proofs`, `FoldLemmas` |
| `Findings_proofs` | theorems: diffs, locations, rules | `Service_proofs`, `FoldLemmas` |

`Review` and `Service` model the same function at two grains, because TLC could not
hold both at once. `Review` has what happens between a review, its author and the
check run; the conditions that stop it are an obstacle that comes and goes.
`Service` has what those conditions compute and what the review shares with other
processes of the host; its threads, replies and check run are one step each.

### How the models correspond to the code

* `job[w]` is the activation record of the review that worker `w` runs: `pc` is the
  call it is about to make, the other fields are the locals that survive an
  `await`. `Idle` is a worker between two queue entries, `Dead` one whose promise
  rejected. A field is reset when the code no longer reads it.
* `ReadThreads` keeps the threads it read in `prior`; progress, prior findings,
  judgement and reconciliation all use that reading, as the code does.
  `RunRoles` is one step: roles run one after another, do not write to GitHub and
  share nothing but the ledger, so their answers are one choice. Between it and
  `ReadThreads` anything can happen, so the reading can be stale by any amount.
* `runs[pr][rev]` is the sequence of the gate's check runs on a revision. A reader
  sees the newest, since the checks API filters to the latest run of a name. The
  round record is parsed out of the run's text: it is the field `record`, and
  `NoRecord` is a run without one.
* `concludedAt` is a time; what both readers ask of it is whether a reply is newer.
  The record keeps `seen`, the number of replies per thread when the round
  concluded, and "newer" is "more replies than seen".
* `unchanged` says that the listing would answer 304 to the ETag held. Pushes,
  replies, reviews and comments change the listing (they touch `updated_at`);
  check runs and resolved conversations do not.
* `obstacle[pr]` is the condition that would stop a review of `pr` now, and each of
  the seven stops looks at it where the code checks it. All of them end in `Stop`,
  which escalates and reports no check run.
* What the other agents of the host hold is chosen anew for every acquisition, up to
  `OtherSlots`: `NoSlot` needs that own and other slots may fill the cap, `Start` only
  that a slot may be free, or that another agent holds one, whose file may be taken for
  stale. The daemon counts nothing itself, and the lease can exceed its cap (run
  `lease_window`), so `Daemon` neither assumes nor promises the cap; `HostLease` says
  how far it holds.
* `job[w].posting` is how often each finding is to be posted, and a thread is one of
  the copies that were: a round may raise one fingerprint several times (two
  commented-out lines with the same text, since the line is not part of it), and each
  copy is resolved by itself.
* A fault is counted in `faults` and bounded by `FaultBound`. `Crash` loses
  everything but GitHub and is possible in every state; `Restart` forgets the ETag.
  `ReviewThrows` rejects a review before any of its calls, which also covers a call
  that took effect and whose answer was lost (the state is that before the next
  call). `Exit` needs the siblings of a rejected worker to have finished, since
  the process only exits when no work is left.
* `Decide` is one step, although it awaits a listing of runs and perhaps of
  threads: check runs change only by this daemon's own reviews, none of which runs
  then, and of the replies only the reading matters.
* In `MergeGate` the gate of a revision is what branch protection sees, and `GateOf`
  reads it off the newest check run: none is unreported, one in progress is
  pending, a concluded one is its conclusion.
* In `Service`, `facts[s]` is what a review will find: permissions, the answer of
  the protection endpoint, author, round, diff, allowance, and what the model might
  propose. It does not change, so a process reviews one pull request again and again;
  the ledger and the issues do change. `slot[s].pc` names the next check.
  `CheckDiff` makes three checks in one step because the code awaits nothing between
  `readDiff` and the budget. `EndRole` after the last role records the cost and
  raises the findings, as the code does without an `await`.
* A diff is a sequence of lines. A line of text has its mark, its words, and, if with
  its mark it reads as `--- x` or `+++ x`, the file `x` that it names, since the code
  cannot tell a header from a removed `-- x` or an added `++ x` (`OldFile`,
  `NewFile`). `Render` is git; the properties about locations look at the edit it
  renders and number its lines from the start of their hunk (`LineNumber`), never at
  the service's own index of it.
* A stream is what a model call brings back: how it ended, the usage its result
  states (`NoUsage` for none), and whether its text is a review. `Ask` and `AskAPI`
  make an answer and a cost of it; a usage whose input and output are zero is 0.
  `owed` is a ghost: what every ask cost, less what died with its process.
* `ReviewMachine` declares the transitions of `review/machine.ts` over what a review
  has established. `StateOf` and `FindingsOf` in `ServiceProperties` map a review to
  it. A stop is mapped first to the state its guard leads to; where the code makes a
  check ahead of its turn (author and budget, which are checked without an `await`
  before them) it is mapped to the state whose guard it is.
* In `HostLease` every file operation is atomic and other processes act between two
  of them; within a process an acquisition or release is synchronous (`Alone`). A
  missing file and an unreadable one are both `Free`. A process that dies never
  comes back under its identifier.

Definitions named *slip* in a comment are not part of any specification: each is
a plausible mistake in the definition below it, and the mutants of `PROJECT.json`
show that the properties notice it.

### Simplifications

A revision belongs to one pull request. A finding is its fingerprint; its role and
whether it has a place in the diff are fixed, and so is whether it blocks, although
the code does not make that part of the fingerprint. People do not reopen a
conversation that is resolved. Replies are counted per finding and not per thread,
which is how both readers use them. No review is run by hand beside the daemon's
(`Service` has that, for what the two share on the host). The workers take the queue's entries in any order. `queuedSince` loses an entry when the
review starts rather than when it ends; nothing reads it in between. Precedence
between roles is left out: the composition root gives them distinct ranks, so no
tie arises, and the result does not reach the gate. Pull requests do not close.

In `Service` the findings of a round are a set, nobody replies during it, and one
role proposes at most one finding. The diff does not change between its reading and
the roles. Which paths are tests or documents, which are usable, which content is a
comment that reads as code, and whether the description justifies its size are
constants or facts of an instance. `DiffAssumption` says which changes are
considered (`Diffable`): any number of files and hunks, with any lines, remarks on a
missing newline and lines that read as file headers among them; one edit per file, no
added line in a deletion, hunks in order. That leaves out edits without text (a rename,
a mode, an empty file) and a file that becomes a symbolic link, for which git writes
two edits. The prompt's size is the constant `Floor`.

## 3. The runs

`tlc -config <run>.cfg <module>`; the passing runs end without an error.

| run | instance | shows |
|---|---|---|
| `one_pull_request` | 1 pull request, 2 revisions, 1 blocking finding raised up to twice in a round, 2 roles, 2 rounds, 1 reply, 1 worker, cap 1 beside 1 other, 1 crash and 1 rejection (2.8 million states) | `TypeOK`, `RoundsAreCountedAndCapped`, `EveryFurtherRoundHasAReply`, `InProgressMeansReviewed`, `PassIsEarned`, `RaisedThreadsStayOpen`, `NothingIsReposted`, `ConcludedRunsAreFinal`, `ImplementsMergeGate` |
| `two_pull_requests` | 2 pull requests, 2 findings of 2 roles, 1 blocking, 2 workers, cap 2 beside 1 other, 1 rejection (1.9 million) | `OneReviewPerPullRequest` |
| `spending` | 2 processes, 2 roles, both transports, 8 kinds of answer, 2 asks, every stop, 17 diffs, 4 pairs of reviews at once, deaths at any call (218 thousand) | `TypeOK`, `TokensAreAccountedFor`, `BudgetHeldUpToReviewsUnderWay`, `PassesAreMetered`, `IssuesAreNotRepeated`, `AnchoredExactlyWhereLegible`, `PassesObeyTheRules`, `DeadCodeIsReported`, `ImplementsReviewMachine` |
| `convergence` | 2 revisions, 2 rounds, 2 replies, 1 worker, 3 kinds of obstacle of which two come, one after the other, at any moment, cap 2 beside 1 other, fair (338 thousand) | `RoundsAreCountedAndCapped`, `EveryHeadIsJudged`, `LateReplyIsAnswered` |
| `host_lease` | 3 agents in 2 processes, 2 slots, either process dies, fair (56 thousand) | `TypeOK`, `ExclusiveUnlessStolen`, `CapHeldUnlessStolen`, `NoSlotIsLost` |

**Bounds.** Two revisions are enough for a push, a push back and a stale reading;
two rounds (`MaxReviewRounds = 2`) for a first round and a further one of the same
revision; one reply for a round that is earned and one that is not, and two replies
(`convergence`) for a third round, which must be refused; two copies of a finding for
one that a round raises more than once; two workers and two pull requests for a
sibling that outlives a rejection. One crash and one rejection per behaviour are
combined freely with everything else. An obstacle may come twice, so that what was
cleared once can stop a later review. `FaultBound`, `MaxReplies`, `MaxCopies` and
`OtherSlots` are bounds of the models; `MaxReviewRounds`, `Capacity` and the number of
workers are settings of the code. Two pull requests with two revisions are out of
TLC's reach, which is one reason for the proofs.

In `spending` the budget (16) holds one review at its reservation and most of a
second, so the check that refuses is reached, and two processes that checked
together do exceed it; no bound on the number of reviews is needed, since the
budget ends them. `MaxUsage` bounds what one ask costs. Every stop and every outcome
of the allowance occurs. The diffs have each kind of
edit: context, change, addition only, deletion, binary, excluded, spacing only,
commented-out code, two hunks, a remark on a missing newline before an added line, a
removed and an added line that read as file headers; and proposals name every line of
both images from 0 to beyond the hunk, excluded and unusable paths.

**Deadlock** is checked except in the two `HostLease` runs: there the system stops
when every process has died. In `Service` a review can always be asked for again.

**Fairness.** `FairSpec` is weak fairness of the loop (the event loop serves a
ready step, an awaited call is answered, launchd restarts a process that ended), of
each worker, and of `Clear` (what stops a review is one day gone: budgets are
raised, the allowance resets). Nothing is assumed of authors or of other agents.
`convergence` has no crash, delivers its comments and leaves a slot free for the
worker; without any of these `EveryHeadIsJudged` is false, as the next section says.
For the lease, a call that has begun runs to its end, and an agent that asks is
served between its siblings' calls (strong fairness of `Begin`: a waiting caller is
disabled whenever a sibling is inside one). Nobody has to give a lease back.

### Where the code differs from what the repository says

Each of these runs checks one property and TLC finds it violated; `PROJECT.json`
quotes the sentence it contradicts.

| run | property | what happens |
|---|---|---|
| `crash_convergence` | `EveryHeadIsJudged` | a crash between opening and reporting the gate leaves the run in progress, and `decideReview` skips that revision from then on |
| `unseen_resolution` | `ResolvesOnlyWhatItSawFixed` | a role whose model call failed raises nothing, so its open threads are resolved |
| `stale_diff` | `VerdictIsAboutItsRevision` | a push between the snapshot and `readDiff`; `publishIfCurrent`, which would discard the outcome, is never called |
| `refusal` | `RefusalFailsTheGate` | an early stop returns a failing result that nobody reports |
| `saturated_host` | `WaitingReviewsAreTriedAgain` | a tick that is answered 304 neither retries nor remembers a review that found the host full |
| `lease_window` | `ExclusiveWithoutCrash` | a release between a failed link and the read makes a slot look stale; the unlink then removes a live lease. No crash is needed |
| `no_newline` | `AnchoredExactlyWhereTheDiffHasIt` | git's remark that a file does not end in a newline is counted as a line of both images, so the added line after it is indexed one too far |

Smaller divergences met while modelling, each visible in a definition though not in
a run of its own:

* A proposal always states whether it blocks, so `blockingSeverityThreshold` only
  ever decides for the rules about tests and documents (`findings.ts:87`,
  `anthropic.ts:326`), whereas FR-013 derives blocking from severity.
* A turn that was cut off after stating a usage of zero is recorded as zero
  (`usage ?? floor`, `agent-sdk.ts:399`), although the comment at 251-253 prefers an
  under-estimate to a zero (`UsageOrFloor`).
* A rejected call rejects the review, where the statechart's ERROR fails the gate;
  and a stop never reports the gate that `failingGate` declares. Therefore the
  refinement is to `UnfailingSpec`, and the run `refusal` shows the second.
* A wait for the platform's reset is escalated like every stop, and a missing model
  credential is a stop the statechart has no guard for.
* `machine.ts:264-266` says that unestablished progress is a stop; its guard reads it
  as a pass (`Denied`).
* A removed line whose content starts with `-- ` and an added one whose content starts
  with `++ ` are taken for file headers (`locations.ts:53-66`). The first is not
  counted, so the size rules count too little and the later numbers of the pre-image are
  off; the second moves the rest of the edit to another path, and with the content
  `++ test/a` it even counts as a changed test. `AnchoredExactlyWhereLegible`,
  `PassesObeyTheRules` and `DeadCodeIsReported` say what remains true beside such lines.
* `hasSubstantiveChange` skips every line that starts with `+++` or `---`
  (`empty-diff.ts:32`), so a change of nothing but an unindented `++i` or `--i` is
  refused as empty. The model skips what reads as a header; text with two such
  characters and no space after them is left out.
* `detectCommentedOutCode` counts git's remark on a missing newline as a line, like the
  index.
* A finding that one round raises twice is posted twice: `composition.ts:1234` maps every
  draft and `reconcile.ts:93` filters only against the threads read. SC-015
  (`spec.md:735`) says that no finding appears as a duplicate.
* Rounds are counted per revision and start again after a run without a record, while
  FR-020 (`spec.md:542`) counts them per pull request.
* A push back to a revision that has passed leaves its gate green without a further
  review (`daemon.ts:107-122` selects by the runs of the revision), while FR-018
  (`spec.md:538`) has every push invalidate every approving verdict and FR-017 has
  every push reviewed.
* The budget is checked before and recorded after the model calls, so reviews of
  several processes can exceed it, while FR-031 (`spec.md:616`) has the service stop
  rather than exceed it. `BudgetHeldUpToReviewsUnderWay` states by how much.
* Two processes that escalate one cause at once may both find no issue and both file
  one, although `escalate.ts:168` says that a recurring cause updates its issue;
  `IssuesAreNotRepeated` allows one per process for that reason.
* A retry may double what a role costs, while the reservation has one ask per role.
* An escalation may update an issue that was closed since it was found, and only the
  newest 100 open issues are looked at.

## 4. The proofs

`tlapm` proves every obligation of `Daemon_proofs`, `ReviewThreads_proofs`,
`Gate_proofs`, `HostLease_proofs`, `Service_proofs`, `FoldLemmas`, `Accounts_proofs`
and `Findings_proofs`. The theorems hold for every
value of the constants that satisfies the named assumptions of the modules (a role
per finding, a non-empty order that covers the roles, a positive cap, finitely many
workers and processes, natural limits, a bound on what one ask costs, and changes
that are `Diffable`). Two theorems about the service have a hypothesis of their own,
named in the table, and it holds in the instance of `spending`. Three are about what
the scans of a diff can read: the conditions (`Legible`, `FilesLegible`) are part of
the property, and the instance has diffs on both sides of them.

| theorem | states | argument |
|---|---|---|
| `TypesAreKept` | `Spec => []TypeOK` | `TypeOK` is not inductive alone: that an active review has a pull request and a revision, and not `None`, is the part `Placed`, proved together with it |
| `ReviewsAreUnique` | `Spec => []OneReviewPerPullRequest` | `UniqueInv`: a pull request under review is not in the queue, the queue and the entries still to be decided name each pull request once, and no review is active while the daemon sleeps, decides or is down. So a worker that takes an entry never meets another on the same pull request |
| `NothingIsPostedAgain` | `Spec => NothingIsReposted` | `ReviewInv`: a review still carrying findings to post carries only those that had no thread when it read them and, because it is the only review of its pull request, have none now. It needs `ReviewsAreUnique` |
| `PassesAreEarned` | `Spec => PassIsEarned` | the same reading and plan: what a review read and did not resolve was raised or already resolved, a success raises nothing blocking, and nobody reopens or opens a thread meanwhile |
| `WhatIsRaisedStaysOpen` | `Spec => RaisedThreadsStayOpen` | a step that resolves a thread does so out of a plan, and the plan of a round holds only threads of findings it did not raise (`ReviewInv`) |
| `RoundsCounted` | `Spec => []RoundsAreCountedAndCapped`, from one run of a revision to the next | `GateInv`: the runs of a revision are sound (only the last may be open), and the baseline a job holds is that of the runs it will report on, because nobody else reviews the revision meanwhile |
| `RoundsAreEarned` | `Spec => []EveryFurtherRoundHasAReply` | the same, with the replies: a review past the progress check has a baseline that had not seen a reply, and replies only grow |
| `RunsAreFinal` | `Spec => ConcludedRunsAreFinal` | every step appends a run or changes the last one while it is open |
| `OpenRunsAreReviewed` | `Spec => []InProgressMeansReviewed` | without a fault no job is dropped, so the run a job opened stays with it until it is reported |
| `DaemonImplementsMergeGate` | `Spec => Gate!Spec` | the initial states map to initial states and every step to `Open`, `Conclude` or a stutter; that `Open` never hides a pass needs `GateInv`: what is queued or reviewed has not passed |
| `ServiceTypes` | `Spec => []TypeOK` (service) | `TypeOK` with the kind of answer each step leaves |
| `FollowsTheStatechart` | `Spec => Machine!UnfailingSpec` | one case per action; the findings are a function of the facts and the cause, so a stop satisfies its guard and a review that goes on falsifies every guard of its state |
| `PassesAreCounted` | `Spec => []PassesAreMetered` | every verdict stated so far has cost at least one token: a usage of zero gives no verdict, and a retry adds |
| `BudgetIsHeld` | `Spec => []BudgetHeldUpToReviewsUnderWay` | a review past the check, or a past recording, had room for its reservation, and since then at most one recording per process of those under way has come on top; the measure is the number of processes that have passed the check and not recorded |
| `NoTokenIsLost` | `Spec => []TokensAreAccountedFor` | the sum over the processes of what their reviews still owe changes at one process per step, by as much as the ledger or the ghost `owed` does; `TypeOK` gives the numbers |
| `IssuesAreUpdated` | `Spec /\ []OnePage => []IssuesAreNotRepeated`, where `OnePage` says that at most 100 issues are open | `IssueInv` counts: the open issues of a cause on a pull request and the processes about to create one are together no more than the processes. A process comes to the brink of creating one only after a search that found none open, and a search that reads all issues finds any |
| `FindingsAreAnchored` | `Spec => []AnchoredExactlyWhereLegible` | `IndexOfDiff`: the index of a rendered change has, for each text file, the changed lines at the numbers the scan gives them, by induction edit by edit (`OneEdit`) and line by line (`WholeEdit`), and in a legible image these are the numbers of the image (`NumbersAgree`). Run `no_newline` shows that legibility is needed |
| `RulesCannotBeTalkedOutOf` | `Spec => []PassesObeyTheRules`, assuming `RulesApply`: the roles include `implementation` | `FindingInv`: once that role has spoken the drafts of its rules are among those collected, and a review that passes met none that blocks; whether one blocks does not depend on where it is placed. The size the service computes over its index, a sum over files, is the number of lines the edits change (`SizeIsRead`), since hunks are in order and so no number is given twice (`NumbersAreDistinct`) |
| `NoDeadCodeIsMissed` | `Spec => []DeadCodeIsReported` | the second scan of the diff, which the rule makes, carries the path of the edit and the number that the index carries at every line of every hunk (`HunkCounted`), and what it has seen stays seen; with `ChangedIsAddressable` the finding keeps its line |
| `TypeCorrect` | `Spec => []TypeOK` (lease) | directly |
| `LeaseIsExclusive` | `Spec => []ExclusiveUnlessStolen` | until a live process's file has been removed by another, the slot of every holder names the holder's process, and within a process no two agents are at one slot |
| `CapIsHeld` | `Spec => []CapHeldUnlessStolen` | the map from holders to slots is injective |

The inductive invariants were checked by TLC on the instances above before they were
proved.

**Folds and induction.** The sums and scans of the models are folds
(`MapThenSumSet`, `FoldLeft`), and the library's induction theorems take an operator
that the provers cannot instantiate. `FoldLemmas` goes around that: induction is over
a *set* of numbers, proved from the well-foundedness of `<` (`NumberInduction`,
`SubsetInduction`); a fold is a function on the subsets of a finite set that satisfies
the equation of the fold (`IsFold`), such a function exists (`FoldExists`), so what
`CHOOSE` picks in the library's definition is one; over a sequence it runs through the
prefixes (`FoldOfSequence`), and a sum does not depend on the order of its terms
(`SumIsAdditive`, `SumChanges`, `SumsCorrespond`). `RenderAppends`, `IndexScans`,
`DetectScans` and `CountIsSum` are these lemmas at the operators of `Diffs` and
`FindingRules`.

**Only model-checked.** The liveness properties `EveryHeadIsJudged`,
`LateReplyIsAnswered` and `NoSlotIsLost`: TLAPS proves no liveness from fairness here,
nor `ENABLED`. Every safety property that a passing run checks has a theorem. Beyond
100 open issues `IssuesAreNotRepeated` is not true, since a search sees one page; the
instance of `spending` has fewer, as `OnePage` asks.

## 5. Not modelled, and why

* Text: prompts, the bodies of issues and reviews, markers, glob patterns, settings
  and redaction. Functions of their input, and no property here is about wording.
* `precedence.ts`: its result is logged and reaches no state, and a tie cannot arise
  from the ranks the composition root passes.
* `reconstruct.ts`, `readSignals` of `rate-limit.ts` and `binaryPathsFromNumstat`, which
  only tests call.
* Minting and caching of the installation token in `auth.ts`, and the lookup of model
  credentials: request building, with no state another part reads. That a token read
  once per tick can expire is listed as a hazard.
* `worktree.ts`, which no path of the service calls, and `model/scripted.ts`, a test
  double.
* `publishIfCurrent` of `daemon.ts`, which is never called; the run `stale_diff` shows
  what follows from that.
* Clocks and times: waits are a set of overdue entries, reply times are counts.

The components list in `PROJECT.json` gives the status of each part.

## 6. Plan

Done: the decisions, the platform, a review, the daemon, the lease, the abstract gate
and its refinement; the stops, diffs, rules, model calls, ledger and escalation as one
service, the statechart it implements; a theorem for every safety property that a
passing run checks.

What is left, in this order:

1. Several rounds in `Service`, so that the identity of a finding across revisions can
   be followed from its path to its thread.
2. Two pull requests with one head revision, a pull request that closes, and a listing
   of more than one page.
3. The age of the installation token against a long queue.
4. To prove: that what an empty-diff stop takes for unsubstantial is a change of
   spacing only (`HasSubstantiveChange` counts lines of the diff, and `Layout` is what
   such a proof starts from).
