------------------------------- MODULE GitHub -------------------------------
(***************************************************************************)
(* The platform as the service sees it: the head revision of each open     *)
(* pull request, the gate's check runs on each revision, the review        *)
(* threads, and whether the listing still answers 304.  Everything here is *)
(* external to the repository; it is modelled from the calls that          *)
(* github/*.ts and composition.ts make and from what they read back.       *)
(*                                                                         *)
(* A revision belongs to one pull request, so a check run is found by      *)
(* (pull request, revision).  Two pull requests that share a head are left *)
(* out.                                                                    *)
(***************************************************************************)
EXTENDS ReviewRules

CONSTANTS
  PullRequests,     \* the open pull requests
  Revisions,        \* the revisions an author can make the head
  MaxReplies        \* bound: replies to one finding

ASSUME GitHubAssumption == MaxReplies \in Nat

VARIABLES
  head,             \* head[pr]: the current head revision
  runs,             \* runs[pr][rev]: the gate's check runs, oldest first
  threads,          \* threads[pr][f]: postings of f, its resolved threads, replies
  unchanged         \* the listing would answer 304 to the ETag the daemon holds

githubVars == <<head, runs, threads, unchanged>>

(* posted counts every posting of the finding.  Each posting of an anchored *)
(* finding opens a thread; any other finding is text in a review body.     *)
(* resolved names the threads that are resolved, replies counts the        *)
(* replies on all of them.                                                 *)
Thread == [posted : Nat, resolved : SUBSET Nat, replies : Nat]
NoThread == [posted |-> 0, resolved |-> {}, replies |-> 0]
NoThreads == [f \in Findings |-> NoThread]
HasThread(th, f) == f \in Anchored /\ th[f].posted > 0

RepliesOf(th) == [f \in Findings |-> th[f].replies]

GitHubTypeOK ==
  /\ head \in [PullRequests -> Revisions]
  /\ runs \in [PullRequests -> [Revisions -> Seq(CheckRun)]]
  /\ threads \in [PullRequests -> [Findings -> Thread]]
  /\ unchanged \in BOOLEAN

GitHubInit ==
  /\ head \in [PullRequests -> Revisions]
  /\ runs = [pr \in PullRequests |-> [rev \in Revisions |-> <<>>]]
  /\ threads = [pr \in PullRequests |-> NoThreads]
  /\ unchanged = FALSE

---------------------------------------------------------------------------
(* What people do.  A push and a reply change the listing (its entries     *)
(* carry updated_at); resolving a conversation does not.                   *)

(* A push, or a force-push back to an earlier revision. *)
Push(pr, rev) ==
  /\ rev # head[pr]
  /\ head' = [head EXCEPT ![pr] = rev]
  /\ unchanged' = FALSE
  /\ UNCHANGED <<runs, threads>>

(* Someone answers a finding on a thread of it. *)
Reply(pr, f) ==
  /\ HasThread(threads[pr], f)
  /\ threads[pr][f].replies < MaxReplies
  /\ threads' = [threads EXCEPT ![pr][f].replies = @ + 1]
  /\ unchanged' = FALSE
  /\ UNCHANGED <<head, runs>>

(* Someone presses "resolve conversation" on the thread t of f. *)
ResolveByHand(pr, f, t) ==
  /\ t \in OpenThreads(threads[pr], f)
  /\ threads' = [threads EXCEPT ![pr][f].resolved = @ \cup {t}]
  /\ UNCHANGED <<head, runs, unchanged>>

People ==
  \E pr \in PullRequests :
    \/ \E rev \in Revisions : Push(pr, rev)
    \/ \E f \in Findings :
         Reply(pr, f) \/ \E t \in OpenThreads(threads[pr], f) : ResolveByHand(pr, f, t)

---------------------------------------------------------------------------
(* What the service's API calls do.  Each is one conjunct of a step of the *)
(* service, and constrains the variables it names.                         *)

(* checks.create *)
CreateRun(pr, rev) ==
  /\ runs' = [runs EXCEPT ![pr][rev] = Append(@, InProgress)]
  /\ UNCHANGED <<head, threads, unchanged>>

(* checks.update of the run with that id *)
UpdateRun(pr, rev, id, concl, rec) ==
  /\ runs' = [runs EXCEPT ![pr][rev][id] =
                [status |-> "completed", conclusion |-> concl, record |-> rec]]
  /\ UNCHANGED <<head, threads, unchanged>>

(* resolveReviewThread, on the thread t of f *)
ResolveThread(pr, f, t) ==
  /\ threads' = [threads EXCEPT ![pr][f].resolved = @ \cup {t}]
  /\ UNCHANGED <<head, runs, unchanged>>

(* The threads of a pull request once each finding is posted on it as      *)
(* often as copies says.                                                   *)
Posted(th, copies) == [f \in Findings |-> [th[f] EXCEPT !.posted = @ + copies[f]]]

(* pulls.createReview: opens a thread per comment *)
CreateReview(pr, copies) ==
  /\ threads' = [threads EXCEPT ![pr] = Posted(@, copies)]
  /\ unchanged' = FALSE
  /\ UNCHANGED <<head, runs>>

(* issues.createComment on the pull request, when it is delivered *)
CreateComment(delivered) ==
  /\ unchanged' = (unchanged /\ ~ delivered)
  /\ UNCHANGED <<head, runs, threads>>
=============================================================================
