---------------------------- MODULE RunDelivery ----------------------------
(***************************************************************************)
(* The Delivery of one completed Run: from its retained Run workspace to a *)
(* merged Pull Request.  Five parties act:                                 *)
(*                                                                         *)
(*   - the DeliveryStore, one row under a lock (row);                      *)
(*   - the DeliveryCoordinator, one process that reads the row, may block  *)
(*     in a provider call and only then writes (desk);                     *)
(*   - the Worker, which handles every message on its own: two commands of *)
(*     the same Delivery may be in progress (jobs), since the coordinator  *)
(*     sends the command again on every poll and every wake;               *)
(*   - the provider, with the remote branch and the Pull Request;          *)
(*   - the user, who may edit the retained workspace, push to the branch,  *)
(*     merge or close the Pull Request, and retry publishing.              *)
(*                                                                         *)
(* A revision is the sequence of the contents committed since the base     *)
(* revision, so its content is its last element.  The fingerprint of a     *)
(* workspace depends on its content alone, committed or not.               *)
(***************************************************************************)
EXTENDS Naturals, Sequences, SequencesExt, FiniteSets

CONSTANTS
  Contents,    \* what the workspace may hold
  Base,        \* the content of the base revision, one of Contents
  Jobs,        \* the handlers the Worker may run at once
  MaxChanges,  \* bound on edits, foreign pushes, retries and restarts, together
  None

DeliveryAssumption == Base \in Contents

VARIABLES row, desk, jobs, inbox, workspace, remote, review, quest, reported,
          changes

vars == <<row, desk, jobs, inbox, workspace, remote, review, quest, reported,
          changes>>

Content(revision) == IF revision = <<>> THEN Base ELSE Last(revision)

NoAnswer == [state |-> "none", head |-> <<>>]
Free == [call |-> "none", fingerprint |-> None, answer |-> NoAnswer]
Unused == [at |-> "none", expected |-> None, head |-> <<>>]

Init ==
  /\ row = [state |-> "pending", fingerprint |-> None, head |-> None, failure |-> "none"]
  /\ desk = Free
  /\ jobs = [j \in Jobs |-> Unused]
  /\ inbox = <<>>
  /\ \E c \in Contents : workspace = [content |-> c, head |-> <<>>]
  /\ remote = None
  /\ review = None
  /\ quest = None
  /\ reported = {}
  /\ changes = 0

Change ==
  /\ changes < MaxChanges
  /\ changes' = changes + 1

-----------------------------------------------------------------------------
(* The DeliveryStore. *)

Attention(failure) == [row EXCEPT !.state = "attention_required", !.failure = failure]

\* inspected: also accepted while publishing, from a command sent again.
Inspected(fingerprint) ==
  IF row.state \in {"preparing", "publishing"}
  THEN [row EXCEPT !.state = IF fingerprint = Base THEN "no_changes" ELSE "publishing",
                   !.fingerprint = fingerprint]
  ELSE row

Published(fingerprint, head) ==
  IF row.state \in {"publishing", "creating_review"} /\ row.fingerprint = fingerprint
  THEN [row EXCEPT !.state = "creating_review", !.head = head, !.failure = "none"]
  ELSE row

Failed(failure) ==
  IF row.state \in {"preparing", "publishing", "creating_review"}
  THEN Attention(failure)
  ELSE row

(* Mutant: the head revision is not among the identities compared. *)
VerifyReviewIdentity_branch(metadata) == TRUE

VerifyReviewIdentity(metadata) == metadata.head = row.head

\* observe_review: no condition on the state of the row.
ObserveReview(metadata) ==
  IF ~VerifyReviewIdentity(metadata)
  THEN row' = Attention("final") /\ UNCHANGED quest
  ELSE \/ /\ metadata.state = "merged"
          /\ row' = [row EXCEPT !.state = "merged"]
          /\ quest' = metadata.head
       \/ /\ metadata.state = "closed"
          /\ row' = [row EXCEPT !.state = "closed_unmerged"]
          /\ UNCHANGED quest
       \/ /\ metadata.state = "open"
          /\ row' = [row EXCEPT !.state = "review_open"]
          /\ UNCHANGED quest

\* The reports of the Worker, in the order they were sent.
Receive ==
  /\ inbox # <<>>
  /\ inbox' = Tail(inbox)
  /\ LET m == Head(inbox) IN
     row' = CASE m.type = "inspected" -> Inspected(m.fingerprint)
              [] m.type = "published" -> Published(m.fingerprint, m.head)
              [] m.type = "failed"    -> Failed(m.failure)
  /\ UNCHANGED <<desk, jobs, workspace, remote, review, quest, reported, changes>>

\* retry: only what is recoverable.
Retry ==
  /\ row.state = "attention_required"
  /\ row.failure # "final"
  /\ Change
  /\ row' = [row EXCEPT !.state = "pending", !.failure = "none"]
  /\ UNCHANGED <<desk, jobs, inbox, workspace, remote, review, quest, reported>>

-----------------------------------------------------------------------------
(* The DeliveryCoordinator. *)

\* At most |Jobs| commands are handled or have unread reports: a bound.
Command(at, expected) ==
  \E j \in Jobs :
    /\ jobs[j].at = "none"
    /\ Len(inbox) < Cardinality({i \in Jobs : jobs[i].at = "none"})
    /\ jobs' = [jobs EXCEPT ![j] = [Unused EXCEPT !.at = at, !.expected = expected]]

SendInspection ==
  /\ desk.call = "none"
  /\ row.state \in {"pending", "preparing"}
  /\ row' = [row EXCEPT !.state = "preparing", !.failure = "none"]
  /\ Command("inspect", None)
  /\ UNCHANGED <<desk, inbox, workspace, remote, review, quest, reported, changes>>

CallOf == [publishing |-> "preflight", creating_review |-> "create", review_open |-> "inspect"]

\* The call to the provider is made with the row as it was read.
BeginCall ==
  /\ desk.call = "none"
  /\ row.state \in DOMAIN CallOf
  /\ desk' = [Free EXCEPT !.call = CallOf[row.state], !.fingerprint = row.fingerprint]
  /\ UNCHANGED <<row, jobs, inbox, workspace, remote, review, quest, reported, changes>>

Answers(answer) == desk' = [desk EXCEPT !.answer = answer]

ProviderFails ==
  /\ desk.call # "none"
  /\ desk.answer = NoAnswer
  /\ Answers([NoAnswer EXCEPT !.state = "failed"])
  /\ UNCHANGED <<row, jobs, inbox, workspace, remote, review, quest, reported, changes>>

\* find_by_head, else create and look again: when the second lookup fails or
\* finds nothing yet, the answer is a failure though a review was created.
ProviderCreates ==
  /\ desk.call = "create"
  /\ desk.answer = NoAnswer
  /\ review = None
  /\ remote # None
  /\ review' = [state |-> "open", head |-> remote]
  /\ \/ Answers(review')
     \/ Answers([NoAnswer EXCEPT !.state = "failed"])
  /\ UNCHANGED <<row, jobs, inbox, workspace, remote, quest, reported, changes>>

ProviderAnswers ==
  /\ desk.answer = NoAnswer
  /\ \/ desk.call = "preflight" /\ Answers([NoAnswer EXCEPT !.state = "ok"])
     \/ desk.call \in {"create", "inspect"} /\ review # None /\ Answers(review)
  /\ UNCHANGED <<row, jobs, inbox, workspace, remote, review, quest, reported, changes>>

\* run_after_preflight: the command names the fingerprint that was read.
EndPreflight ==
  /\ desk.call = "preflight"
  /\ desk.answer # NoAnswer
  /\ \/ /\ desk.answer.state = "ok"
        /\ Command("compare", desk.fingerprint)
        /\ UNCHANGED row
     \/ /\ desk.answer.state = "failed"
        /\ row' = Attention("retryable")
        /\ UNCHANGED jobs
  /\ desk' = Free
  /\ UNCHANGED <<inbox, workspace, remote, review, quest, reported, changes>>

\* A failed lookup of an open review is left for the next poll.
EndReview ==
  /\ desk.call \in {"create", "inspect"}
  /\ desk.answer # NoAnswer
  /\ IF desk.answer.state = "failed"
     THEN /\ row' = IF desk.call = "create" THEN Attention("retryable") ELSE row
          /\ UNCHANGED quest
     ELSE ObserveReview(desk.answer)
  /\ desk' = Free
  /\ UNCHANGED <<jobs, inbox, workspace, remote, review, reported, changes>>

-----------------------------------------------------------------------------
(* The Worker. *)

Dirty == workspace.content # Content(workspace.head)

Step(j, at) == jobs' = [jobs EXCEPT ![j].at = at]

Report(j, message) ==
  /\ inbox' = Append(inbox, message)
  /\ jobs' = [jobs EXCEPT ![j] = Unused]

Fail(j, failure) == Report(j, [type |-> "failed", failure |-> failure])

\* Any call of Git or of the provider's remote may fail; the report names no
\* command, so it is the Delivery's.
CommandFails(j) ==
  /\ jobs[j].at # "none"
  /\ Fail(j, "retryable")
  /\ UNCHANGED <<row, desk, workspace, remote, review, quest, reported, changes>>

Inspect(j) ==
  /\ jobs[j].at = "inspect"
  /\ Report(j, [type |-> "inspected", fingerprint |-> workspace.content])
  /\ UNCHANGED <<row, desk, workspace, remote, review, quest, reported, changes>>

\* The content, before and after the commit, is the one inspected.
Compare(j, at, next) ==
  /\ jobs[j].at = at
  /\ IF workspace.content = jobs[j].expected
     THEN Step(j, next) /\ UNCHANGED inbox
     ELSE Fail(j, "final")
  /\ UNCHANGED <<row, desk, workspace, remote, review, quest, reported, changes>>

ReadStatus(j) ==
  /\ jobs[j].at = "status"
  /\ Step(j, IF Dirty THEN "commit" ELSE "clean")
  /\ UNCHANGED <<row, desk, inbox, workspace, remote, review, quest, reported, changes>>

\* A commit with nothing to commit fails.
Commit(j) ==
  /\ jobs[j].at = "commit"
  /\ IF Dirty
     THEN /\ workspace' = [workspace EXCEPT !.head = Append(@, workspace.content)]
          /\ Step(j, "clean")
          /\ UNCHANGED inbox
     ELSE Fail(j, "retryable") /\ UNCHANGED workspace
  /\ UNCHANGED <<row, desk, remote, review, quest, reported, changes>>

CheckClean(j) ==
  /\ jobs[j].at = "clean"
  /\ IF Dirty THEN Fail(j, "retryable") ELSE Step(j, "final") /\ UNCHANGED inbox
  /\ UNCHANGED <<row, desk, workspace, remote, review, quest, reported, changes>>

ReadHead(j) ==
  /\ jobs[j].at = "read"
  /\ jobs' = [jobs EXCEPT ![j].at = "look", ![j].head = workspace.head]
  /\ UNCHANGED <<row, desk, inbox, workspace, remote, review, quest, reported, changes>>

ReportPublished(j) ==
  /\ Report(j, [type |-> "published", fingerprint |-> jobs[j].expected, head |-> jobs[j].head])
  /\ reported' = reported \union {<<jobs[j].head, jobs[j].expected>>}

\* ls-remote: a remote branch is this Delivery's or a conflict.
LookUpRemote(j) ==
  /\ jobs[j].at = "look"
  /\ \/ remote = None /\ Step(j, "push") /\ UNCHANGED <<inbox, reported>>
     \/ remote # None /\ remote = jobs[j].head /\ ReportPublished(j)
     \/ remote # None /\ remote # jobs[j].head /\ Fail(j, "final") /\ UNCHANGED reported
  /\ UNCHANGED <<row, desk, workspace, remote, review, quest, changes>>

\* git push of the branch, not of the revision read: only forwards.
Push(j) ==
  /\ jobs[j].at = "push"
  /\ IF remote = None \/ IsPrefix(remote, workspace.head)
     THEN /\ remote' = workspace.head
          /\ review' = IF review # None /\ review.state = "open"
                       THEN [review EXCEPT !.head = workspace.head] ELSE review
          /\ ReportPublished(j)
     ELSE Fail(j, "retryable") /\ UNCHANGED <<remote, review, reported>>
  /\ UNCHANGED <<row, desk, workspace, quest, changes>>

\* The Worker restarts: its handlers and unsent or stale reports are gone.
Restart ==
  /\ Change
  /\ jobs' = [j \in Jobs |-> Unused]
  /\ inbox' = <<>>
  /\ UNCHANGED <<row, desk, workspace, remote, review, quest, reported>>

-----------------------------------------------------------------------------
(* The user. *)

Edit ==
  /\ Change
  /\ \E c \in Contents \ {workspace.content} : workspace' = [workspace EXCEPT !.content = c]
  /\ UNCHANGED <<row, desk, jobs, inbox, remote, review, quest, reported>>

ForeignPush ==
  /\ remote # None
  /\ Change
  /\ \E c \in Contents : remote' = Append(remote, c)
  /\ review' = IF review # None /\ review.state = "open"
               THEN [review EXCEPT !.head = remote'] ELSE review
  /\ UNCHANGED <<row, desk, jobs, inbox, workspace, quest, reported>>

CloseReview ==
  /\ review # None
  /\ review.state = "open"
  /\ \E s \in {"merged", "closed"} : review' = [review EXCEPT !.state = s]
  /\ UNCHANGED <<row, desk, jobs, inbox, workspace, remote, quest, reported, changes>>

-----------------------------------------------------------------------------

Handle(j) ==
  \/ Inspect(j)
  \/ Compare(j, "compare", "status")
  \/ ReadStatus(j)
  \/ Commit(j)
  \/ CheckClean(j)
  \/ Compare(j, "final", "read")
  \/ ReadHead(j)
  \/ LookUpRemote(j)
  \/ Push(j)

Coordinate == SendInspection \/ BeginCall \/ EndPreflight \/ EndReview

Serve == ProviderCreates \/ ProviderAnswers

Next ==
  \/ Receive
  \/ Retry
  \/ Coordinate
  \/ Serve
  \/ ProviderFails
  \/ \E j \in Jobs : CommandFails(j) \/ Handle(j)
  \/ Restart
  \/ Edit
  \/ ForeignPush
  \/ CloseReview

Spec == Init /\ [][Next]_vars

(***************************************************************************)
(* The coordinator polls every ten seconds, the Worker's handlers and the  *)
(* connection make progress, and a provider asked again and again answers  *)
(* in the end.  Nothing is assumed of the user.                            *)
(***************************************************************************)
FairSpec ==
  /\ Spec
  /\ WF_vars(Receive)
  /\ WF_vars(Coordinate)
  /\ SF_vars(Serve)
  /\ \A j \in Jobs : WF_vars(Handle(j))

-----------------------------------------------------------------------------

(* A Quest is completed only by a Pull Request whose head is a revision    *)
(* the Worker published with the fingerprint of the change evidence the    *)
(* Product shows: never by a branch somebody else advanced, nor by a       *)
(* publication of content that was inspected again since                   *)
(* (observe_review, verify_review_identity, published).                    *)
CompletedWorkWasPublished ==
  quest # None => quest = row.head /\ <<quest, row.fingerprint>> \in reported

(* The content of a published revision is the content that was inspected:  *)
(* "Finalized content differs from inspected content" is refused           *)
(* (RunDeliveryRegistry.publish).                                          *)
PublishedContentIsInspected ==
  row.state \in {"creating_review", "review_open", "merged"} =>
    Content(row.head) = row.fingerprint

(* The control plane reconciles the Pull Request of a Delivery: once one   *)
(* of the exact published head is merged, the Quest is completed           *)
(* (DeliveryCoordinator.process_delivery).                                 *)
MergedReviewsCompleteQuests ==
  (review # None /\ review.state = "merged" /\ row.head # None /\ review.head = row.head)
    ~> quest # None
=============================================================================
