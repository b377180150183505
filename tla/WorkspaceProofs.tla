--------------------------- MODULE WorkspaceProofs ---------------------------
(***************************************************************************)
(* Theorems about the workspace of a Run: what the store says of a mutation *)
(* is true (WorkspaceToolBroker), a Quest is completed by what was          *)
(* published (RunDelivery), the repository goes last (RunCleanup), and      *)
(* verified work is kept (RunExport).                                       *)
(***************************************************************************)
EXTENDS Workspace, Naturals, Sequences, TLAPS

-----------------------------------------------------------------------------
(* The tool requests of an Action (WorkspaceToolBroker).                    *)

RecordStates == Tools!Unsettled \cup Tools!Settled \cup {"none"}
Steps == Tools!InFlight \cup {"idle"}

ToolsType ==
    /\ record \in [Requests -> RecordStates] /\ step \in [Requests -> Steps]
    /\ applied \in [Requests -> Nat]

(* A request has an effect when it is given its input, and not before; from *)
(* then on its process is recorded, so that a failure leaves it uncertain.  *)
Accounted(r) ==
    /\ applied[r] <= 1
    /\ record[r] = "none" => step[r] = "idle"
    /\ record[r] \in {"none", "not_submitted", "rejected"} => applied[r] = 0
    /\ record[r] = "completed" => applied[r] = 1
    /\ step[r] \in {"queued", "spawning", "refusing"} => applied[r] = 0
    /\ step[r] = "running" => applied[r] = 1 /\ r \in bound

ToolsInv == ToolsType /\ \A r \in Mutations : Accounted(r)

(* No request was made.                                                     *)
LEMMA ToolsInit == Tools!BrokerAssumption /\ Tools!Init => ToolsInv
  BY DEF Tools!BrokerAssumption, Tools!Init, ToolsInv, ToolsType, Accounted, RecordStates, Steps

(* Requests are settled without a result, and perhaps forgotten by a Worker *)
(* that starts again.                                                       *)
LEMMA RequestsSettle ==
    ASSUME Tools!BrokerAssumption, ToolsInv, UNCHANGED <<applied, bound>>,
           step' = step \/ step' = [r \in Requests |-> "idle"],
           record' \in [Requests -> RecordStates],
           \A r \in Requests : record'[r] = record[r] \/ record'[r] \in {"uncertain", "cancelled"}
    PROVE  ToolsInv'
  BY DEF Tools!BrokerAssumption, ToolsInv, ToolsType, Accounted, Steps

(* One request moves on.                                                    *)
LEMMA RequestMoves ==
    ASSUME Tools!BrokerAssumption, ToolsInv, NEW r \in Requests,
           NEW s \in RecordStates, NEW t \in Steps,
           record' = [record EXCEPT ![r] = s], step' = [step EXCEPT ![r] = t],
           applied' \in [Requests -> Nat], bound \subseteq bound',
           \A q \in Requests : q # r => applied'[q] = applied[q],
           r \in Mutations => Accounted(r)'
    PROVE  ToolsInv'
  BY DEF Tools!BrokerAssumption, ToolsInv, ToolsType, Accounted

(* Closing a session settles what was not.                                  *)
LEMMA ClosedSettles ==
    ASSUME ToolsInv, NEW rs
    PROVE  /\ Tools!Closed(rs) \in [Requests -> RecordStates]
           /\ \A r \in Requests :
                 \/ Tools!Closed(rs)[r] = record[r]
                 \/ Tools!Closed(rs)[r] \in {"uncertain", "cancelled"}
  BY DEF ToolsInv, ToolsType, Tools!Closed, RecordStates, Tools!Settled

(* The sessions are prepared, admitted, closed and lost, and the Worker     *)
(* connects and starts again.                                               *)
LEMMA SessionsMove ==
    ASSUME Tools!BrokerAssumption, ToolsInv,
           \/ \E g \in Tools!Commands : Tools!Prepare(g)
           \/ Tools!PrepareReplaced \/ Tools!AuthorityEnds \/ Tools!Reconnect \/ Tools!Restart
           \/ \E s \in Sessions :
                 \/ Tools!AdmitBegins(s) \/ Tools!admit(s) \/ Tools!closeSession(s)
                 \/ Tools!ClientLost(s) \/ Tools!CloseEnds(s)
           \/ UNCHANGED Tools!vars
    PROVE  ToolsInv'
<1>1. /\ UNCHANGED <<applied, bound>>
      /\ step' = step \/ step' = [r \in Requests |-> "idle"]
      /\ record' = record \/ \E rs : record' = Tools!Closed(rs)
  BY DEF Tools!Prepare, Tools!PrepareReplaced, Tools!AuthorityEnds, Tools!Reconnect,
         Tools!Restart, Tools!AdmitBegins, Tools!admit, Tools!closeSession, Tools!ClientLost,
         Tools!CloseEnds, Tools!CloseStored, Tools!BeginClose, Tools!store, Tools!vars
<1>2. /\ record' \in [Requests -> RecordStates]
      /\ \A r \in Requests : record'[r] = record[r] \/ record'[r] \in {"uncertain", "cancelled"}
  BY <1>1, ClosedSettles DEF ToolsInv, ToolsType
<1> QED
  BY <1>1, <1>2, RequestsSettle

(* A request is received, and refused or queued.                            *)
LEMMA RequestReceived ==
    ASSUME Tools!BrokerAssumption, ToolsInv, NEW s \in Sessions, NEW r \in Requests,
           Tools!execute(s, r)
    PROVE  ToolsInv'
<1>1. UNCHANGED <<applied, bound>>
  BY DEF Tools!execute
<1>2. CASE UNCHANGED <<record, step>>
  BY <1>1, <1>2, RequestsSettle DEF ToolsInv, ToolsType
<1>3. CASE /\ record[r] = "none" /\ record' = [record EXCEPT ![r] = "not_submitted"]
           /\ step' = [step EXCEPT ![r] = "queued"]
  <2>1. "not_submitted" \in RecordStates /\ "queued" \in Steps
    BY DEF RecordStates, Steps, Tools!Unsettled, Tools!InFlight
  <2>2. r \in Mutations => Accounted(r)'
    BY <1>1, <1>3 DEF ToolsInv, ToolsType, Accounted
  <2> QED
    BY <1>1, <1>3, <2>1, <2>2, RequestMoves DEF ToolsInv, ToolsType
<1> QED
  BY <1>2, <1>3 DEF Tools!execute

(* The coroutine of a request ends, with what is recorded of it.            *)
LEMMA RequestEnds ==
    ASSUME Tools!BrokerAssumption, ToolsInv, NEW r \in Requests, NEW s \in RecordStates,
           step[r] # "idle", UNCHANGED <<applied, bound>>, Tools!Ends(r),
           record' = [record EXCEPT ![r] = s],
           \/ s \in {record[r], "uncertain", "cancelled"}
           \/ s = "rejected" /\ (r \in Mutations => applied[r] = 0)
           \/ s = "completed" /\ (r \in Mutations => applied[r] = 1)
    PROVE  ToolsInv'
<1>1. step' = [step EXCEPT ![r] = "idle"] /\ "idle" \in Steps
  BY DEF Tools!Ends, Steps
<1>2. r \in Mutations => Accounted(r)'
  BY <1>1 DEF ToolsInv, ToolsType, Accounted
<1> QED
  BY <1>1, <1>2, RequestMoves DEF ToolsInv, ToolsType

(* A request fails: without a process it had no effect, with one a mutation *)
(* stays uncertain, unless the tool itself refused it.                      *)
LEMMA RequestFails ==
    ASSUME Tools!BrokerAssumption, ToolsInv, NEW r \in Requests, NEW error,
           step[r] \in {"spawning", "running", "refusing"}, UNCHANGED <<applied, bound>>,
           step[r] = "running" => error \in {"ambiguous", "other"}, Tools!Fail(r, error)
    PROVE  ToolsInv'
<1> DEFINE s == IF record[r] # "submitted" THEN record[r]
                ELSE IF Tools!classifyExecutionError(r, error) = "uncertain" THEN "uncertain"
                ELSE "rejected"
<1>1. record' = [record EXCEPT ![r] = s] /\ Tools!Ends(r)
  BY DEF Tools!Fail, ToolsInv, ToolsType
<1>2. s \in RecordStates
  BY DEF ToolsInv, ToolsType, RecordStates, Tools!Settled
<1>3. ASSUME r \in Mutations, step[r] = "running"
      PROVE  Tools!classifyExecutionError(r, error) = "uncertain"
  BY <1>3 DEF ToolsInv, Accounted, Tools!classifyExecutionError
<1>4. r \in Mutations /\ step[r] # "running" => applied[r] = 0
  BY DEF ToolsInv, Accounted
<1>5. s \in {record[r], "uncertain"} \/ (s = "rejected" /\ (r \in Mutations => applied[r] = 0))
  BY <1>3, <1>4
<1>6. step[r] # "idle"
  OBVIOUS
<1> HIDE DEF s
<1> QED
  BY <1>1, <1>2, <1>5, <1>6, RequestEnds

(* A request is admitted, given a process, and settled.                     *)
LEMMA RequestExecutes ==
    ASSUME Tools!BrokerAssumption, ToolsInv, NEW r \in Requests,
           \/ Tools!executeNow(r) \/ Tools!Spawned(r) \/ Tools!Complete(r) \/ Tools!Throws(r)
           \/ Tools!TimedOut(r)
           \/ \E error \in {"not_submitted", "ambiguous", "other"} : Tools!SpawnFails(r, error)
    PROVE  ToolsInv'
<1>0. /\ record[r] \in RecordStates /\ step[r] \in Steps
      /\ record = [record EXCEPT ![r] = record[r]] /\ step = [step EXCEPT ![r] = step[r]]
      /\ {"rejected", "submitted", "completed", "uncertain", "cancelled"} \subseteq RecordStates
      /\ {"spawning", "running", "refusing"} \subseteq Steps
  BY DEF ToolsInv, ToolsType, RecordStates, Steps, Tools!Settled, Tools!Unsettled,
         Tools!InFlight
<1>1. CASE Tools!executeNow(r)
  <2>1. UNCHANGED <<applied, bound>> /\ step[r] = "queued" /\ (r \in Mutations => applied[r] = 0)
    BY <1>1 DEF Tools!executeNow, ToolsInv, Accounted
  <2>2. CASE Tools!Ends(r) /\ UNCHANGED record
    BY <1>0, <2>1, <2>2, RequestEnds
  <2>3. CASE Tools!Ends(r) /\ record' = [record EXCEPT ![r] = "rejected"]
    BY <1>0, <2>1, <2>3, RequestEnds
  <2>4. CASE /\ record' = [record EXCEPT ![r] = "submitted"]
             /\ step' = [step EXCEPT ![r] = "spawning"]
    <3>1. r \in Mutations => Accounted(r)'
      BY <2>1, <2>4 DEF ToolsInv, ToolsType, Accounted
    <3> QED
      BY <1>0, <2>1, <2>4, <3>1, RequestMoves DEF ToolsInv, ToolsType
  <2> QED
    BY <1>1, <2>2, <2>3, <2>4 DEF Tools!executeNow
<1>2. CASE Tools!Spawned(r)
  <2>1. UNCHANGED record /\ step[r] = "spawning" /\ (r \in Mutations => applied[r] = 0)
    BY <1>2 DEF Tools!Spawned, ToolsInv, Accounted
  <2>2. CASE Tools!Ends(r) /\ UNCHANGED <<bound, applied>>
    BY <1>0, <2>1, <2>2, RequestEnds
  <2>3. CASE /\ record[r] = "submitted" /\ bound' = bound \cup {r}
             /\ step' = [step EXCEPT ![r] = "running"]
             /\ applied' = [applied EXCEPT ![r] = @ + 1]
    <3>1. r \in Mutations => Accounted(r)'
      BY <2>1, <2>3 DEF ToolsInv, ToolsType, Accounted
    <3>2. applied' \in [Requests -> Nat] /\ \A q \in Requests : q # r => applied'[q] = applied[q]
      BY <2>3 DEF ToolsInv, ToolsType
    <3> QED
      BY <1>0, <2>1, <2>3, <3>1, <3>2, RequestMoves
  <2>4. CASE /\ record[r] = "submitted" /\ bound' = bound \cup {r}
             /\ step' = [step EXCEPT ![r] = "refusing"] /\ UNCHANGED applied
    <3>1. r \in Mutations => Accounted(r)'
      BY <2>1, <2>4 DEF ToolsInv, ToolsType, Accounted
    <3> QED
      BY <1>0, <2>1, <2>4, <3>1, RequestMoves DEF ToolsInv, ToolsType
  <2> QED
    BY <1>2, <2>2, <2>3, <2>4 DEF Tools!Spawned
<1>3. CASE Tools!Complete(r)
  <2>1. UNCHANGED <<applied, bound>> /\ step[r] = "running" /\ (r \in Mutations => applied[r] = 1)
    BY <1>3 DEF Tools!Complete, ToolsInv, Accounted
  <2>2. CASE Tools!Ends(r) /\ UNCHANGED record
    BY <1>0, <2>1, <2>2, RequestEnds
  <2>3. CASE Tools!Ends(r) /\ record' = [record EXCEPT ![r] = "completed"]
    BY <1>0, <2>1, <2>3, RequestEnds
  <2>4. CASE Tools!Fail(r, "other")
    BY <2>1, <2>4, RequestFails
  <2> QED
    BY <1>3, <2>2, <2>3, <2>4 DEF Tools!Complete
<1>4. CASE Tools!Throws(r)
  <2>1. UNCHANGED <<applied, bound>> /\ step[r] \in {"running", "refusing"}
    BY <1>4 DEF Tools!Throws
  <2>2. PICK error : /\ Tools!Fail(r, error)
                     /\ step[r] = "running" => error \in {"ambiguous", "other"}
    BY <1>4 DEF Tools!Throws
  <2> QED
    BY <2>1, <2>2, RequestFails
<1>5. CASE Tools!TimedOut(r)
  <2>1. UNCHANGED <<applied, bound>> /\ step[r] \in {"running", "refusing"}
    BY <1>5 DEF Tools!TimedOut
  <2>2. CASE Tools!Fail(r, "ambiguous")
    BY <2>1, <2>2, RequestFails
  <2>3. CASE /\ record' = [record EXCEPT ![r] = IF @ \in Tools!Unsettled THEN "cancelled" ELSE @]
             /\ Tools!Ends(r)
    <3>1. PICK s \in {record[r], "cancelled"} : record' = [record EXCEPT ![r] = s]
      BY <2>3 DEF ToolsInv, ToolsType
    <3> QED
      BY <1>0, <2>1, <2>3, <3>1, RequestEnds
  <2> QED
    BY <1>5, <2>2, <2>3 DEF Tools!TimedOut
<1>6. CASE \E error \in {"not_submitted", "ambiguous", "other"} : Tools!SpawnFails(r, error)
  BY <1>6, RequestFails DEF Tools!SpawnFails
<1> QED
  BY <1>1, <1>2, <1>3, <1>4, <1>5, <1>6

(* A request is cancelled, and its process is gone or no one knows.         *)
LEMMA RequestCancelled ==
    ASSUME Tools!BrokerAssumption, ToolsInv, NEW r \in Requests,
           Tools!cancel(r) \/ \E by \in {"cancel", "close"} : Tools!CancelSettles(r, by)
    PROVE  ToolsInv'
<1>1. UNCHANGED <<step, applied, bound>>
  BY DEF Tools!cancel, Tools!CancelSettles
<1>2. PICK s \in {record[r], "cancelled", "uncertain"} : record' = [record EXCEPT ![r] = s]
  BY DEF Tools!cancel, Tools!CancelSettles, ToolsInv, ToolsType
<1>3. /\ record' \in [Requests -> RecordStates]
      /\ \A q \in Requests : record'[q] = record[q] \/ record'[q] \in {"uncertain", "cancelled"}
  BY <1>2 DEF ToolsInv, ToolsType, RecordStates, Tools!Settled
<1> QED
  BY <1>1, <1>3, RequestsSettle

(* What the store says of a mutation is true, for every number of sessions, *)
(* requests and connections: it took effect at most once, not at all when   *)
(* it was rejected or never submitted, and it did when it completed,        *)
(* through cancellations during the spawn, lost streams, repeated requests, *)
(* reconnections and restarts (executeNow, classifyExecutionError,          *)
(* reconcileRestart).                                                       *)
THEOREM MutationsAlwaysAccountedFor ==
    ASSUME Tools!BrokerAssumption PROVE Tools!Spec => []MutationsAreAccountedFor
<1>1. ToolsInv /\ [Tools!Next]_(Tools!vars) => ToolsInv'
  BY SessionsMove, RequestReceived, RequestExecutes, RequestCancelled DEF Tools!Next
<1>2. Tools!Spec => []ToolsInv
  BY <1>1, ToolsInit, PTL DEF Tools!Spec
<1>3. ToolsInv => MutationsAreAccountedFor
  BY DEF ToolsInv, ToolsType, Accounted, MutationsAreAccountedFor,
         Tools!MutationsAreAccountedFor, Tools!Reads
<1> QED
  BY <1>2, <1>3, PTL

-----------------------------------------------------------------------------
(* The Delivery of a Run (RunDelivery).                                     *)

(* What the Worker reports.  A publication it reports is among those it     *)
(* made: a report that is lost or late is never a false one.                *)
Reports ==
    [type : {"inspected"}, fingerprint : Contents]
    \cup [type : {"failed"}, failure : {"retryable", "final"}]
    \cup {[type |-> "published", fingerprint |-> p[2], head |-> p[1]] : p \in reported}

DeliveryType ==
    /\ DOMAIN row = {"state", "fingerprint", "head", "failure"}
    /\ DOMAIN desk = {"call", "fingerprint", "answer"}
    /\ DOMAIN workspace = {"content", "head"} /\ workspace.content \in Contents
    /\ inbox \in Seq(Reports) /\ \A p \in reported : p = <<p[1], p[2]>>

RowIsPublished == <<row.head, row.fingerprint>> \in reported

(* From the publication on, the row names what the Worker published; while  *)
(* the provider is asked about the review, it does so whatever the Worker   *)
(* reports meanwhile, and only then may the Quest be completed.             *)
DeliveryInv ==
    /\ DeliveryType
    /\ row.state \in {"creating_review", "review_open", "merged", "closed_unmerged"}
         => RowIsPublished
    /\ desk.call \in {"create", "inspect"} =>
         /\ RowIsPublished
         /\ row.state \in {"creating_review", "review_open", "attention_required", "pending"}
    /\ desk.call # "none" => row.state # "merged"
    /\ quest # None => row.state = "merged" /\ quest = row.head

(* Nothing is published, and the provider and the Quest are untouched.      *)
LEMMA DeliveryInit == Delivery!DeliveryAssumption /\ Delivery!Init => DeliveryInv
  BY DEF Delivery!DeliveryAssumption, Delivery!Init, Delivery!Free, DeliveryInv, DeliveryType

(* What was published stays published.                                      *)
LEMMA ReportsStayTrue == reported \subseteq reported' => Reports \subseteq Reports'
  BY DEF Reports

(* A report is received: only a publication of what was inspected last      *)
(* changes what the row names as published.                                 *)
LEMMA ReportReceived ==
    ASSUME DeliveryInv, Delivery!Receive PROVE DeliveryInv'
<1>1. UNCHANGED <<desk, workspace, quest, reported>> /\ inbox' \in Seq(Reports)
  BY DEF Delivery!Receive, DeliveryInv, DeliveryType
<1>2. UNCHANGED Reports
  BY <1>1 DEF Reports
<1>3. PICK m \in Reports :
         \/ m.type = "inspected" /\ row' = Delivery!Inspected(m.fingerprint)
         \/ m.type = "published" /\ row' = Delivery!Published(m.fingerprint, m.head)
         \/ m.type = "failed" /\ row' = Delivery!Failed(m.failure)
  <2>1. Head(inbox) \in Reports
    BY DEF Delivery!Receive, DeliveryInv, DeliveryType
  <2>2. Head(inbox).type \in {"inspected", "published", "failed"}
    BY <2>1 DEF Reports
  <2> QED
    BY <2>1, <2>2 DEF Delivery!Receive
<1>4. CASE row' = row
  BY <1>1, <1>2, <1>4 DEF DeliveryInv, DeliveryType, RowIsPublished
<1>5. CASE /\ row.state \in {"preparing", "publishing"}
           /\ row'.state \in {"no_changes", "publishing"} /\ DOMAIN row' = DOMAIN row
  BY <1>1, <1>2, <1>5 DEF DeliveryInv, DeliveryType
<1>6. CASE /\ row.state \in {"preparing", "publishing", "creating_review"}
           /\ row' = Delivery!Attention(m.failure)
  BY <1>1, <1>2, <1>6 DEF DeliveryInv, DeliveryType, RowIsPublished, Delivery!Attention
<1>7. CASE /\ row.state \in {"publishing", "creating_review"} /\ row.fingerprint = m.fingerprint
           /\ m.type = "published"
           /\ row' = [row EXCEPT !.state = "creating_review", !.head = m.head,
                                 !.failure = "none"]
  <2>1. <<m.head, m.fingerprint>> \in reported
    <3>1. PICK p \in reported : m = [type |-> "published", fingerprint |-> p[2], head |-> p[1]]
      BY <1>7 DEF Reports
    <3>2. p = <<m.head, m.fingerprint>>
      BY <3>1 DEF DeliveryInv, DeliveryType
    <3> QED
      BY <3>2
  <2>2. /\ row'.state = "creating_review" /\ row'.head = m.head /\ DOMAIN row' = DOMAIN row
        /\ row'.fingerprint = m.fingerprint
    BY <1>7 DEF DeliveryInv, DeliveryType
  <2> QED
    BY <1>1, <1>2, <1>7, <2>1, <2>2 DEF DeliveryInv, DeliveryType, RowIsPublished
<1>8. /\ DOMAIN row = {"state", "fingerprint", "head", "failure"}
  BY DEF DeliveryInv, DeliveryType
<1>9. CASE row' = Delivery!Inspected(m.fingerprint)
  BY <1>4, <1>5, <1>8, <1>9 DEF Delivery!Inspected
<1>10. CASE m.type = "published" /\ row' = Delivery!Published(m.fingerprint, m.head)
  BY <1>4, <1>7, <1>10 DEF Delivery!Published
<1>11. CASE row' = Delivery!Failed(m.failure)
  BY <1>4, <1>6, <1>11 DEF Delivery!Failed
<1> QED
  BY <1>3, <1>9, <1>10, <1>11

(* The user retries, and the coordinator reads the row and asks.            *)
LEMMA CoordinatorAsks ==
    ASSUME DeliveryInv,
           \/ Delivery!Retry \/ Delivery!SendInspection \/ Delivery!BeginCall
           \/ Delivery!EndPreflight
    PROVE  DeliveryInv'
<1>1. UNCHANGED <<inbox, workspace, quest, reported>> /\ UNCHANGED Reports
  BY DEF Delivery!Retry, Delivery!SendInspection, Delivery!BeginCall, Delivery!EndPreflight,
         Reports
<1>2. CASE Delivery!Retry
  BY <1>1, <1>2 DEF Delivery!Retry, DeliveryInv, DeliveryType, RowIsPublished
<1>3. CASE Delivery!SendInspection
  BY <1>1, <1>3 DEF Delivery!SendInspection, DeliveryInv, DeliveryType
<1>4. CASE Delivery!BeginCall
  <2>1. /\ UNCHANGED row /\ row.state \in {"publishing", "creating_review", "review_open"}
        /\ row.state = "publishing" => desk'.call = "preflight"
        /\ DOMAIN desk' = {"call", "fingerprint", "answer"}
    BY <1>4 DEF Delivery!BeginCall, Delivery!CallOf, Delivery!Free
  <2> QED
    BY <1>1, <2>1 DEF DeliveryInv, DeliveryType, RowIsPublished
<1>5. CASE Delivery!EndPreflight
  <2>1. /\ row' = row \/ row' = Delivery!Attention("retryable")
        /\ desk.call = "preflight" /\ desk'.call = "none"
        /\ DOMAIN desk' = {"call", "fingerprint", "answer"}
    BY <1>5 DEF Delivery!EndPreflight, Delivery!Free
  <2> QED
    BY <1>1, <2>1 DEF DeliveryInv, DeliveryType, RowIsPublished, Delivery!Attention
<1> QED
  BY <1>2, <1>3, <1>4, <1>5

(* The provider answers with the review it has, or fails.                   *)
LEMMA ProviderAnswered ==
    ASSUME DeliveryInv,
           Delivery!ProviderFails \/ Delivery!ProviderCreates \/ Delivery!ProviderAnswers
    PROVE  DeliveryInv'
<1>1. PICK answer : desk' = [desk EXCEPT !.answer = answer]
  BY DEF Delivery!ProviderFails, Delivery!ProviderCreates, Delivery!ProviderAnswers,
         Delivery!Answers
<1>2. UNCHANGED <<row, inbox, workspace, quest, reported>> /\ UNCHANGED Reports
  BY DEF Delivery!ProviderFails, Delivery!ProviderCreates, Delivery!ProviderAnswers, Reports
<1> QED
  BY <1>1, <1>2 DEF DeliveryInv, DeliveryType, RowIsPublished

(* The coordinator acts on the answer: a review of another revision needs   *)
(* attention, and only a merged review of the published one completes the   *)
(* Quest.                                                                   *)
LEMMA ReviewObserved ==
    ASSUME DeliveryInv, Delivery!EndReview PROVE DeliveryInv'
<1>1. /\ UNCHANGED <<inbox, workspace, reported>> /\ UNCHANGED Reports
      /\ desk.call \in {"create", "inspect"} /\ desk'.call = "none"
      /\ DOMAIN desk' = {"call", "fingerprint", "answer"}
  BY DEF Delivery!EndReview, Delivery!Free, Reports
<1>2. RowIsPublished /\ row.state # "merged"
      /\ DOMAIN row = {"state", "fingerprint", "head", "failure"}
  BY <1>1 DEF DeliveryInv, DeliveryType
<1>3. quest = None
  BY <1>2 DEF DeliveryInv
<1>4. /\ DOMAIN row' = DOMAIN row /\ row'.head = row.head /\ row'.fingerprint = row.fingerprint
      /\ \/ UNCHANGED quest
         \/ row'.state = "merged" /\ quest' = row.head
  BY <1>2 DEF Delivery!EndReview, Delivery!ObserveReview, Delivery!VerifyReviewIdentity,
              Delivery!Attention
<1> QED
  BY <1>1, <1>2, <1>3, <1>4 DEF DeliveryInv, DeliveryType, RowIsPublished

(* The Worker handles a command: what it reports as published, it was.      *)
LEMMA CommandHandled ==
    ASSUME DeliveryInv, NEW j \in Jobs, Delivery!CommandFails(j) \/ Delivery!Handle(j)
    PROVE  DeliveryInv'
<1>1. UNCHANGED <<row, desk, quest>> /\ reported \subseteq reported'
      /\ DOMAIN workspace' = {"content", "head"} /\ workspace'.content \in Contents
  BY DEF Delivery!CommandFails, Delivery!Handle, Delivery!Inspect, Delivery!Compare,
         Delivery!ReadStatus, Delivery!Commit, Delivery!CheckClean, Delivery!ReadHead,
         Delivery!LookUpRemote, Delivery!Push, Delivery!ReportPublished, DeliveryInv,
         DeliveryType
<1>2. inbox \in Seq(Reports')
  BY <1>1, ReportsStayTrue DEF DeliveryInv, DeliveryType
<1>3. inbox' = inbox \/ \E m \in Reports' : inbox' = Append(inbox, m)
  <2>1. ASSUME Delivery!ReportPublished(j)
        PROVE  \E m \in Reports' : inbox' = Append(inbox, m)
    <3>1. /\ <<jobs[j].head, jobs[j].expected>> \in reported'
          /\ inbox' = Append(inbox, [type |-> "published", fingerprint |-> jobs[j].expected,
                                     head |-> jobs[j].head])
      BY <2>1 DEF Delivery!ReportPublished, Delivery!Report
    <3> QED
      BY <3>1 DEF Reports
  <2>2. ASSUME NEW failure \in {"retryable", "final"}, Delivery!Fail(j, failure)
        PROVE  \E m \in Reports' : inbox' = Append(inbox, m)
    BY <2>2 DEF Delivery!Fail, Delivery!Report, Reports
  <2>3. CASE Delivery!CommandFails(j)
    BY <2>2, <2>3 DEF Delivery!CommandFails
  <2>4. CASE Delivery!Inspect(j)
    BY <2>4 DEF Delivery!Inspect, Delivery!Report, Reports, DeliveryInv, DeliveryType
  <2>5. CASE \/ Delivery!Compare(j, "compare", "status") \/ Delivery!Compare(j, "final", "read")
             \/ Delivery!ReadStatus(j) \/ Delivery!Commit(j) \/ Delivery!CheckClean(j)
             \/ Delivery!ReadHead(j)
    BY <2>2, <2>5 DEF Delivery!Compare, Delivery!ReadStatus, Delivery!Commit,
                      Delivery!CheckClean, Delivery!ReadHead
  <2>6. CASE Delivery!LookUpRemote(j) \/ Delivery!Push(j)
    BY <2>1, <2>2, <2>6 DEF Delivery!LookUpRemote, Delivery!Push
  <2> QED
    BY <2>3, <2>4, <2>5, <2>6 DEF Delivery!Handle
<1>4. inbox' \in Seq(Reports')
  BY <1>2, <1>3
<1>5. reported' = reported \/ \E h, f : reported' = reported \cup {<<h, f>>}
  BY DEF Delivery!CommandFails, Delivery!Handle, Delivery!Inspect, Delivery!Compare,
         Delivery!ReadStatus, Delivery!Commit, Delivery!CheckClean, Delivery!ReadHead,
         Delivery!LookUpRemote, Delivery!Push, Delivery!ReportPublished
<1>6. \A p \in reported' : p = <<p[1], p[2]>>
  BY <1>5 DEF DeliveryInv, DeliveryType
<1> QED
  BY <1>1, <1>4, <1>6 DEF DeliveryInv, DeliveryType, RowIsPublished

(* The Worker restarts, and the user edits, pushes and merges or closes.    *)
LEMMA UserActs ==
    ASSUME DeliveryInv,
           \/ Delivery!Restart \/ Delivery!Edit \/ Delivery!ForeignPush \/ Delivery!CloseReview
           \/ UNCHANGED Delivery!vars
    PROVE  DeliveryInv'
<1>1. UNCHANGED <<row, desk, quest, reported>> /\ UNCHANGED Reports
  BY DEF Delivery!Restart, Delivery!Edit, Delivery!ForeignPush, Delivery!CloseReview,
         Delivery!vars, Reports
<1>2. inbox' = inbox \/ inbox' = <<>>
  BY DEF Delivery!Restart, Delivery!Edit, Delivery!ForeignPush, Delivery!CloseReview,
         Delivery!vars
<1>3. DOMAIN workspace' = {"content", "head"} /\ workspace'.content \in Contents
  BY DEF Delivery!Restart, Delivery!Edit, Delivery!ForeignPush, Delivery!CloseReview,
         Delivery!vars, DeliveryInv, DeliveryType
<1>4. <<>> \in Seq(Reports)
  OBVIOUS
<1>5. inbox' \in Seq(Reports)
  BY <1>2, <1>4 DEF DeliveryInv, DeliveryType
<1> QED
  BY <1>1, <1>3, <1>5 DEF DeliveryInv, DeliveryType, RowIsPublished

(* A Quest is completed only by a Pull Request whose head the Worker        *)
(* published with the fingerprint the Product shows, for every number of    *)
(* handlers and whatever content the workspace may hold: never by a branch  *)
(* somebody else advanced, nor by a publication of content that was         *)
(* inspected again since, whatever the order of reports, provider answers   *)
(* and retries (observe_review, verify_review_identity, published).         *)
THEOREM CompletedWorkWasAlwaysPublished ==
    ASSUME Delivery!DeliveryAssumption PROVE Delivery!Spec => []CompletedWorkWasPublished
<1>1. DeliveryInv /\ [Delivery!Next]_(Delivery!vars) => DeliveryInv'
  BY ReportReceived, CoordinatorAsks, ProviderAnswered, ReviewObserved, CommandHandled,
     UserActs DEF Delivery!Next, Delivery!Coordinate, Delivery!Serve
<1>2. Delivery!Spec => []DeliveryInv
  BY <1>1, DeliveryInit, PTL DEF Delivery!Spec
<1>3. DeliveryInv => CompletedWorkWasPublished
  BY DEF DeliveryInv, RowIsPublished, CompletedWorkWasPublished,
         Delivery!CompletedWorkWasPublished
<1> QED
  BY <1>2, <1>3, PTL

-----------------------------------------------------------------------------
(* The cleanup of a Run (RunCleanup).                                       *)

CleanupType ==
    /\ DOMAIN pass = {"stage", "retry"} /\ pass.stage \in Cleanup!Stages \cup {None}
    /\ cl # None => cl \in Cleanup!Cleanups

(* An operation runs once the Run is settled, and what its row says of the  *)
(* sessions and of the environment is true: they are gone for good.         *)
RowIsTrue ==
    /\ cl.harness = "retired" => harness = "closed"
    /\ cl.env = "removed" => env \in {"none", "gone"}

CleanupInv ==
    /\ CleanupType
    /\ pass.stage # None \/ cl # None => local = "settled"
    /\ cl # None => RowIsTrue
    /\ pass.stage \notin {None, "freeze"} => cl # None
    /\ pass.stage = "closed" => harness = "closed"
    /\ pass.stage \in {"inspect", "stop", "remove"} => cl.env # "removed"
    /\ pass.stage = "removed" => env = "gone"
    /\ pass.stage \in {"repository", "verify", "status", "rm", "record"}
         => cl.harness = "retired" /\ cl.env = "removed"
    /\ pass.stage = "rm" => ~dirty

(* Nothing was requested.                                                   *)
LEMMA CleanupInit == Cleanup!CleanupAssumption /\ Cleanup!Init => CleanupInv
  BY DEF Cleanup!CleanupAssumption, Cleanup!Init, Cleanup!Idle, Cleanup!Stages,
         CleanupInv, CleanupType

(* The Run executes and settles, commands provision, verify and publish its *)
(* worktree: once the Run is settled nothing of this opens what cleanup     *)
(* closed, nor makes a committed worktree dirty.                            *)
LEMMA CommandsRun ==
    ASSUME Cleanup!CleanupAssumption, CleanupInv,
           \/ Cleanup!Execute \/ Cleanup!Import \/ Cleanup!ExecutionSettles
           \/ Cleanup!EnvironmentStops
           \/ \E c \in Calls : \/ Cleanup!persistRequest(c) \/ Cleanup!verify(c, "retain")
                               \/ Cleanup!verify(c, "deliver") \/ Cleanup!CallStep(c)
           \/ UNCHANGED Cleanup!vars
    PROVE  CleanupInv'
<1>1. UNCHANGED <<pass, cl>>
  BY DEF Cleanup!Execute, Cleanup!Import, Cleanup!ExecutionSettles, Cleanup!EnvironmentStops,
         Cleanup!persistRequest, Cleanup!verify, Cleanup!CallStep, Cleanup!provision,
         Cleanup!initializeIsolatedRepository, Cleanup!FetchBase, Cleanup!ProvisionProblem,
         Cleanup!ProvisionVerified, Cleanup!verifyPhysical, Cleanup!Conclude, Cleanup!publish,
         Cleanup!vars
<1>2. local = "settled" =>
        /\ local' = local /\ harness' = harness /\ (~dirty => ~dirty')
        /\ env' = env \/ (env = "stopping" /\ env' = "stopped")
  BY DEF Cleanup!Execute, Cleanup!Import, Cleanup!ExecutionSettles, Cleanup!EnvironmentStops,
         Cleanup!persistRequest, Cleanup!verify, Cleanup!CallStep, Cleanup!provision,
         Cleanup!initializeIsolatedRepository, Cleanup!FetchBase, Cleanup!ProvisionProblem,
         Cleanup!ProvisionVerified, Cleanup!verifyPhysical, Cleanup!Conclude, Cleanup!publish,
         Cleanup!resources, Cleanup!vars
<1>3. CASE local = "settled"
  BY <1>1, <1>2, <1>3 DEF CleanupInv, CleanupType, RowIsTrue
<1>4. CASE local # "settled"
  <2>1. pass.stage = None /\ cl = None
    BY <1>4 DEF CleanupInv
  <2> QED
    BY <1>1, <2>1 DEF CleanupInv, CleanupType, Cleanup!CleanupAssumption, Cleanup!Stages
<1> QED
  BY <1>3, <1>4

(* An operation starts, on a settled Run, and a restart ends it.            *)
LEMMA OperationStarts ==
    ASSUME Cleanup!CleanupAssumption, CleanupInv,
           Cleanup!Request \/ Cleanup!Scan \/ Cleanup!Restart
    PROVE  CleanupInv'
<1>1. UNCHANGED <<local, harness, env, dirty, cl>>
  BY DEF Cleanup!Request, Cleanup!Scan, Cleanup!Start, Cleanup!Restart, Cleanup!resources
<1>2. /\ DOMAIN pass' = {"stage", "retry"} /\ pass'.stage \in {"freeze", "host", None}
      /\ pass'.stage # None => local = "settled"
      /\ pass'.stage = "host" => cl # None
  BY DEF Cleanup!Request, Cleanup!Scan, Cleanup!Start, Cleanup!Restart, Cleanup!Idle,
         Cleanup!RunIdle, Cleanup!CleanupAssumption, Cleanup!Stages
<1> QED
  BY <1>1, <1>2 DEF CleanupInv, CleanupType, RowIsTrue, Cleanup!CleanupAssumption,
                    Cleanup!Stages

(* The operation goes on to a stage, with its row as it is.                 *)
LEMMA PassMoves ==
    ASSUME Cleanup!CleanupAssumption, CleanupInv, NEW t \in Cleanup!Stages,
           pass.stage # None, Cleanup!PassGoes(t)
    PROVE  DOMAIN pass' = {"stage", "retry"} /\ pass'.stage = t
  BY DEF CleanupInv, CleanupType, Cleanup!PassGoes

(* The row advances to c and the operation to a stage of it, or ends.       *)
LEMMA RowAdvances ==
    ASSUME Cleanup!CleanupAssumption, CleanupInv, UNCHANGED <<local, harness, env, dirty>>,
           pass.stage # None, NEW c \in Cleanup!Cleanups,
           NEW t \in {None, "close", "inspect", "repository"}, Cleanup!Advance(c, t),
           c.harness = "retired" => harness = "closed",
           c.env = "removed" => env \in {"none", "gone"},
           t = "inspect" => c.env # "removed",
           t = "repository" => c.harness = "retired" /\ c.env = "removed"
    PROVE  CleanupInv'
<1>1. cl' = c /\ DOMAIN pass' = {"stage", "retry"} /\ pass'.stage = t
  BY DEF Cleanup!Advance, Cleanup!PassEnds, Cleanup!PassGoes, Cleanup!Idle, CleanupInv,
         CleanupType
<1> QED
  BY <1>1 DEF CleanupInv, CleanupType, RowIsTrue, Cleanup!CleanupAssumption, Cleanup!Stages

(* The row with one of its parts in another state is a row.                 *)
LEMMA RowParts ==
    ASSUME NEW c \in Cleanup!Cleanups
    PROVE  /\ \A h \in {"retiring", "retired", "unavailable"} :
                [c EXCEPT !.harness = h] = [harness |-> h, env |-> c.env, host |-> c.host,
                                            target |-> c.target]
           /\ \A e : [c EXCEPT !.env = e] = [harness |-> c.harness, env |-> e, host |-> c.host,
                                             target |-> c.target]
           /\ \A h : [c EXCEPT !.host = h] = [harness |-> c.harness, env |-> c.env, host |-> h,
                                              target |-> c.target]
  BY DEF Cleanup!Cleanups

(* What an operation turns to next: the environment when it is not removed, *)
(* the repository when the sessions are retired and the environment is.     *)
LEMMA NextStages ==
    ASSUME NEW c
    PROVE  /\ Cleanup!AfterHarness(c) \in {None, "inspect", "repository"}
           /\ Cleanup!AfterEnvironment(c) \in {None, "repository"}
           /\ (Cleanup!AfterHarness(c) = "inspect" /\ None # "inspect") => c.env # "removed"
           /\ (\/ Cleanup!AfterHarness(c) = "repository"
               \/ Cleanup!AfterEnvironment(c) = "repository") /\ None # "repository"
                 => c.harness = "retired" /\ c.env = "removed"
  BY DEF Cleanup!AfterHarness, Cleanup!AfterEnvironment, Cleanup!CleansEnvironment,
         Cleanup!RemovesRepository

(* The operation begins: the row is frozen and the sessions are closed.     *)
LEMMA SessionsClose ==
    ASSUME Cleanup!CleanupAssumption, CleanupInv,
           \/ Cleanup!freeze \/ Cleanup!requestHostCleanup \/ Cleanup!closeHarnessTargets
           \/ Cleanup!updateHarness
    PROVE  CleanupInv'
<1>0. /\ None \notin Cleanup!Stages /\ None # "inspect" /\ None # "repository"
      /\ pass.stage # None
  BY DEF Cleanup!CleanupAssumption, Cleanup!Stages, Cleanup!freeze,
         Cleanup!requestHostCleanup, Cleanup!closeHarnessTargets, Cleanup!updateHarness,
         Cleanup!PassAt
<1>1. CASE Cleanup!freeze
  <2>1. PICK e \in {"removed", "cleanup_requested", "failed"} :
          /\ cl' = [harness |-> "retiring", env |-> e, host |-> "cleanup_requested",
                    target |-> e = "cleanup_requested"]
          /\ e = "removed" => env = "none"
    BY <1>1 DEF Cleanup!freeze
  <2>2. cl' \in Cleanup!Cleanups /\ cl' # None
    <3>1. (e = "cleanup_requested") \in BOOLEAN
      OBVIOUS
    <3>2. cl' \in Cleanup!Cleanups
      BY <2>1, <3>1, Zenon DEF Cleanup!Cleanups
    <3> QED
      BY <3>2 DEF Cleanup!CleanupAssumption
  <2>3. DOMAIN pass' = {"stage", "retry"} /\ pass'.stage = "host"
    BY <1>0, <1>1, PassMoves DEF Cleanup!freeze, Cleanup!Stages
  <2>4. UNCHANGED <<local, harness, env, dirty>> /\ local = "settled"
    BY <1>0, <1>1 DEF Cleanup!freeze, Cleanup!resources, CleanupInv
  <2> QED
    BY <1>0, <2>1, <2>2, <2>3, <2>4 DEF CleanupInv, CleanupType, RowIsTrue, Cleanup!Stages
<1>2. CASE Cleanup!requestHostCleanup
  <2>1. cl \in Cleanup!Cleanups /\ RowIsTrue /\ UNCHANGED <<local, harness, env, dirty>>
    BY <1>0, <1>2 DEF Cleanup!requestHostCleanup, Cleanup!PassAt, Cleanup!resources,
                      CleanupInv, CleanupType, Cleanup!Stages
  <2>2. CASE Cleanup!Advance([cl EXCEPT !.harness = "retiring"], "close")
    <3> DEFINE c == [cl EXCEPT !.harness = "retiring"]
    <3>1. c \in Cleanup!Cleanups /\ c.harness = "retiring" /\ c.env = cl.env
      BY <2>1, RowParts DEF Cleanup!Cleanups
    <3> HIDE DEF c
    <3> QED
      BY <1>0, <2>1, <2>2, <3>1, RowAdvances DEF RowIsTrue, Cleanup!Stages, c
  <2>3. CASE Cleanup!Advance(cl, Cleanup!AfterHarness(cl))
    BY <1>0, <2>1, <2>3, NextStages, RowAdvances DEF RowIsTrue
  <2>4. CASE Cleanup!PassEnds /\ (cl' = cl \/ cl' = [cl EXCEPT !.host = "failed"])
    <3>1. PICK c \in Cleanup!Cleanups :
            cl' = c /\ c.harness = cl.harness /\ c.env = cl.env
      BY <2>1, <2>4, RowParts DEF Cleanup!Cleanups
    <3>2. Cleanup!Advance(c, None)
      BY <2>4, <3>1 DEF Cleanup!Advance
    <3> QED
      BY <1>0, <2>1, <3>1, <3>2, RowAdvances DEF RowIsTrue
  <2> QED
    BY <1>2, <2>2, <2>3, <2>4 DEF Cleanup!requestHostCleanup
<1>3. CASE Cleanup!closeHarnessTargets
  <2>1. /\ UNCHANGED <<local, env, dirty, cl>>
        /\ harness' = "closed" \/ harness' = harness
        /\ \E t \in {"closed", "unclosed"} :
             Cleanup!PassGoes(t) /\ (t = "closed" => harness' = "closed")
        /\ pass.stage = "close"
    BY <1>3 DEF Cleanup!closeHarnessTargets, Cleanup!PassAt
  <2>2. PICK t \in {"closed", "unclosed"} :
          /\ DOMAIN pass' = {"stage", "retry"} /\ pass'.stage = t
          /\ t = "closed" => harness' = "closed"
    BY <1>0, <2>1, PassMoves DEF Cleanup!Stages
  <2> QED
    BY <1>0, <2>1, <2>2 DEF CleanupInv, CleanupType, RowIsTrue, Cleanup!Stages
<1>4. CASE Cleanup!updateHarness
  <2>1. /\ cl \in Cleanup!Cleanups /\ RowIsTrue /\ UNCHANGED <<local, harness, env, dirty>>
        /\ pass.stage = "closed" => harness = "closed"
    BY <1>0, <1>4 DEF Cleanup!updateHarness, Cleanup!resources, CleanupInv, CleanupType,
                      Cleanup!Stages
  <2>2. PICK h \in {"retired", "unavailable"} :
          LET c == [cl EXCEPT !.harness = h]
          IN  (h = "retired" => harness = "closed")
              /\ Cleanup!Advance(c, Cleanup!AfterHarness(c))
    BY <1>4, <2>1 DEF Cleanup!updateHarness, Cleanup!PassAt
  <2> DEFINE c == [cl EXCEPT !.harness = h]
  <2>3. c \in Cleanup!Cleanups /\ c.harness = h /\ c.env = cl.env
    BY <2>1, RowParts DEF Cleanup!Cleanups
  <2>4. Cleanup!Advance(c, Cleanup!AfterHarness(c)) /\ (h = "retired" => harness = "closed")
    BY <2>2
  <2> HIDE DEF c
  <2> QED
    BY <1>0, <2>1, <2>3, <2>4, NextStages, RowAdvances DEF RowIsTrue
<1> QED
  BY <1>1, <1>2, <1>3, <1>4

(* The environment is stopped and removed, and its row says so afterwards.  *)
LEMMA EnvironmentGoes ==
    ASSUME Cleanup!CleanupAssumption, CleanupInv,
           \/ Cleanup!EnvironmentFails \/ Cleanup!advanceStop \/ Cleanup!stopOutcome
           \/ Cleanup!RemoveEnvironment \/ Cleanup!updateEnvironment
    PROVE  CleanupInv'
<1>0. /\ None \notin Cleanup!Stages /\ None # "repository" /\ pass.stage # None
      /\ pass.stage \in {"inspect", "stop", "remove", "removed"}
      /\ local = "settled" /\ cl # None /\ cl \in Cleanup!Cleanups /\ RowIsTrue
      /\ UNCHANGED <<local, harness, dirty>>
  BY DEF Cleanup!CleanupAssumption, Cleanup!Stages, Cleanup!EnvironmentFails,
         Cleanup!advanceStop, Cleanup!stopOutcome, Cleanup!RemoveEnvironment,
         Cleanup!updateEnvironment, Cleanup!PassAt, Cleanup!resources, CleanupInv, CleanupType
<1>1. ASSUME NEW e \in {"stopping", "removed", "failed", "uncertain"}, Cleanup!Environment(e),
             UNCHANGED env, e = "removed" => env = "gone"
      PROVE  CleanupInv'
  <2> DEFINE c == [cl EXCEPT !.env = e]
  <2>1. c \in Cleanup!Cleanups /\ c.env = e /\ c.harness = cl.harness
    BY <1>0, RowParts DEF Cleanup!Cleanups
  <2>2. Cleanup!Advance(c, Cleanup!AfterEnvironment(c))
    BY <1>1 DEF Cleanup!Environment
  <2> HIDE DEF c
  <2> QED
    BY <1>0, <1>1, <2>1, <2>2, NextStages, RowAdvances DEF RowIsTrue, Cleanup!Stages
<1>2. CASE Cleanup!EnvironmentFails
  BY <1>1, <1>2 DEF Cleanup!EnvironmentFails, Cleanup!resources
<1>3. CASE Cleanup!advanceStop
  <2>1. pass.stage = "inspect" /\ UNCHANGED cl /\ Cleanup!PassGoes("stop")
    BY <1>3 DEF Cleanup!advanceStop, Cleanup!PassAt
  <2>2. DOMAIN pass' = {"stage", "retry"} /\ pass'.stage = "stop"
    BY <1>0, <2>1, PassMoves DEF Cleanup!Stages
  <2> QED
    BY <1>0, <2>1, <2>2 DEF CleanupInv, CleanupType, RowIsTrue, Cleanup!Stages
<1>4. CASE Cleanup!stopOutcome
  <2>1. CASE Cleanup!PassGoes("remove") /\ UNCHANGED cl
    <3>1. DOMAIN pass' = {"stage", "retry"} /\ pass'.stage = "remove"
      BY <1>0, <2>1, PassMoves DEF Cleanup!Stages
    <3>2. UNCHANGED env /\ pass.stage = "stop"
      BY <1>4 DEF Cleanup!stopOutcome, Cleanup!PassAt, Cleanup!resources
    <3> QED
      BY <1>0, <2>1, <3>1, <3>2 DEF CleanupInv, CleanupType, RowIsTrue, Cleanup!Stages
  <2> QED
    BY <1>1, <1>4, <2>1 DEF Cleanup!stopOutcome, Cleanup!resources
<1>5. CASE Cleanup!RemoveEnvironment
  <2>1. pass.stage = "remove" /\ env' = "gone" /\ UNCHANGED cl
    BY <1>5 DEF Cleanup!RemoveEnvironment, Cleanup!PassAt
  <2>2. DOMAIN pass' = {"stage", "retry"} /\ pass'.stage = "removed"
    BY <1>0, <1>5, PassMoves DEF Cleanup!Stages, Cleanup!RemoveEnvironment
  <2> QED
    BY <1>0, <2>1, <2>2 DEF CleanupInv, CleanupType, RowIsTrue, Cleanup!Stages
<1>6. CASE Cleanup!updateEnvironment
  BY <1>1, <1>6 DEF Cleanup!updateEnvironment, Cleanup!PassAt, Cleanup!resources, CleanupInv
<1> QED
  BY <1>2, <1>3, <1>4, <1>5, <1>6

(* The repository is verified, found clean and removed.                     *)
LEMMA RepositoryGoes ==
    ASSUME Cleanup!CleanupAssumption, CleanupInv,
           \/ Cleanup!cleanup \/ Cleanup!CleanupVerifies \/ Cleanup!CleanupStatus
           \/ Cleanup!RemoveFiles \/ Cleanup!RemovalFails \/ Cleanup!RecordRemoval
    PROVE  CleanupInv'
<1>0. /\ None \notin Cleanup!Stages /\ pass.stage # None
      /\ pass.stage \in {"repository", "verify", "status", "rm", "record"}
      /\ local = "settled" /\ cl # None /\ cl \in Cleanup!Cleanups /\ RowIsTrue
      /\ UNCHANGED <<local, harness, env, dirty>>
  BY DEF Cleanup!CleanupAssumption, Cleanup!Stages, Cleanup!cleanup, Cleanup!CleanupVerifies,
         Cleanup!CleanupStatus, Cleanup!RemoveFiles, Cleanup!RemovalFails,
         Cleanup!RecordRemoval, Cleanup!PassAt, Cleanup!resources, CleanupInv, CleanupType
<1>1. ASSUME NEW h \in {"removed", "failed"}, Cleanup!HostRepository(h)
      PROVE  CleanupInv'
  <2> DEFINE c == [cl EXCEPT !.host = h]
  <2>1. c \in Cleanup!Cleanups /\ c.env = cl.env /\ c.harness = cl.harness
    BY <1>0, RowParts DEF Cleanup!Cleanups
  <2>2. Cleanup!Advance(c, None)
    BY <1>1 DEF Cleanup!HostRepository
  <2> HIDE DEF c
  <2> QED
    BY <1>0, <2>1, <2>2, RowAdvances DEF RowIsTrue, Cleanup!Stages
<1>2. ASSUME NEW t \in {"verify", "status", "rm", "record"}, Cleanup!PassGoes(t),
             UNCHANGED cl, t = "rm" => ~dirty
      PROVE  CleanupInv'
  <2>1. DOMAIN pass' = {"stage", "retry"} /\ pass'.stage = t
    BY <1>0, <1>2, PassMoves DEF Cleanup!Stages
  <2> QED
    BY <1>0, <1>2, <2>1 DEF CleanupInv, CleanupType, RowIsTrue, Cleanup!Stages
<1>3. CASE Cleanup!cleanup
  BY <1>1, <1>2, <1>3 DEF Cleanup!cleanup
<1>4. CASE Cleanup!CleanupVerifies
  BY <1>1, <1>2, <1>4 DEF Cleanup!CleanupVerifies
<1>5. CASE Cleanup!CleanupStatus
  BY <1>1, <1>2, <1>5 DEF Cleanup!CleanupStatus
<1>6. CASE Cleanup!RemoveFiles
  BY <1>2, <1>6 DEF Cleanup!RemoveFiles, Cleanup!PassAt, CleanupInv
<1>7. CASE Cleanup!RemovalFails \/ Cleanup!RecordRemoval
  BY <1>1, <1>7 DEF Cleanup!RemovalFails, Cleanup!RecordRemoval
<1> QED
  BY <1>3, <1>4, <1>5, <1>6, <1>7

(* The step that removes the first file of a sound repository is the        *)
(* removal of a clean repository by an operation on a settled Run, whose    *)
(* sessions are closed and whose environment is gone.                       *)
LEMMA OnlyCleanupRemoves ==
    ASSUME Cleanup!CleanupAssumption, CleanupInv, [Cleanup!Next]_(Cleanup!vars),
           directory = "sound", directory' = "partial"
    PROVE  /\ Cleanup!RunIdle /\ harness = "closed"
           /\ env \in {"none", "gone"} /\ ~dirty
<1>1. pass.stage = "rm"
  BY DEF Cleanup!Next, Cleanup!CleanupStep, Cleanup!CallStep, Cleanup!vars, Cleanup!PassAt,
         Cleanup!Execute, Cleanup!Import, Cleanup!ExecutionSettles, Cleanup!EnvironmentStops,
         Cleanup!persistRequest, Cleanup!verify, Cleanup!provision,
         Cleanup!initializeIsolatedRepository, Cleanup!FetchBase, Cleanup!ProvisionProblem,
         Cleanup!ProvisionVerified, Cleanup!verifyPhysical, Cleanup!Conclude, Cleanup!publish,
         Cleanup!Request, Cleanup!Scan, Cleanup!Start, Cleanup!freeze,
         Cleanup!requestHostCleanup, Cleanup!closeHarnessTargets, Cleanup!updateHarness,
         Cleanup!EnvironmentFails, Cleanup!advanceStop, Cleanup!stopOutcome,
         Cleanup!RemoveEnvironment, Cleanup!updateEnvironment, Cleanup!cleanup,
         Cleanup!CleanupVerifies, Cleanup!CleanupStatus, Cleanup!RemoveFiles,
         Cleanup!RemovalFails, Cleanup!RecordRemoval, Cleanup!Restart
<1> QED
  BY <1>1 DEF CleanupInv, CleanupType, RowIsTrue, Cleanup!CleanupAssumption,
              Cleanup!Stages, Cleanup!RunIdle

(* The host repository is the last resource of a Run to go, for every       *)
(* number of commands and restarts: its files are removed only when nothing *)
(* of the Run executes, its sessions are closed, its environment is gone    *)
(* and all work is committed, though the row that says so was written by    *)
(* operations that were interrupted and repeated (advance, cleanup).        *)
THEOREM RepositoryAlwaysGoesLast ==
    ASSUME Cleanup!CleanupAssumption PROVE Cleanup!Spec => RepositoryGoesLast
<1>1. CleanupInv /\ [Cleanup!Next]_(Cleanup!vars) => CleanupInv'
  BY CommandsRun, OperationStarts, SessionsClose, EnvironmentGoes, RepositoryGoes
  DEF Cleanup!Next, Cleanup!CleanupStep
<1>2. Cleanup!Spec => []CleanupInv
  BY <1>1, CleanupInit, PTL DEF Cleanup!Spec
<1>3. CleanupInv /\ [Cleanup!Next]_(Cleanup!vars) =>
        [(directory = "sound" /\ directory' = "partial") =>
           /\ Cleanup!RunIdle /\ harness = "closed"
           /\ env \in {"none", "gone"} /\ ~dirty]_(Cleanup!vars)
  BY OnlyCleanupRemoves
<1> QED
  BY <1>2, <1>3, PTL DEF Cleanup!Spec, RepositoryGoesLast, Cleanup!RepositoryGoesLast

-----------------------------------------------------------------------------
(* The exports of a Run (RunExport).                                        *)

OpType == [stage : Export!CompletionStage \cup {None}, action : Nat,
           export : Export!Export \cup {None}]
WorkType == [store : {"none", "creating", "ready", "attention"}, head : Export!Commits,
             tree : Export!Commits]
ActiveType == [lineage : Lineages, action : 1..MaxActions, stage : Export!Stage,
               restore : Export!Export \cup {None}]

ExportType ==
    /\ incarnation \in Export!Incarnations /\ edits \in 0..MaxEdits /\ actions \in 0..MaxActions
    /\ exec \in [Lineages -> Export!Execution \cup {None}] /\ op \in [Lineages -> OpType]
    /\ work \in [Export!Incarnations -> [Lineages -> WorkType]]
    /\ active \in ActiveType \cup {Export!NoAction}

(* What a row holds as verified is in the host worktree and, while its      *)
(* environment lasts, in the worktree of its lineage.                       *)
RowIsKept(l) == exec[l] # None =>
    /\ Export!ExpectedTree(l) \subseteq hostTree
    /\ exec[l].inc <= incarnation
    /\ exec[l].change # None => exec[l].change = exec[l].recovery
    /\ exec[l].inc = incarnation =>
         /\ Export!ExpectedTree(l) \subseteq work[incarnation][l].tree
         /\ work[incarnation][l].store # "none"

(* A completion carries an export built on what its lineage verified last,  *)
(* and binds it only as part of the action that made it.                    *)
ExportIsBuiltOn(l) == op[l].stage # None =>
    /\ op[l].action <= actions /\ op[l].export # None
    /\ exec[l] # None /\ Export!ExpectedTree(l) \subseteq op[l].export.tree
    /\ op[l].stage = "imported" => op[l].export.tree \subseteq hostTree
    /\ Export!Current(l) =>
         active.stage = "running" /\ op[l].export.tree \subseteq work[incarnation][l].tree

(* An action that was prepared restores what its lineage verified, or what  *)
(* it inherits, and records the row once its worktree holds it.             *)
PreparationRestores == active.stage # None =>
    /\ active.action <= actions
    /\ active.restore # None => active.restore.tree \subseteq hostTree
    /\ active.stage \notin {"ensure", "running"} /\ exec[active.lineage] # None =>
         IF exec[active.lineage].inc = incarnation THEN active.restore = None
         ELSE active.restore = exec[active.lineage].recovery /\ active.restore # None
    /\ active.stage \in {"populate", "record"} => Export!Worktree.store # "none"
    /\ active.stage = "populate" => active.restore # None
    /\ active.stage = "record" /\ active.restore # None =>
         active.restore.tree \subseteq Export!Worktree.tree
    /\ active.stage = "running" =>
         exec[active.lineage] # None /\ exec[active.lineage].inc = incarnation

ExportInv ==
    /\ ExportType
    /\ \A l \in Lineages : RowIsKept(l) /\ ExportIsBuiltOn(l)
    /\ PreparationRestores

(* Nothing was claimed, and no lineage has a row.                           *)
LEMMA ExportInit == Export!ExportAssumption /\ Export!Init => ExportInv
<1> SUFFICES ASSUME Export!ExportAssumption, Export!Init PROVE ExportInv
  OBVIOUS
<1>1. Export!NoWork \in WorkType /\ Export!NoOp \in OpType
  BY DEF Export!NoWork, Export!NoOp, WorkType, OpType, Export!Commits
<1>2. ExportType
  BY <1>1 DEF Export!ExportAssumption, Export!Init, Export!Incarnations, ExportType
<1>3. active.stage = None /\ \A l \in Lineages : exec[l] = None /\ op[l].stage = None
  BY DEF Export!Init, Export!NoAction, Export!NoOp
<1> QED
  BY <1>2, <1>3 DEF ExportInv, RowIsKept, ExportIsBuiltOn, PreparationRestores

(* None is no lineage, stage, export or row.                                *)
LEMMA NoneIsNone ==
    ASSUME Export!ExportAssumption
    PROVE  /\ None \notin Lineages /\ None \notin Export!Stage
           /\ None \notin Export!CompletionStage
           /\ None \notin Export!Export /\ None \notin Export!Execution
  BY DEF Export!ExportAssumption

(* The action in progress has a lineage, and there is none otherwise.       *)
LEMMA ActionOrNone ==
    ASSUME Export!ExportAssumption, ExportInv
    PROVE  /\ active.stage # None =>
                /\ active \in ActiveType /\ active.lineage \in Lineages
                /\ active.restore \in Export!Export \cup {None} /\ active.stage \in Export!Stage
           /\ active.stage = None => active = Export!NoAction
           /\ \A l \in Lineages : Export!Current(l) => active.stage # None /\ active.lineage = l
  BY NoneIsNone DEF ExportInv, ExportType, ActiveType, Export!NoAction, Export!Current,
                    Export!Lineage

(* An action ends, and completions of its lineage with it or not.           *)
LEMMA ActionEnds ==
    ASSUME Export!ExportAssumption, ExportInv, active' = Export!NoAction,
           UNCHANGED <<incarnation, work, exec, hostTree, actions, edits>>,
           op' \in [Lineages -> OpType],
           \A l \in Lineages : op'[l].stage # None => op'[l] = op[l]
    PROVE  ExportInv'
<1>1. ExportType'
  BY DEF ExportInv, ExportType
<1>2. active'.stage = None /\ \A l \in Lineages : ~Export!Current(l)'
  BY NoneIsNone DEF Export!Current, Export!Lineage, Export!NoAction
<1>3. ASSUME NEW l \in Lineages PROVE RowIsKept(l)' /\ ExportIsBuiltOn(l)'
  <2>1. RowIsKept(l)'
    BY DEF ExportInv, RowIsKept, Export!ExpectedTree
  <2>2. ExportIsBuiltOn(l)'
    BY <1>2 DEF ExportInv, ExportIsBuiltOn, Export!ExpectedTree
  <2> QED
    BY <2>1, <2>2
<1> QED
  BY <1>1, <1>2, <1>3 DEF ExportInv, PreparationRestores

(* An action is at another stage, of preparation, with what it restores.    *)
LEMMA ActionMoves ==
    ASSUME Export!ExportAssumption, ExportInv, NEW t \in Export!Stage \ {"running"},
           active.stage \notin {None, "running"}, active' = [active EXCEPT !.stage = t],
           UNCHANGED <<incarnation, work, exec, op, hostTree, actions, edits>>,
           active.stage # "ensure",
           t \in {"populate", "record"} => Export!Worktree.store # "none",
           t = "populate" => active.restore # None,
           t = "record" => active.restore = None
    PROVE  ExportInv'
<1>1. active \in ActiveType /\ active.lineage \in Lineages
  BY ActionOrNone
<1>2. /\ active' \in ActiveType /\ active'.stage = t /\ active'.lineage = active.lineage
      /\ active'.action = active.action /\ active'.restore = active.restore
  BY <1>1 DEF ActiveType
<1>3. ExportType'
  BY <1>2 DEF ExportInv, ExportType
<1>4. ASSUME NEW l \in Lineages PROVE RowIsKept(l)' /\ ExportIsBuiltOn(l)'
  <2>1. RowIsKept(l)'
    BY DEF ExportInv, RowIsKept, Export!ExpectedTree
  <2>2. ExportIsBuiltOn(l)'
    BY <1>2 DEF ExportInv, ExportIsBuiltOn, Export!ExpectedTree, Export!Current, Export!Lineage
  <2> QED
    BY <2>1, <2>2
<1>5. PreparationRestores'
  BY <1>2, NoneIsNone DEF ExportInv, PreparationRestores, Export!Worktree, Export!Lineage
<1> QED
  BY <1>3, <1>4, <1>5 DEF ExportInv

(* An action is claimed, and a Worker that restarted prepares it again.     *)
LEMMA ActionBegins ==
    ASSUME Export!ExportAssumption, ExportInv,
           Export!Restart \/ \E l \in Lineages : Export!Claim(l)
    PROVE  ExportInv'
<1>1. UNCHANGED <<incarnation, work, exec, hostTree, edits>>
  BY DEF Export!Restart, Export!Claim
<1>2. Export!NoOp \in OpType
  BY DEF Export!NoOp, OpType
<1>3. CASE Export!Restart
  <2>1. op' \in [Lineages -> OpType] /\ \A l \in Lineages : op'[l].stage = None
    BY <1>2, <1>3 DEF Export!Restart, Export!NoOp
  <2>2. UNCHANGED actions
    BY <1>3 DEF Export!Restart
  <2>3. CASE active' = Export!NoAction
    BY <1>1, <2>1, <2>2, <2>3, ActionEnds
  <2>4. CASE active.stage # None /\ active' = [active EXCEPT !.stage = "ensure", !.restore = None]
    <3>1. /\ active' \in ActiveType /\ active'.stage = "ensure" /\ active'.restore = None
          /\ active'.action = active.action
      BY <2>4, ActionOrNone DEF ActiveType, Export!Stage
    <3>2. \A l \in Lineages : RowIsKept(l)' /\ ExportIsBuiltOn(l)'
      BY <1>1, <2>1 DEF ExportInv, RowIsKept, ExportIsBuiltOn, Export!ExpectedTree
    <3> QED
      BY <1>1, <2>1, <2>2, <2>4, <3>1, <3>2
      DEF ExportInv, ExportType, PreparationRestores
  <2> QED
    BY <1>3, <2>3, <2>4 DEF Export!Restart, Export!At
<1>4. CASE \E l \in Lineages : Export!Claim(l)
  <2>1. PICK k \in Lineages : Export!Claim(k)
    BY <1>4
  <2>2. /\ actions' = actions + 1 /\ actions' \in 0..MaxActions /\ op' = op
        /\ active' = [lineage |-> k, action |-> actions + 1, stage |-> "ensure",
                      restore |-> None]
        /\ active' \in ActiveType
    BY <2>1 DEF Export!Claim, ExportInv, ExportType, ActiveType, Export!Stage,
                Export!ExportAssumption
  <2>3. \A l \in Lineages : op[l].stage # None => op[l].action <= actions /\ op[l] \in OpType
    BY DEF ExportInv, ExportType, ExportIsBuiltOn
  <2>4. ASSUME NEW l \in Lineages PROVE RowIsKept(l)' /\ ExportIsBuiltOn(l)'
    <3>1. RowIsKept(l)'
      BY <1>1 DEF ExportInv, RowIsKept, Export!ExpectedTree
    <3>2. op[l].stage # None => ~Export!Current(l)' /\ op[l].action <= actions'
      BY <2>2, <2>3 DEF Export!Current, Export!Lineage, OpType, ExportInv, ExportType
    <3>3. ExportIsBuiltOn(l)'
      BY <1>1, <2>2, <3>2 DEF ExportInv, ExportIsBuiltOn, Export!ExpectedTree
    <3> QED
      BY <3>1, <3>3
  <2> QED
    BY <1>1, <2>2, <2>4 DEF ExportInv, ExportType, PreparationRestores
<1> QED
  BY <1>3, <1>4

(* The environment is there, or replaced: what is to be restored is what    *)
(* some lineage verified, and a lineage that lived elsewhere restores its   *)
(* own.                                                                     *)
LEMMA EnvironmentEnsured ==
    ASSUME Export!ExportAssumption, ExportInv, Export!Ensure PROVE ExportInv'
<1>1. /\ UNCHANGED <<work, exec, op, hostTree, actions, edits>>
      /\ incarnation' \in Export!Incarnations /\ incarnation <= incarnation'
      /\ incarnation' = incarnation \/ incarnation' = incarnation + 1
      /\ active.stage = "ensure" /\ active.stage # None
      /\ active \in ActiveType /\ active.lineage \in Lineages
  BY ActionOrNone, NoneIsNone
  DEF Export!Ensure, Export!At, ExportInv, ExportType, Export!Incarnations,
      Export!ExportAssumption, Export!Stage
<1>2. \A l \in Lineages : exec[l] # None =>
        exec[l].inc <= incarnation /\ exec[l] \in Export!Execution
  BY DEF ExportInv, ExportType, RowIsKept
<1>3. \A l \in Lineages : op[l].stage # None => ~Export!Current(l)
  BY <1>1 DEF ExportInv, ExportIsBuiltOn
<1>4. \A l \in Lineages : RowIsKept(l)'
  <2>1. CASE incarnation' = incarnation
    BY <1>1, <2>1 DEF ExportInv, RowIsKept, Export!ExpectedTree
  <2>2. CASE incarnation' = incarnation + 1
    <3>1. \A l \in Lineages : exec[l] # None =>
            exec[l].inc <= incarnation' /\ exec[l].inc # incarnation'
      BY <1>1, <1>2, <2>2 DEF Export!Execution, Export!Incarnations, ExportInv, ExportType
    <3> QED
      BY <1>1, <3>1 DEF ExportInv, RowIsKept, Export!ExpectedTree
  <2> QED
    BY <1>1, <2>1, <2>2
<1>5. CASE active' = Export!NoAction
  <2>1. active'.stage = None /\ \A l \in Lineages : ~Export!Current(l)'
    BY <1>5, NoneIsNone DEF Export!Current, Export!Lineage, Export!NoAction
  <2>2. \A l \in Lineages : ExportIsBuiltOn(l)'
    BY <1>1, <2>1 DEF ExportInv, ExportIsBuiltOn, Export!ExpectedTree
  <2> QED
    BY <1>1, <1>4, <1>5, <2>1, <2>2 DEF ExportInv, ExportType, PreparationRestores
<1>6. CASE /\ ~(/\ exec[Export!Lineage] # None /\ exec[Export!Lineage].inc # incarnation'
                /\ exec[Export!Lineage].recovery = None)
           /\ active' = [active EXCEPT !.stage = "repository",
                                       !.restore = Export!RecoveryExport(incarnation')]
  <2> DEFINE restore == Export!RecoveryExport(incarnation')
             k == active.lineage
  <2>1. Export!Predecessor # None =>
          \E l \in Lineages : exec[l] # None /\ exec[l].recovery # None
                              /\ Export!Predecessor = exec[l].recovery
    BY DEF Export!Predecessor
  <2>2. /\ exec[k] # None =>
             IF exec[k].inc = incarnation' THEN restore = None
             ELSE restore = exec[k].recovery /\ restore # None
        /\ restore # None =>
             \E l \in Lineages : exec[l] # None /\ exec[l].recovery # None
                                 /\ restore = exec[l].recovery
    BY <1>1, <1>6, <2>1 DEF Export!RecoveryExport, Export!Lineage
  <2>3. restore # None => restore \in Export!Export /\ restore.tree \subseteq hostTree
    BY <1>2, <2>2 DEF ExportInv, RowIsKept, Export!ExpectedTree, Export!Execution
  <2> HIDE DEF restore
  <2>4. /\ active' \in ActiveType /\ active'.stage = "repository" /\ active'.lineage = k
        /\ active'.action = active.action /\ active'.restore = restore
    BY <1>1, <1>6, <2>3 DEF ActiveType, Export!Stage, restore
  <2>5. \A l \in Lineages : ExportIsBuiltOn(l)'
    BY <1>1, <1>3, <2>4
    DEF ExportInv, ExportIsBuiltOn, Export!ExpectedTree, Export!Current, Export!Lineage
  <2>6. PreparationRestores'
    BY <1>1, <2>2, <2>3, <2>4 DEF ExportInv, PreparationRestores
  <2> QED
    BY <1>1, <1>4, <2>4, <2>5, <2>6 DEF ExportInv, ExportType
<1> QED
  BY <1>5, <1>6 DEF Export!Ensure, Export!Fail

(* The private repository is materialized or verified.                      *)
LEMMA RepositoryReady ==
    ASSUME Export!ExportAssumption, ExportInv,
           Export!claimRepository \/ Export!initializeGuestRepository \/ Export!verifyRepository
    PROVE  ExportInv'
<1>1. /\ UNCHANGED <<incarnation, work, exec, op, hostTree, actions, edits>>
      /\ active.stage \in {"repository", "initialize"}
  BY DEF Export!claimRepository, Export!initializeGuestRepository, Export!verifyRepository,
         Export!At
<1>2. /\ "initialize" \in Export!Stage \ {"running"} /\ "workspace" \in Export!Stage \ {"running"}
      /\ active.stage \notin {None, "running"} /\ active.stage # "ensure"
      /\ op \in [Lineages -> OpType]
  BY <1>1, NoneIsNone DEF Export!Stage, ExportInv, ExportType
<1>3. CASE active' = Export!NoAction
  BY <1>1, <1>2, <1>3, ActionEnds
<1>4. CASE \E t \in {"initialize", "workspace"} : active' = [active EXCEPT !.stage = t]
  BY <1>1, <1>2, <1>4, ActionMoves
<1> QED
  BY <1>3, <1>4 DEF Export!claimRepository, Export!initializeGuestRepository,
                    Export!verifyRepository, Export!Go, Export!Fail

(* The worktree of the action changes, and no other.                        *)
LEMMA WorktreeSet ==
    ASSUME Export!ExportAssumption, ExportInv, NEW k \in Lineages, active.lineage = k,
           NEW w \in WorkType, Export!SetWork(w)
    PROVE  /\ work' \in [Export!Incarnations -> [Lineages -> WorkType]]
           /\ work'[incarnation][k] = w
           /\ \A l \in Lineages : l # k => work'[incarnation][l] = work[incarnation][l]
<1>1. /\ incarnation \in Export!Incarnations
      /\ work \in [Export!Incarnations -> [Lineages -> WorkType]]
  BY DEF ExportInv, ExportType
<1> DEFINE own == [work[incarnation] EXCEPT ![k] = w]
<1>2. own \in [Lineages -> WorkType] /\ own[k] = w
      /\ \A l \in Lineages : l # k => own[l] = work[incarnation][l]
  BY <1>1
<1>3. work' = [work EXCEPT ![incarnation] = own]
  BY DEF Export!SetWork, Export!Lineage
<1> HIDE DEF own
<1> QED
  BY <1>1, <1>2, <1>3

(* The worktree keeps or gains edits, with the action where it was: what a  *)
(* row holds as verified stays in it.                                       *)
LEMMA WorktreeGrows ==
    ASSUME Export!ExportAssumption, ExportInv, NEW w \in WorkType, active.stage # None,
           Export!SetWork(w), UNCHANGED <<incarnation, exec, op, hostTree, actions>>,
           edits' \in 0..MaxEdits,
           Export!Worktree.store # "none" => Export!Worktree.tree \subseteq w.tree,
           w.store # "none"
    PROVE  /\ ExportType' <=> active' \in ActiveType \cup {Export!NoAction}
           /\ \A l \in Lineages : RowIsKept(l)'
           /\ \A l \in Lineages : op[l].stage # None /\ Export!Current(l) =>
                op[l].export.tree \subseteq work'[incarnation][l].tree
<1> DEFINE k == active.lineage
<1>1. k \in Lineages
  BY ActionOrNone
<1>2. /\ work' \in [Export!Incarnations -> [Lineages -> WorkType]] /\ work'[incarnation][k] = w
      /\ \A l \in Lineages : l # k => work'[incarnation][l] = work[incarnation][l]
  BY <1>1, WorktreeSet
<1>3. Export!Worktree = work[incarnation][k]
  BY DEF Export!Worktree, Export!Lineage
<1>4. ASSUME NEW l \in Lineages PROVE RowIsKept(l)'
  BY <1>2, <1>3, <1>4 DEF ExportInv, RowIsKept, Export!ExpectedTree
<1>5. ASSUME NEW l \in Lineages, op[l].stage # None, Export!Current(l)
      PROVE  op[l].export.tree \subseteq work'[incarnation][l].tree
  <2>1. /\ l = k /\ active.stage = "running"
        /\ op[l].export.tree \subseteq work[incarnation][l].tree
        /\ exec[k] # None /\ exec[k].inc = incarnation
    BY <1>5 DEF ExportInv, ExportIsBuiltOn, PreparationRestores, Export!Current, Export!Lineage
  <2>2. work[incarnation][k].store # "none"
    BY <1>1, <2>1 DEF ExportInv, RowIsKept
  <2> QED
    BY <1>2, <1>3, <2>1, <2>2
<1> QED
  BY <1>2, <1>4, <1>5 DEF ExportInv, ExportType

(* The private worktree is created, at the base or at the restored commit.  *)
LEMMA WorkspaceReady ==
    ASSUME Export!ExportAssumption, ExportInv,
           Export!claimWorkspace \/ Export!createWorkspace
    PROVE  ExportInv'
<1>1. /\ UNCHANGED <<incarnation, exec, op, hostTree, actions, edits>>
      /\ active.stage = "workspace" /\ active.stage \notin {None, "running"}
      /\ active \in ActiveType /\ active.lineage \in Lineages
      /\ Export!Worktree \in WorkType /\ op \in [Lineages -> OpType]
      /\ edits' \in 0..MaxEdits
  BY ActionOrNone, NoneIsNone
  DEF Export!claimWorkspace, Export!createWorkspace, Export!At, Export!Stage,
      Export!Worktree, Export!Lineage, ExportInv, ExportType
<1>2. \A l \in Lineages : op[l].stage # None => ~Export!Current(l)
  BY <1>1 DEF ExportInv, ExportIsBuiltOn
<1>3. ASSUME NEW w \in WorkType, Export!SetWork(w), w.store # "none",
             Export!Worktree.store # "none" => Export!Worktree.tree \subseteq w.tree,
             \/ UNCHANGED active \/ active' = Export!NoAction
             \/ \E t \in {"record", "populate"} :
                  /\ active' = [active EXCEPT !.stage = t]
                  /\ t = "populate" <=> active.restore # None
      PROVE  ExportInv'
  <2>1. active' \in ActiveType \cup {Export!NoAction}
    BY <1>1, <1>3 DEF ActiveType, Export!Stage
  <2>2. ExportType' /\ \A l \in Lineages : RowIsKept(l)'
    BY <1>1, <1>3, <2>1, WorktreeGrows
  <2>3. \A l \in Lineages : op[l].stage # None => ~Export!Current(l)'
    BY <1>1, <1>2, <1>3, NoneIsNone
    DEF Export!Current, Export!Lineage, Export!NoAction, ActiveType
  <2>4. \A l \in Lineages : ExportIsBuiltOn(l)'
    BY <1>1, <2>3 DEF ExportInv, ExportIsBuiltOn, Export!ExpectedTree
  <2>5. Export!Worktree' = w \/ active' = Export!NoAction
    BY <1>1, <1>3, WorktreeSet DEF Export!Worktree, Export!Lineage, ActiveType
  <2>6. PreparationRestores'
    BY <1>1, <1>3, <2>5 DEF ExportInv, PreparationRestores, ActiveType, Export!NoAction
  <2> QED
    BY <2>2, <2>4, <2>6 DEF ExportInv
<1>4. CASE Export!claimWorkspace
  <2> DEFINE w == [store |-> "creating", head |-> Export!StartCommit, tree |-> Export!StartCommit]
  <2>1. Export!StartCommit \in Export!Commits
    BY <1>1 DEF Export!StartCommit, ActiveType, Export!Export, Export!Commits
  <2>2. w \in WorkType /\ w.store # "none"
    BY <2>1 DEF WorkType
  <2>3. Export!SetWork(w) /\ UNCHANGED active /\ Export!Worktree.store = "none"
    BY <1>4 DEF Export!claimWorkspace
  <2> HIDE DEF w
  <2> QED
    BY <1>3, <2>2, <2>3
<1>5. CASE Export!createWorkspace
  <2>1. PICK s \in {"ready", "attention"} :
          /\ UNCHANGED work \/ Export!SetWork([Export!Worktree EXCEPT !.store = s])
          /\ \/ active' = Export!NoAction
             \/ \E t \in {"record", "populate"} :
                  /\ active' = [active EXCEPT !.stage = t]
                  /\ t = "populate" <=> active.restore # None
    BY <1>5 DEF Export!createWorkspace, Export!Go, Export!Fail
  <2>2. Export!Worktree.store # "none"
    BY <1>5 DEF Export!createWorkspace
  <2>3. CASE UNCHANGED work
    <3>1. CASE active' = Export!NoAction
      BY <1>1, <2>3, <3>1, ActionEnds
    <3>2. ASSUME NEW t \in {"record", "populate"}, active' = [active EXCEPT !.stage = t],
                 t = "populate" <=> active.restore # None
          PROVE  ExportInv'
      BY <1>1, <2>2, <2>3, <3>2, ActionMoves DEF Export!Stage
    <3> QED
      BY <2>1, <3>1, <3>2
  <2>4. CASE Export!SetWork([Export!Worktree EXCEPT !.store = s])
    <3> DEFINE w == [Export!Worktree EXCEPT !.store = s]
    <3>1. w \in WorkType /\ w.store # "none" /\ w.tree = Export!Worktree.tree
      BY <1>1, <2>2 DEF WorkType
    <3>2. Export!SetWork(w)
      BY <2>4
    <3> HIDE DEF w
    <3> QED
      BY <1>3, <2>1, <3>1, <3>2
  <2> QED
    BY <2>1, <2>3, <2>4
<1> QED
  BY <1>4, <1>5

(* The checkpoint is restored: only a lineage without verified work in this *)
(* environment has anything to restore.                                     *)
LEMMA CheckpointRestored ==
    ASSUME Export!ExportAssumption, ExportInv, Export!restoreCheckpoint PROVE ExportInv'
<1> DEFINE k == active.lineage
<1>1. /\ UNCHANGED <<incarnation, exec, op, hostTree, actions, edits>>
      /\ active.stage = "populate" /\ active.stage # None
      /\ active \in ActiveType /\ k \in Lineages
      /\ Export!Worktree \in WorkType /\ op \in [Lineages -> OpType]
  BY ActionOrNone, NoneIsNone
  DEF Export!restoreCheckpoint, Export!At, Export!Stage, Export!Worktree, Export!Lineage,
      ExportInv, ExportType
<1>2. /\ active.restore # None /\ active.restore \in Export!Export
      /\ Export!Worktree.store # "none"
      /\ exec[k] # None => exec[k].inc # incarnation
  BY <1>1, NoneIsNone DEF ExportInv, PreparationRestores, ActiveType
<1>3. CASE UNCHANGED work /\ active' = Export!NoAction
  BY <1>1, <1>3, ActionEnds
<1>4. CASE /\ Export!SetWork([Export!Worktree EXCEPT !.tree = active.restore.tree])
           /\ active' = [active EXCEPT !.stage = "record"]
  <2> DEFINE w == [Export!Worktree EXCEPT !.tree = active.restore.tree]
  <2>1. w \in WorkType /\ w.store # "none" /\ w.tree = active.restore.tree
    BY <1>1, <1>2 DEF WorkType, Export!Export
  <2>2. Export!SetWork(w)
    BY <1>4
  <2> HIDE DEF w
  <2>3. /\ work' \in [Export!Incarnations -> [Lineages -> WorkType]] /\ work'[incarnation][k] = w
        /\ \A l \in Lineages : l # k => work'[incarnation][l] = work[incarnation][l]
    BY <1>1, <2>1, <2>2, WorktreeSet
  <2>4. /\ active' \in ActiveType /\ active'.stage = "record" /\ active'.lineage = k
        /\ active'.action = active.action /\ active'.restore = active.restore
    BY <1>1, <1>4 DEF ActiveType, Export!Stage
  <2>5. \A l \in Lineages : RowIsKept(l)'
    BY <1>1, <1>2, <2>3 DEF ExportInv, RowIsKept, Export!ExpectedTree
  <2>6. \A l \in Lineages : op[l].stage # None => ~Export!Current(l)
    BY <1>1 DEF ExportInv, ExportIsBuiltOn
  <2>7. \A l \in Lineages : ExportIsBuiltOn(l)'
    BY <1>1, <2>4, <2>6
    DEF ExportInv, ExportIsBuiltOn, Export!ExpectedTree, Export!Current, Export!Lineage
  <2>8. Export!Worktree' = w
    BY <1>1, <2>3, <2>4 DEF Export!Worktree, Export!Lineage
  <2>9. PreparationRestores'
    BY <1>1, <1>2, <2>1, <2>4, <2>8 DEF ExportInv, PreparationRestores
  <2> QED
    BY <1>1, <2>3, <2>4, <2>5, <2>7, <2>9 DEF ExportInv, ExportType
<1> QED
  BY <1>3, <1>4 DEF Export!restoreCheckpoint, Export!Go, Export!Fail

(* The row is recorded as ready: a new one holds what the lineage inherited,*)
(* which the host and now its worktree hold; an old one what it held.       *)
LEMMA RowRecorded ==
    ASSUME Export!ExportAssumption, ExportInv, Export!Ready PROVE ExportInv'
<1> DEFINE k == active.lineage
           old == exec[k]
           change == IF old # None /\ old.action = active.action THEN old.change ELSE None
           recovery == IF old = None THEN active.restore ELSE old.recovery
           new == [inc |-> incarnation, action |-> active.action, change |-> change,
                   recovery |-> recovery]
<1>1. /\ UNCHANGED <<incarnation, work, op, hostTree, actions, edits>>
      /\ active.stage = "record" /\ active.stage # None
      /\ active \in ActiveType /\ k \in Lineages
      /\ exec' = [exec EXCEPT ![k] = new] /\ active' = [active EXCEPT !.stage = "running"]
  BY ActionOrNone, NoneIsNone
  DEF Export!Ready, Export!At, Export!Go, Export!Stage, Export!Lineage
<1>2. old # None => old \in Export!Execution
  BY <1>1 DEF ExportInv, ExportType
<1>3. new \in Export!Execution
  BY <1>1, <1>2 DEF Export!Execution, ActiveType, ExportInv, ExportType, Export!Incarnations
<1>4. new.inc = incarnation /\ new.recovery = recovery /\ new.change = change
  OBVIOUS
<1>5. old # None => /\ old.recovery # None => old.recovery.tree \subseteq hostTree
                    /\ old.change # None => old.change = old.recovery
                    /\ old.inc = incarnation =>
                         Export!ExpectedTree(k) \subseteq work[incarnation][k].tree
  BY <1>1 DEF ExportInv, RowIsKept, Export!ExpectedTree
<1>6. /\ recovery # None => recovery.tree \subseteq hostTree
      /\ change # None => change = recovery
      /\ recovery # None => recovery.tree \subseteq work[incarnation][k].tree
      /\ work[incarnation][k].store # "none"
  BY <1>1, <1>5 DEF ExportInv, PreparationRestores, Export!Worktree, Export!Lineage,
                    Export!ExpectedTree
<1>7. \A l \in Lineages : op[l].stage # None =>
         ~Export!Current(l) /\ exec[l] # None /\ Export!ExpectedTree(l) \subseteq op[l].export.tree
  BY <1>1 DEF ExportInv, ExportIsBuiltOn
<1>8. old # None => recovery = old.recovery
  OBVIOUS
<1> HIDE DEF new, change, recovery
<1>9. /\ active' \in ActiveType /\ active'.stage = "running" /\ active'.lineage = k
      /\ active'.action = active.action /\ active'.restore = active.restore
  BY <1>1 DEF ActiveType, Export!Stage
<1>10. /\ exec' \in [Lineages -> Export!Execution \cup {None}]
       /\ exec'[k] = new /\ new # None
       /\ \A l \in Lineages : l # k => exec'[l] = exec[l]
  BY <1>1, <1>3, NoneIsNone DEF ExportInv, ExportType
<1>11. ASSUME NEW l \in Lineages PROVE RowIsKept(l)'
  <2>1. CASE l = k
    BY <1>1, <1>4, <1>6, <1>10, <2>1 DEF RowIsKept, Export!ExpectedTree, ExportInv, ExportType,
       Export!Incarnations
  <2>2. CASE l # k
    BY <1>1, <1>10, <2>2 DEF ExportInv, RowIsKept, Export!ExpectedTree
  <2> QED
    BY <2>1, <2>2
<1>12. ASSUME NEW l \in Lineages PROVE ExportIsBuiltOn(l)'
  <2>1. op[l].stage # None =>
          ~Export!Current(l)' /\ exec'[l] # None /\ exec'[l].recovery = exec[l].recovery
    BY <1>1, <1>4, <1>7, <1>8, <1>9, <1>10 DEF Export!Current, Export!Lineage
  <2> QED
    BY <1>1, <1>7, <2>1 DEF ExportInv, ExportIsBuiltOn, Export!ExpectedTree
<1>13. PreparationRestores'
  BY <1>1, <1>4, <1>9, <1>10 DEF ExportInv, PreparationRestores
<1> QED
  BY <1>1, <1>9, <1>10, <1>11, <1>12, <1>13 DEF ExportInv, ExportType

(* The harness edits and commits.                                           *)
LEMMA HarnessEdits ==
    ASSUME Export!ExportAssumption, ExportInv, Export!Edit \/ Export!Commit
    PROVE  ExportInv'
<1>1. /\ UNCHANGED <<incarnation, exec, active, op, hostTree, actions>>
      /\ active.stage = "running" /\ active.stage # None
      /\ active \in ActiveType /\ active.lineage \in Lineages
      /\ Export!Worktree \in WorkType /\ edits' \in 0..MaxEdits
  BY ActionOrNone, NoneIsNone
  DEF Export!Edit, Export!Commit, Export!At, Export!Stage, Export!Worktree, Export!Lineage,
      ExportInv, ExportType, Export!ExportAssumption
<1>2. exec[active.lineage] # None /\ exec[active.lineage].inc = incarnation
  BY <1>1 DEF ExportInv, PreparationRestores
<1>3. Export!Worktree.store # "none"
  BY <1>1, <1>2 DEF ExportInv, RowIsKept, Export!Worktree, Export!Lineage
<1>4. PICK w \in WorkType : /\ Export!SetWork(w) /\ w.store # "none"
                            /\ Export!Worktree.tree \subseteq w.tree
  <2>1. CASE Export!Edit
    <3> DEFINE w == [Export!Worktree EXCEPT !.tree = @ \cup {edits + 1}]
    <3>1. edits + 1 \in 1..MaxEdits
      BY <2>1 DEF Export!Edit, ExportInv, ExportType, Export!ExportAssumption
    <3>2. w \in WorkType /\ w.store = Export!Worktree.store
          /\ Export!Worktree.tree \subseteq w.tree
      BY <1>1, <3>1 DEF WorkType, Export!Commits
    <3>3. Export!SetWork(w)
      BY <2>1 DEF Export!Edit
    <3> HIDE DEF w
    <3> QED
      BY <1>3, <3>2, <3>3
  <2>2. CASE Export!Commit
    <3> DEFINE w == [Export!Worktree EXCEPT !.head = Export!Worktree.tree]
    <3>1. w \in WorkType /\ w.store = Export!Worktree.store /\ w.tree = Export!Worktree.tree
      BY <1>1 DEF WorkType
    <3>2. Export!SetWork(w)
      BY <2>2 DEF Export!Commit
    <3> HIDE DEF w
    <3> QED
      BY <1>3, <3>1, <3>2
  <2> QED
    BY <2>1, <2>2
<1>5. /\ ExportType' /\ \A l \in Lineages : RowIsKept(l)'
      /\ \A l \in Lineages : op[l].stage # None /\ Export!Current(l) =>
           op[l].export.tree \subseteq work'[incarnation][l].tree
  BY <1>1, <1>4, WorktreeGrows
<1>6. \A l \in Lineages : ExportIsBuiltOn(l)'
  BY <1>1, <1>5 DEF ExportInv, ExportIsBuiltOn, Export!ExpectedTree, Export!Current,
                    Export!Lineage
<1>7. PreparationRestores'
  BY <1>1 DEF ExportInv, PreparationRestores
<1> QED
  BY <1>5, <1>6, <1>7 DEF ExportInv

(* A completion exports what its worktree holds, or what the row holds as   *)
(* exported for the same action: either is built on what was verified.      *)
LEMMA CheckpointMade ==
    ASSUME Export!ExportAssumption, ExportInv, Export!checkpoint PROVE ExportInv'
<1> DEFINE k == active.lineage
           snapshot == [head |-> Export!Worktree.head, tree |-> Export!Worktree.tree]
           export == IF exec[k].change # None THEN exec[k].change ELSE snapshot
           new == [stage |-> "exported", action |-> active.action, export |-> export]
<1>1. /\ UNCHANGED <<incarnation, work, exec, active, hostTree, actions, edits>>
      /\ active.stage = "running" /\ active.stage # None
      /\ active \in ActiveType /\ k \in Lineages
      /\ op \in [Lineages -> OpType] /\ op' = [op EXCEPT ![k] = new]
      /\ Export!Worktree \in WorkType /\ Export!Worktree = work[incarnation][k]
  BY ActionOrNone, NoneIsNone
  DEF Export!checkpoint, Export!At, Export!Stage, Export!SetOp, Export!Snapshot,
      Export!Worktree, Export!Lineage, ExportInv, ExportType
<1>2. exec[k] # None /\ exec[k].inc = incarnation /\ exec[k] \in Export!Execution
  BY <1>1 DEF ExportInv, ExportType, PreparationRestores
<1>3. /\ exec[k].change # None => exec[k].change = exec[k].recovery
      /\ Export!ExpectedTree(k) \subseteq work[incarnation][k].tree
  BY <1>1, <1>2 DEF ExportInv, RowIsKept
<1>4. snapshot \in Export!Export /\ snapshot # None /\ snapshot.tree = work[incarnation][k].tree
  BY <1>1, NoneIsNone DEF WorkType, Export!Export
<1> HIDE DEF snapshot
<1>5. /\ export \in Export!Export /\ export # None
      /\ Export!ExpectedTree(k) \subseteq export.tree
      /\ export.tree \subseteq work[incarnation][k].tree
  BY <1>2, <1>3, <1>4 DEF Export!Execution, Export!ExpectedTree
<1> HIDE DEF export
<1>6. /\ new \in OpType /\ new.stage = "exported" /\ new.action = active.action
      /\ new.export = export
  BY <1>1, <1>5 DEF OpType, ActiveType, Export!CompletionStage
<1> HIDE DEF new
<1>7. /\ op' \in [Lineages -> OpType] /\ op'[k] = new
      /\ \A l \in Lineages : l # k => op'[l] = op[l]
  BY <1>1, <1>6
<1>8. ASSUME NEW l \in Lineages PROVE ExportIsBuiltOn(l)'
  <2>1. CASE l = k
    BY <1>1, <1>2, <1>5, <1>6, <1>7, <2>1
    DEF ExportInv, PreparationRestores, ExportIsBuiltOn, Export!ExpectedTree
  <2>2. CASE l # k
    BY <1>1, <1>7, <2>2 DEF ExportInv, ExportIsBuiltOn, Export!ExpectedTree, Export!Current,
                            Export!Lineage
  <2> QED
    BY <2>1, <2>2
<1>9. \A l \in Lineages : RowIsKept(l)'
  BY <1>1 DEF ExportInv, RowIsKept, Export!ExpectedTree
<1>10. PreparationRestores'
  BY <1>1 DEF ExportInv, PreparationRestores, Export!Worktree, Export!Lineage
<1> QED
  BY <1>1, <1>7, <1>8, <1>9, <1>10 DEF ExportInv, ExportType

(* A completion goes on, and the host worktree holds no less.               *)
LEMMA CompletionMoves ==
    ASSUME Export!ExportAssumption, ExportInv, NEW k \in Lineages,
           NEW t \in Export!CompletionStage, op[k].stage # None,
           op' = [op EXCEPT ![k] = [op[k] EXCEPT !.stage = t]],
           UNCHANGED <<incarnation, work, exec, active, actions, edits>>,
           hostTree \subseteq hostTree', t = "imported" => op[k].export.tree \subseteq hostTree'
    PROVE  ExportInv'
<1>1. op[k] \in OpType /\ op \in [Lineages -> OpType]
  BY DEF ExportInv, ExportType
<1> DEFINE new == [op[k] EXCEPT !.stage = t]
<1>2. /\ new \in OpType /\ new.stage = t /\ new.action = op[k].action
      /\ new.export = op[k].export
  BY <1>1 DEF OpType
<1>3. op' = [op EXCEPT ![k] = new]
  OBVIOUS
<1> HIDE DEF new
<1>4. /\ op' \in [Lineages -> OpType] /\ op'[k] = new
      /\ \A l \in Lineages : l # k => op'[l] = op[l]
  BY <1>1, <1>2, <1>3
<1>5. ASSUME NEW l \in Lineages PROVE ExportIsBuiltOn(l)'
  BY <1>2, <1>4 DEF ExportInv, ExportIsBuiltOn, Export!ExpectedTree, Export!Current,
                    Export!Lineage
<1>6. \A l \in Lineages : RowIsKept(l)'
  BY DEF ExportInv, RowIsKept, Export!ExpectedTree
<1>7. PreparationRestores'
  BY DEF ExportInv, PreparationRestores, Export!Worktree, Export!Lineage
<1> QED
  BY <1>4, <1>5, <1>6, <1>7 DEF ExportInv, ExportType

(* A completion ends, and with it the action when it is still its own.      *)
LEMMA CompletionEnds ==
    ASSUME Export!ExportAssumption, ExportInv, NEW k \in Lineages,
           op' = [op EXCEPT ![k] = Export!NoOp],
           active' = active \/ active' = Export!NoAction,
           UNCHANGED <<incarnation, work, exec, hostTree, actions, edits>>
    PROVE  ExportInv'
<1>1. Export!NoOp \in OpType /\ Export!NoOp.stage = None
  BY DEF Export!NoOp, OpType
<1>2. /\ op' \in [Lineages -> OpType] /\ op'[k].stage = None
      /\ \A l \in Lineages : l # k => op'[l] = op[l]
  BY <1>1 DEF ExportInv, ExportType
<1>3. CASE active' = Export!NoAction
  BY <1>2, <1>3, ActionEnds
<1>4. CASE active' = active
  <2>1. ASSUME NEW l \in Lineages PROVE ExportIsBuiltOn(l)'
    BY <1>2, <1>4 DEF ExportInv, ExportIsBuiltOn, Export!ExpectedTree, Export!Current,
                      Export!Lineage
  <2>2. \A l \in Lineages : RowIsKept(l)'
    BY DEF ExportInv, RowIsKept, Export!ExpectedTree
  <2>3. PreparationRestores'
    BY <1>4 DEF ExportInv, PreparationRestores, Export!Worktree, Export!Lineage
  <2> QED
    BY <1>2, <1>4, <2>1, <2>2, <2>3 DEF ExportInv, ExportType
<1> QED
  BY <1>3, <1>4

(* The export is validated and imported: the host worktree must be where    *)
(* the lineage left it, so that the export that replaces it holds it.       *)
LEMMA ExportImported ==
    ASSUME Export!ExportAssumption, ExportInv, NEW l \in Lineages,
           Export!ImportFixture(l) \/ Export!importVerifiedExport(l)
    PROVE  ExportInv'
<1>1. /\ UNCHANGED <<incarnation, work, exec, actions, edits>>
      /\ {"importing", "imported"} \subseteq Export!CompletionStage
      /\ op[l].stage # None
  BY NoneIsNone DEF Export!ImportFixture, Export!importVerifiedExport, Export!CompletionStage
<1>2. Export!ExpectedTree(l) \subseteq op[l].export.tree
  BY <1>1 DEF ExportInv, ExportIsBuiltOn
<1>3. CASE /\ op' = [op EXCEPT ![l] = Export!NoOp] /\ UNCHANGED hostTree
           /\ active' = active \/ active' = Export!NoAction
  BY <1>1, <1>3, CompletionEnds
<1>4. CASE /\ op' = [op EXCEPT ![l] = [op[l] EXCEPT !.stage = "importing"]]
           /\ UNCHANGED <<active, hostTree>>
  BY <1>1, <1>4, CompletionMoves
<1>5. CASE /\ op' = [op EXCEPT ![l] = [op[l] EXCEPT !.stage = "imported"]]
           /\ UNCHANGED active /\ Export!HostIsExpected(l)
           /\ hostTree' = op[l].export.tree
  <2>1. hostTree \subseteq hostTree'
    BY <1>2, <1>5 DEF Export!HostIsExpected
  <2> QED
    BY <1>1, <1>5, <2>1, CompletionMoves
<1> QED
  BY <1>3, <1>4, <1>5 DEF Export!ImportFixture, Export!importVerifiedExport, Export!SetOp

(* The export is bound: the row holds what the host and the worktree hold.  *)
LEMMA ExportBound ==
    ASSUME Export!ExportAssumption, ExportInv, NEW k \in Lineages, Export!bindExport(k)
    PROVE  ExportInv'
<1>1. /\ UNCHANGED <<incarnation, work, hostTree, actions, edits>>
      /\ op[k].stage = "imported" /\ op[k].stage # None
      /\ op' = [op EXCEPT ![k] = Export!NoOp]
  BY NoneIsNone DEF Export!bindExport, Export!SetOp, Export!CompletionStage
<1>2. CASE UNCHANGED <<exec, active>>
  BY <1>1, <1>2, CompletionEnds
<1>3. CASE /\ Export!Current(k) /\ active' = Export!NoAction
           /\ exec' = [exec EXCEPT ![k].change = op[k].export, ![k].recovery = op[k].export]
  <2> DEFINE new == [exec[k] EXCEPT !.change = op[k].export, !.recovery = op[k].export]
  <2>1. /\ exec[k] # None /\ exec[k] \in Export!Execution
        /\ op[k].export # None /\ op[k].export \in Export!Export
        /\ op[k].export.tree \subseteq hostTree
        /\ op[k].export.tree \subseteq work[incarnation][k].tree
    BY <1>1, <1>3 DEF ExportInv, ExportType, ExportIsBuiltOn, OpType
  <2>2. /\ new \in Export!Execution /\ new.inc = exec[k].inc
        /\ new.change = op[k].export /\ new.recovery = op[k].export
    BY <2>1 DEF Export!Execution
  <2>3. exec' = [exec EXCEPT ![k] = new]
    BY <1>3
  <2> HIDE DEF new
  <2>4. /\ exec' \in [Lineages -> Export!Execution \cup {None}] /\ exec'[k] = new
        /\ \A l \in Lineages : l # k => exec'[l] = exec[l]
    BY <2>2, <2>3 DEF ExportInv, ExportType
  <2>5. Export!NoOp \in OpType /\ Export!NoOp.stage = None
    BY DEF Export!NoOp, OpType
  <2>6. /\ op' \in [Lineages -> OpType] /\ op'[k].stage = None
        /\ \A l \in Lineages : l # k => op'[l] = op[l]
    BY <1>1, <2>5 DEF ExportInv, ExportType
  <2>7. active'.stage = None /\ \A l \in Lineages : ~Export!Current(l)'
    BY <1>3, NoneIsNone DEF Export!Current, Export!Lineage, Export!NoAction
  <2>8. ASSUME NEW l \in Lineages PROVE RowIsKept(l)'
    <3>1. CASE l = k
      BY <1>1, <2>1, <2>2, <2>4, <3>1 DEF ExportInv, RowIsKept, Export!ExpectedTree
    <3>2. CASE l # k
      BY <1>1, <2>4, <3>2 DEF ExportInv, RowIsKept, Export!ExpectedTree
    <3> QED
      BY <3>1, <3>2
  <2>9. ASSUME NEW l \in Lineages PROVE ExportIsBuiltOn(l)'
    BY <1>1, <2>4, <2>6, <2>7 DEF ExportInv, ExportIsBuiltOn, Export!ExpectedTree
  <2> QED
    BY <1>1, <1>3, <2>4, <2>6, <2>7, <2>8, <2>9
    DEF ExportInv, ExportType, PreparationRestores
<1> QED
  BY <1>2, <1>3 DEF Export!bindExport, Export!Fail

(* The action is cancelled, the environment lost, a row marked.             *)
LEMMA OthersAct ==
    ASSUME Export!ExportAssumption, ExportInv,
           \/ Export!Cancel \/ Export!EnvironmentLost
           \/ (\E l \in Lineages : Export!Attention(l))
           \/ UNCHANGED Export!vars
    PROVE  ExportInv'
<1>1. /\ UNCHANGED <<incarnation, work, exec, op, hostTree, actions, edits>>
      /\ active' = active \/ active' = Export!NoAction
  BY DEF Export!Cancel, Export!EnvironmentLost, Export!Attention, Export!vars, Export!Fail
<1>2. CASE active' = Export!NoAction
  BY <1>1, <1>2, ActionEnds DEF ExportInv, ExportType
<1>3. CASE active' = active
  BY <1>1, <1>3 DEF ExportInv, ExportType, RowIsKept, ExportIsBuiltOn, PreparationRestores,
                    Export!ExpectedTree, Export!Current, Export!Lineage, Export!Worktree
<1> QED
  BY <1>1, <1>2, <1>3

(* Work that the Worker reported as completed is never lost, for every      *)
(* number of lineages, actions, incarnations and restarts: it stays in the  *)
(* host worktree whichever lineage exports next, and a lineage that         *)
(* inherits it, or carries it into a replacement environment, works on top  *)
(* of it (importVerifiedExport, restoreCheckpoint, ready).                  *)
THEOREM VerifiedWorkIsAlwaysKept ==
    ASSUME Export!ExportAssumption PROVE Export!Spec => []VerifiedWorkIsKept
<1>1. ExportInv /\ [Export!Next]_(Export!vars) => ExportInv'
  BY ActionBegins, EnvironmentEnsured, RepositoryReady, WorkspaceReady, CheckpointRestored,
     RowRecorded, HarnessEdits, CheckpointMade, ExportImported, ExportBound, OthersAct
  DEF Export!Next
<1>2. Export!Spec => []ExportInv
  BY <1>1, ExportInit, PTL DEF Export!Spec
<1>3. ExportInv => VerifiedWorkIsKept
  <2> SUFFICES ASSUME ExportInv PROVE VerifiedWorkIsKept
    OBVIOUS
  <2>1. active.stage = "running" =>
          /\ active.stage # None /\ active.lineage \in Lineages
          /\ exec[active.lineage] # None /\ exec[active.lineage].inc = incarnation
    BY NoneIsNone, ActionOrNone DEF Export!Stage, ExportInv, PreparationRestores
  <2> QED
    BY <2>1 DEF ExportInv, RowIsKept, VerifiedWorkIsKept, Export!VerifiedWorkIsKept,
                Export!At, Export!Worktree, Export!Lineage
<1> QED
  BY <1>2, <1>3, PTL
=============================================================================
