-------------------------- MODULE WorkspaceToolBroker --------------------------
(***************************************************************************)
(* The Worker's broker of workspace tools (workspace-tool-broker.ts and    *)
(* its store), for one Action: its sessions, one at a time if all goes     *)
(* well, and the tool requests of the account client on them.  A request   *)
(* is recorded, queued behind the earlier mutations of its session,        *)
(* admitted, submitted, given a process in the Run's environment, and      *)
(* settled; a cancellation, the closing of its session, the loss of its    *)
(* authority or a restart of the Worker may come between any two awaits.   *)
(* The store is durable; sessions, queues and denied die with the Worker. *)
(***************************************************************************)
EXTENDS Naturals, Sequences, FiniteSets, SequencesExt

CONSTANTS Sessions,     \* broker sessions, 1..n, prepared in this order
          Requests,     \* request identities; each is first used on one session
          Mutations,    \* those that write, edit or run a shell command
          MaxActive,    \* active requests of a session
          MaxGenerations, \* bound on connections of the Worker, over its restarts
          Streamed,     \* the client is a process in the account environment
          None          \* no session

BrokerAssumption ==
    /\ Sessions = 1..Cardinality(Sessions) /\ Mutations \subseteq Requests
    /\ MaxActive \in Nat /\ MaxGenerations \in Nat \ {0} /\ Streamed \in BOOLEAN

VARIABLES
    session,   \* store: state of each session ("none" before prepare)
    owner,     \* store: the connection whose command prepared each session
    record,    \* store: state of each request ("none" before it is recorded)
    bound,     \* store: requests with a recorded process
    live,      \* memory: "absent", "open" or "closing" per session
    client,    \* the account client process of each session
    admitting, \* sessions whose admission waits for its authorities and client
    replacing, \* <<session, connection>> of a prepare that waits for that session to close
    user,      \* the session each request came on
    step,      \* where the coroutine executing each request is
    queue,     \* mutationTail of each session, the running mutation first
    cancels,   \* processes being cancelled, and by whom
    applied,   \* how often each request took effect in the workspace
    denied,    \* requests answered not_submitted while they were not settled
    current,   \* the authorities still hold (assertCurrent)
    generation, \* the connection of the Worker
    since       \* its first connection since it started

store == <<session, owner, record, bound>>
vars == <<session, owner, record, bound, live, client, admitting, replacing, user, step,
          queue, cancels, applied, denied, current, generation, since>>

Reads == Requests \ Mutations
Open == {"prepared", "admitted"}
Unsettled == {"not_submitted", "submitted"}
Settled == {"completed", "uncertain", "cancelled", "rejected"}
InFlight == {"queued", "spawning", "running", "refusing"}

TypeOK ==
    /\ session \in [Sessions -> Open \union {"none", "closed"}]
    /\ record \in [Requests -> Unsettled \union Settled \union {"none"}]
    /\ owner \in [Sessions -> 1..MaxGenerations] /\ bound \subseteq Requests
    /\ live \in [Sessions -> {"absent", "open", "closing"}]
    /\ client \in [Sessions -> {"none", "running", "gone"}]
    /\ admitting \subseteq Sessions
    /\ replacing \in (Sessions \X (1..MaxGenerations)) \union {None}
    /\ user \in [Requests -> Sessions \union {None}]
    /\ step \in [Requests -> InFlight \union {"idle"}]
    /\ queue \in [Sessions -> Seq(Mutations)]
    /\ cancels \subseteq Requests \X {"cancel", "close"}
    /\ applied \in [Requests -> Nat]
    /\ denied \subseteq Requests
    /\ current \in BOOLEAN /\ generation \in 1..MaxGenerations /\ since \in 1..generation

Init ==
    /\ session = [s \in Sessions |-> "none"] /\ owner = [s \in Sessions |-> 1]
    /\ record = [r \in Requests |-> "none"] /\ bound = {}
    /\ live = [s \in Sessions |-> "absent"]
    /\ client = [s \in Sessions |-> "none"]
    /\ admitting = {}
    /\ replacing = None
    /\ user = [r \in Requests |-> None]
    /\ step = [r \in Requests |-> "idle"]
    /\ queue = [s \in Sessions |-> <<>>]
    /\ cancels = {}
    /\ applied = [r \in Requests |-> 0]
    /\ denied = {}
    /\ current = TRUE /\ generation = 1 /\ since = 1

-----------------------------------------------------------------------------
(* Sessions *)

(* The requests of session s that have a process (live.active). *)
Active(s) == {r \in Requests : user[r] = s /\ step[r] \in {"running", "refusing"}}

(* WorkspaceToolBrokerStore.closeSession: what is unsettled is settled. *)
Closed(rs) ==
    [r \in Requests |->
        IF r \notin rs \/ record[r] \notin Unsettled THEN record[r]
        ELSE IF r \in Mutations /\ record[r] = "submitted" THEN "uncertain" ELSE "cancelled"]

CloseStored(s) ==
    /\ session' = [session EXCEPT ![s] = "closed"]
    /\ record' = Closed({r \in Requests : user[r] = s})

(* closeSession of each of ss, up to its first await: one that is not live is  *)
(* closed, one that is closing already is left alone.                          *)
BeginClose(ss) ==
    /\ session' = [s \in Sessions |->
          IF s \in ss /\ session[s] \in Open /\ live[s] = "absent" THEN "closed" ELSE session[s]]
    /\ record' = Closed({r \in Requests : user[r] \in {s \in ss : live[s] = "absent"}})
    /\ live' = [s \in Sessions |-> IF s \in ss /\ live[s] = "open" THEN "closing" ELSE live[s]]
    /\ cancels' = cancels \union UNION {Active(s) \X {"close"} : s \in {t \in ss : live[t] = "open"}}

(* createSession: the next session of the Action, for a command of g. *)
Create(before, g) ==
    \E s \in Sessions :
        /\ before[s] = "none" /\ \A t \in 1..(s - 1) : before[t] # "none"
        /\ session' = [before EXCEPT ![s] = "prepared"]
        /\ owner' = [owner EXCEPT ![s] = g]

(* The commands still handled: those received since the Worker started, which  *)
(* prepareWorkspaceToolBrokerWhenReady and its twin retry for ten minutes.     *)
Commands == since..generation

(* prepare, for a command of connection g: an open session of another binding  *)
(* is closed first, and awaited unless it is closing already.                  *)
Prepare(g) ==
    /\ current /\ replacing = None
    /\ LET open == {s \in Sessions : session[s] \in Open} IN
       IF open = {} THEN Create(session, g) /\ UNCHANGED <<record, live, cancels, replacing>>
       ELSE \E e \in {Min(open)} :
          \/ /\ live[e] = "absent"
             /\ record' = Closed({r \in Requests : user[r] = e})
             /\ Create([session EXCEPT ![e] = "closed"], g)
             /\ UNCHANGED <<live, cancels, replacing>>
          \/ /\ live[e] = "open"
             /\ BeginClose({e}) /\ replacing' = <<e, g>> /\ UNCHANGED owner
          \/ /\ live[e] = "closing"
             /\ Create(session, g) /\ UNCHANGED <<record, live, cancels, replacing>>
    /\ UNCHANGED <<bound, client, admitting, user, step, queue, applied, denied, current,
                   generation, since>>

(* prepare goes on once the session it closes is closed. *)
PrepareReplaced ==
    /\ replacing # None /\ session[replacing[1]] = "closed"
    /\ Create(session, replacing[2])
    /\ replacing' = None
    /\ UNCHANGED <<record, bound, live, client, admitting, user, step, queue, cancels, applied,
                   denied, current, generation, since>>

(* admit reads the session and waits for its authorities and its client. *)
AdmitBegins(s) ==
    /\ session[s] = "prepared" /\ current /\ s \notin admitting
    /\ admitting' = admitting \union {s}
    /\ UNCHANGED <<store, live, client, replacing, user, step, queue, cancels, applied, denied,
                   current, generation, since>>

(* admit after its awaits: a session no longer prepared refuses the admission. *)
admit(s) ==
    /\ s \in admitting
    /\ admitting' = admitting \ {s}
    /\ client' = IF Streamed THEN [client EXCEPT ![s] = "running"] ELSE client
    /\ IF session[s] = "prepared"
       THEN /\ session' = [session EXCEPT ![s] = "admitted"]
            /\ live' = [live EXCEPT ![s] = "open"]
       ELSE UNCHANGED <<session, live>>
    /\ UNCHANGED <<owner, record, bound, replacing, user, step, queue, cancels, applied, denied,
                   current, generation, since>>

(* closeByExecution, closeByRun, closeByProviderAccount, retireAll, or the     *)
(* client: the session is to be closed.                                        *)
closeSession(s) ==
    /\ session[s] \in Open /\ live[s] # "closing"
    /\ BeginClose({s})
    /\ UNCHANGED <<owner, bound, client, admitting, replacing, user, step, queue, applied, denied,
                   current, generation, since>>

(* monitorClient, consumeClient: the client is gone and closes its session. *)
ClientLost(s) ==
    /\ client[s] = "running" /\ live[s] = "open"
    /\ client' = [client EXCEPT ![s] = "gone"]
    /\ BeginClose({s})
    /\ UNCHANGED <<owner, bound, admitting, replacing, user, step, queue, applied, denied, current, generation, since>>

(* closeSession once every process is cancelled or failed to be. *)
CloseEnds(s) ==
    /\ live[s] = "closing"
    /\ \A c \in cancels : ~(c[2] = "close" /\ user[c[1]] = s)
    /\ CloseStored(s)
    /\ live' = [live EXCEPT ![s] = "absent"]
    /\ client' = [client EXCEPT ![s] = IF @ = "running" THEN "gone" ELSE @]
    /\ UNCHANGED <<owner, bound, admitting, replacing, user, step, queue, cancels, applied, denied,
                   current, generation, since>>

-----------------------------------------------------------------------------
(* Requests *)

(* responseForSettled, of a request without an answer yet: not_submitted. *)
Deny(r) == denied' = IF record[r] \in Unsettled THEN denied \union {r} ELSE denied

(* The coroutine of r ends: it leaves the count and, a mutation, the tail. *)
Ends(r) ==
    /\ step' = [step EXCEPT ![r] = "idle"]
    /\ queue' = [queue EXCEPT ![user[r]] = SelectSeq(@, LAMBDA q : q # r)]

(* execute, of a new request or of one that was used before on this session. *)
execute(s, r) ==
    /\ live[s] = "open" /\ user[r] \in {None, s}
    /\ IF record[r] # "none" \/ Cardinality({q \in Requests : user[q] = s /\ step[q] # "idle"}) >= MaxActive
       THEN Deny(r) /\ UNCHANGED <<record, user, step, queue>>
       ELSE /\ record' = [record EXCEPT ![r] = "not_submitted"]
            /\ user' = [user EXCEPT ![r] = s]
            /\ step' = [step EXCEPT ![r] = "queued"]
            /\ queue' = [queue EXCEPT ![s] = IF r \in Mutations THEN Append(@, r) ELSE @]
            /\ UNCHANGED denied
    /\ UNCHANGED <<session, owner, bound, live, client, admitting, replacing, cancels, applied, current, generation, since>>

(* assertAdmitted; tool policy and permissions refuse like a lost authority. *)
Admitted(r) == session[user[r]] = "admitted" /\ live[user[r]] = "open" /\ current

(* executeNow up to the spawn of the Run process. *)
executeNow(r) ==
    /\ step[r] = "queued" /\ (r \in Mutations => Head(queue[user[r]]) = r)
    /\ IF record[r] # "not_submitted"
       THEN Ends(r) /\ UNCHANGED record
       ELSE IF ~Admitted(r)
       THEN /\ record' = [record EXCEPT ![r] = "rejected"]
            /\ Ends(r)
       ELSE /\ record' = [record EXCEPT ![r] = "submitted"]
            /\ step' = [step EXCEPT ![r] = "spawning"]
            /\ UNCHANGED queue
    /\ UNCHANGED <<session, owner, bound, live, client, admitting, replacing, user, cancels, applied,
                   denied, current, generation, since>>

(* Mutant: a failure after the spawn is taken for one before it. *)
classifyExecutionError_unbound(r, error) ==
    CASE error \in {"not_submitted", "acknowledged"} -> error
      [] error = "ambiguous" \/ (error = "other" /\ r \notin bound) ->
            IF r \in Mutations THEN "uncertain" ELSE "acknowledged"
      [] OTHER -> "not_submitted"

(* classifyExecutionError: an error that does not know better leaves a mutation *)
(* with a recorded process uncertain.                                          *)
classifyExecutionError(r, error) ==
    CASE error \in {"not_submitted", "acknowledged"} -> error
      [] error = "ambiguous" \/ (error = "other" /\ r \in bound) ->
            IF r \in Mutations THEN "uncertain" ELSE "acknowledged"
      [] OTHER -> "not_submitted"

(* The catch of executeNow: a request settled meanwhile keeps its state. *)
Fail(r, error) ==
    /\ record' = [record EXCEPT ![r] =
          IF @ # "submitted" THEN @
          ELSE IF classifyExecutionError(r, error) = "uncertain" THEN "uncertain" ELSE "rejected"]
    /\ Ends(r)

SpawnFails(r, error) ==
    /\ step[r] = "spawning"
    /\ Fail(r, error)
    /\ UNCHANGED <<session, owner, bound, live, client, admitting, replacing, user, cancels, applied,
                   denied, current, generation, since>>

(* The process is there: of a request settled meanwhile it is cancelled, else  *)
(* it is recorded and then given its input. It is to do what it is told, or    *)
(* nothing: the write fails, or the tool refuses.                              *)
Spawned(r) ==
    /\ step[r] = "spawning"
    /\ IF record[r] # "submitted"
       THEN Ends(r) /\ UNCHANGED <<bound, applied>>
       ELSE /\ bound' = bound \union {r}
            /\ \/ /\ step' = [step EXCEPT ![r] = "running"]
                  /\ applied' = [applied EXCEPT ![r] = @ + 1]
               \/ step' = [step EXCEPT ![r] = "refusing"] /\ UNCHANGED applied
            /\ UNCHANGED queue
    /\ UNCHANGED <<session, owner, record, live, client, admitting, replacing, user, cancels,
                   denied, current, generation, since>>

(* The process exits: the authorities are asserted again, and its result, when *)
(* it is one, is recorded.                                                     *)
Complete(r) ==
    /\ step[r] = "running"
    /\ IF record[r] # "submitted"
       THEN Ends(r) /\ UNCHANGED record
       ELSE \/ /\ current
               /\ record' = [record EXCEPT ![r] = "completed"]
               /\ Ends(r)
            \/ Fail(r, "other")
    /\ UNCHANGED <<session, owner, bound, live, client, admitting, replacing, user, cancels, applied,
                   denied, current, generation, since>>

(* The write failed, the stream is lost, the process was killed, its result is *)
(* malformed, or it is the tool's own error, with the tool's certainty.        *)
Throws(r) ==
    /\ \/ step[r] = "running" /\ \E error \in {"ambiguous", "other"} : Fail(r, error)
       \/ step[r] = "refusing" /\ \E error \in {"not_submitted", "acknowledged", "ambiguous", "other"} : Fail(r, error)
    /\ UNCHANGED <<session, owner, bound, live, client, admitting, replacing, user, cancels, applied,
                   denied, current, generation, since>>

(* exitWithin gives up: the process is cancelled and, once gone, the request. *)
TimedOut(r) ==
    /\ step[r] \in {"running", "refusing"}
    /\ \/ /\ record' = [record EXCEPT ![r] = IF @ \in Unsettled THEN "cancelled" ELSE @]
          /\ Ends(r)
       \/ Fail(r, "ambiguous")
    /\ UNCHANGED <<session, owner, bound, live, client, admitting, replacing, user, cancels, applied,
                   denied, current, generation, since>>

(* cancel, up to its await. *)
cancel(r) ==
    /\ user[r] # None /\ live[user[r]] = "open" /\ record[r] \in Unsettled
    /\ IF r \in Active(user[r])
       THEN cancels' = cancels \union {<<r, "cancel">>} /\ UNCHANGED record
       ELSE record' = [record EXCEPT ![r] = "cancelled"] /\ UNCHANGED cancels
    /\ UNCHANGED <<session, owner, bound, live, client, admitting, replacing, user, step, queue, applied,
                   denied, current, generation, since>>

(* process.cancel() of cancel or of closeSession settles: the process is gone, *)
(* or no one knows. What executeNow makes of its exit may have come before.    *)
CancelSettles(r, by) ==
    /\ <<r, by>> \in cancels
    /\ cancels' = cancels \ {<<r, by>>}
    /\ \/ record' = [record EXCEPT ![r] =
          IF @ = "submitted" /\ (by = "cancel" \/ r \in Mutations) THEN "uncertain" ELSE @]
       \/ record' = [record EXCEPT ![r] = IF @ \in Unsettled THEN "cancelled" ELSE @]
    /\ UNCHANGED <<session, owner, bound, live, client, admitting, replacing, user, step, queue,
                   applied, denied, current, generation, since>>

-----------------------------------------------------------------------------
(* The dispatch ends, its lease is replaced, or the account's epoch changes. *)
AuthorityEnds ==
    /\ current /\ current' = FALSE
    /\ UNCHANGED <<store, live, client, admitting, replacing, user, step, queue, cancels, applied,
                   denied, generation, since>>

(* onDisconnected retires every session, and the Worker connects again. *)
Reconnect ==
    /\ generation < MaxGenerations /\ generation' = generation + 1
    /\ BeginClose(Sessions)
    /\ UNCHANGED <<owner, bound, client, admitting, replacing, user, step, queue, applied, denied,
                   current, since>>

(* The Worker restarts (reconcileRestart). *)
Restart ==
    /\ generation < MaxGenerations
    /\ generation' = generation + 1 /\ since' = generation'
    /\ record' = Closed(Requests)
    /\ session' = [s \in Sessions |-> IF session[s] = "none" THEN "none" ELSE "closed"]
    /\ live' = [s \in Sessions |-> "absent"]
    /\ client' = [s \in Sessions |-> IF client[s] = "running" THEN "gone" ELSE client[s]]
    /\ admitting' = {} /\ replacing' = None /\ cancels' = {}
    /\ step' = [r \in Requests |-> "idle"]
    /\ queue' = [s \in Sessions |-> <<>>]
    /\ UNCHANGED <<owner, bound, user, applied, denied, current>>

Next ==
    \/ (\E g \in Commands : Prepare(g))
    \/ PrepareReplaced \/ AuthorityEnds \/ Reconnect \/ Restart
    \/ \E s \in Sessions :
          \/ AdmitBegins(s) \/ admit(s) \/ closeSession(s) \/ ClientLost(s) \/ CloseEnds(s)
          \/ \E r \in Requests : execute(s, r)
    \/ \E r \in Requests :
          \/ executeNow(r) \/ Spawned(r) \/ Complete(r) \/ Throws(r) \/ TimedOut(r) \/ cancel(r)
          \/ (\E error \in {"not_submitted", "ambiguous", "other"} : SpawnFails(r, error))
          \/ (\E by \in {"cancel", "close"} : CancelSettles(r, by))

Spec == Init /\ [][Next]_vars

-----------------------------------------------------------------------------
(* What the store says of a mutation is true: it took effect at most once, not *)
(* at all when the request was rejected or never submitted, and it did when    *)
(* the request completed; through cancellations during the spawn,  *)
(* closing, lost streams, repeated requests and restarts.                      *)
MutationsAreAccountedFor ==
    \A r \in DOMAIN applied \ Reads :
        /\ applied[r] <= 1
        /\ record[r] \in {"none", "not_submitted", "rejected"} => applied[r] = 0
        /\ record[r] = "completed" => applied[r] = 1

(* docs/workspace-tool-broker.md: an operation answered not_submitted starts   *)
(* no Run process, so it takes no effect.  A repeated request in flight is     *)
(* answered so.                                                                *)
NotSubmittedStartsNothing ==
    \A r \in denied : applied[r] = 0

(* docs/workspace-tool-broker.md: cancellation records its intent first and a  *)
(* settled cancellation is not overwritten by a process error.                 *)
CancellationRecordsIntent ==
    \A r \in Requests : <<r, "cancel">> \in cancels => record[r] # "uncertain"

(* docs/workspace-tool-broker.md: Worker disconnect and generation replacement *)
(* retire matching sessions, and every spawn revalidates the generation.       *)
SessionsAreOfThisConnection ==
    \A s \in Sessions : live[s] = "open" => owner[s] = generation
=============================================================================
