------------------------------ MODULE ClientRuns ------------------------------
(***************************************************************************)
(* The Run a client shows and the active Runs it tracks: createAppStore,    *)
(* ActiveRunTracker and RealtimeClient of one open page. A projection is    *)
(* its Run and the version of the Run it was read at. A GET is answered by  *)
(* any version the Run had since it was sent, so an answer in flight is the *)
(* version at its start. Signals carry no data.                             *)
(***************************************************************************)
EXTENDS Naturals, FiniteSets, FiniteSetsExt

CONSTANTS
    Runs, None,
    FirstTerminal,     \* from this version on the Run is completed, failed or cancelled
    MaxVersion,        \* versions of a Run
    MaxVersions,       \* versions of all Runs together
    MaxSelects, MaxCommands, MaxDrops, MaxFailures

PageAssumption == FirstTerminal \in 2..MaxVersion /\ None \notin Runs

VARIABLES
    version,           \* server: version of each Run, 0 before its launch
    link,              \* the socket: "down" or "up"
    channel,           \* runChannels: "none", "joining", "replied" or "joined"
    reply,             \* version in the join reply on its way, 0 for none
    product,           \* the product channel: "joining" or "joined"
    signals,           \* Runs with a run_changed on its way to this client
    productSignal,     \* a product_changed on its way
    tracked,           \* tracked (and watchedRunIds: they change together)
    ended,             \* terminal: Runs seen to end, until a summary agrees
    held,              \* projections: version of each, 0 for none
    fetch,             \* inFlight: None, or the version when its GET was sent
    again,             \* refreshNeeded
    shown,             \* selectedRun: [run, version] or None
    chosen,            \* selectedRunId of the realtime client
    selects,           \* selectRun waiting for getRun: [run, from, latest]
    refetch,           \* invalidateRun in progress: [run, from, latest] or None
    refetchNeeded,
    listing,           \* invalidateProduct in progress: versions when sent, or None
    listNeeded,        \* productRefetchNeeded
    load,              \* loadProduct called directly: versions when sent, or None
    commands,          \* commands of the user: [run, kind, phase, from, same]
    unasked,           \* history: tracked Runs with a change announced that no request
                       \* sent since can have seen
    counts             \* bounded: selects, commands, drops, failures

server == <<version>>
socket == <<link, channel, reply, product, signals, productSignal>>
tracker == <<tracked, ended, held, fetch, again, unasked>>
selection == <<shown, chosen, selects, refetch, refetchNeeded, commands>>
lists == <<listing, listNeeded, load>>
vars == <<server, socket, tracker, selection, lists, counts>>

Versions == 0..MaxVersion
Terminal(v) == v >= FirstTerminal
Launched == {r \in Runs : version[r] > 0}
Sampled(r, from) == from..version[r]          \* what a GET sent at `from` may answer
Count(what) == counts' = [counts EXCEPT ![what] = @ + 1]

TypeOK ==
    /\ version \in [Runs -> Versions]
    /\ link \in {"down", "up"} /\ product \in {"joining", "joined"}
    /\ channel \in [Runs -> {"none", "joining", "replied", "joined"}]
    /\ reply \in [Runs -> Versions]
    /\ signals \subseteq Runs /\ productSignal \in BOOLEAN
    /\ tracked \subseteq Runs /\ ended \subseteq Runs /\ again \subseteq Runs
    /\ held \in [Runs -> Versions]
    /\ fetch \in [Runs -> Versions \cup {None}]
    /\ shown \in [run : Runs, version : Versions] \cup {None}
    /\ chosen \in Runs \cup {None}
    /\ selects \subseteq [run : Runs, from : Versions, latest : BOOLEAN]
    /\ refetch \in [run : Runs, from : Versions, latest : BOOLEAN] \cup {None}
    /\ refetchNeeded \in BOOLEAN /\ listNeeded \in BOOLEAN
    /\ listing \in [Runs -> Versions] \cup {None} /\ load \in [Runs -> Versions] \cup {None}
    /\ commands \subseteq [run : Runs, kind : {"project", "plain"}, same : BOOLEAN,
                           phase : {"sent", "reconciling"}, from : Versions]

-----------------------------------------------------------------------------
(* The store's synchronous pieces. A client state c is a record of what they *)
(* read and write; a handler is a composition of them, installed by Becomes. *)

Client == [shown |-> shown, chosen |-> chosen, tracked |-> tracked, ended |-> ended,
           held |-> held, fetch |-> fetch, again |-> again, channel |-> channel, reply |-> reply,
           selects |-> selects, refetch |-> refetch, needed |-> refetchNeeded,
           commands |-> commands, unasked |-> unasked]

Becomes(c) ==
    /\ shown' = c.shown /\ chosen' = c.chosen /\ tracked' = c.tracked /\ ended' = c.ended
    /\ held' = c.held /\ fetch' = c.fetch /\ again' = c.again /\ channel' = c.channel
    /\ reply' = c.reply
    /\ selects' = c.selects /\ refetch' = c.refetch /\ refetchNeeded' = c.needed
    /\ commands' = c.commands /\ unasked' = c.unasked

(* selectedRun.set: a projection object the pending commands did not start with *)
Show(c, r, v) ==
    [c EXCEPT !.shown = [run |-> r, version |-> v],
              !.commands = {[k EXCEPT !.same = FALSE] : k \in @}]

(* What the code does for each Run of a list, one after the other, touches the *)
(* entries of that Run only: the operators take the set S of the Runs.        *)

(* join: a channel is created once *)
Join(c, S) ==
    [c EXCEPT !.channel = [r \in Runs |-> IF r \in S /\ c.channel[r] = "none" THEN "joining"
                                          ELSE c.channel[r]]]

Leave(c, S) ==
    [c EXCEPT !.channel = [r \in Runs |-> IF r \in S THEN "none" ELSE c.channel[r]],
              !.reply = [r \in Runs |-> IF r \in S THEN 0 ELSE c.reply[r]]]

(* Mutant: the release always leaves *)
Unwatch_always(c, S) == Leave(c, S)

(* the release that watchRun returned: the selected Run keeps its channel *)
Unwatch(c, S) == Leave(c, S \ {c.chosen})

(* RealtimeClient.selectRun *)
Choose(c, r) ==
    IF c.chosen = r /\ c.channel[r] # "none" THEN c
    ELSE Join([Leave(c, {c.chosen} \ (c.tracked \cup {r})) EXCEPT !.chosen = r], {r})

(* refresh: an unfinished request of a Run is reused *)
Fetch(c, S) ==
    LET idle == {r \in S : c.fetch[r] = None}
    IN [c EXCEPT !.fetch = [r \in Runs |-> IF r \in idle THEN version[r] ELSE c.fetch[r]],
                 !.again = @ \ idle, !.unasked = @ \ idle]

StopTracking(c, S) ==
    Unwatch([c EXCEPT !.tracked = @ \ S, !.again = @ \ S, !.unasked = @ \ S,
                      !.held = [r \in Runs |-> IF r \in S THEN 0 ELSE c.held[r]]], S)

Busy(c, S) == {r \in S : c.fetch[r] # None}
Announced(c, S) == c.unasked \cup {r \in Busy(c, S) : version[r] > c.fetch[r]}

(* Mutant: an invalidation during a request is dropped *)
Invalidate_dropped(c, S) == Fetch([c EXCEPT !.unasked = Announced(c, S)], S)

(* ActiveRunTracker.invalidate *)
Invalidate(c, S) ==
    Fetch([c EXCEPT !.again = @ \cup Busy(c, S), !.unasked = Announced(c, S)], S)

(* accept, and the onProjection it calls *)
Accept(c, r, v) ==
    LET seen == IF c.shown # None /\ c.shown.run = r THEN Show(c, r, v) ELSE c
    IN IF Terminal(v) THEN StopTracking([seen EXCEPT !.ended = @ \cup {r}], {r})
       ELSE [seen EXCEPT !.held[r] = v]

Seed(c, r, v) == IF r \in c.tracked THEN Accept(c, r, v) ELSE c

(* ++runRequest: the earlier requests are no longer the latest *)
NewRequest(c) ==
    [c EXCEPT !.selects = {[s EXCEPT !.latest = FALSE] : s \in @},
              !.refetch = IF @ = None THEN None ELSE [@ EXCEPT !.latest = FALSE]]

Refetch(c, r) ==
    [NewRequest(c) EXCEPT !.refetch = [run |-> r, from |-> version[r], latest |-> TRUE],
                          !.needed = FALSE]

(* invalidateRun *)
InvalidateRun(c, r) == IF c.refetch # None THEN [c EXCEPT !.needed = TRUE] ELSE Refetch(c, r)

(* onInvalidated: of the Runs in S, the tracked ones and the one that is shown *)
Invalidated(c, S) ==
    LET d == Invalidate(c, S \cap c.tracked)
    IN IF c.shown # None /\ c.shown.run \in S \ c.tracked THEN InvalidateRun(d, c.shown.run)
       ELSE d

Track(c, S) == Fetch(Join([c EXCEPT !.tracked = @ \cup S], S), S)

(* updateSummaries: s gives the version each listed Run had, 0 if it is not listed *)
UpdateSummaries(c, s) ==
    LET known == [c EXCEPT !.ended = {r \in @ : s[r] > 0 /\ ~Terminal(s[r])}]
        desired == {r \in Runs : s[r] > 0 /\ ~Terminal(s[r])} \ known.ended
    IN Track(StopTracking(known, known.tracked \ desired), desired \ known.tracked)

-----------------------------------------------------------------------------
(* The server and the socket.                                               *)

Init ==
    /\ version \in [Runs -> {0, 1}] \ {[r \in Runs |-> 0]}
    /\ link = "down" /\ product = "joining"
    /\ channel = [r \in Runs |-> "none"] /\ reply = [r \in Runs |-> 0]
    /\ signals = {} /\ productSignal = FALSE
    /\ tracked = {} /\ ended = {} /\ again = {}
    /\ held = [r \in Runs |-> 0] /\ fetch = [r \in Runs |-> None]
    /\ shown = None /\ chosen = None /\ selects = {} /\ commands = {}
    /\ refetch = None /\ refetchNeeded = FALSE
    /\ listing = None /\ listNeeded = FALSE
    /\ load = version                               \* the page loads its catalogues
    /\ unasked = {}
    /\ counts = [select |-> 0, command |-> 0, drop |-> 0, failure |-> 0]

(* A change of a Run is announced on its channel; a launch and an end also on *)
(* product:all. Only channels that have joined hear of it.                   *)
Change(r) ==
    /\ version[r] < MaxVersion
    /\ MapThenSumSet(LAMBDA q : version[q], Runs) < MaxVersions
    /\ version' = [version EXCEPT ![r] = @ + 1]
    /\ signals' = IF channel[r] \in {"replied", "joined"} THEN signals \cup {r} ELSE signals
    /\ productSignal' = (productSignal \/ (product = "joined"
                                           /\ version'[r] \in {1, FirstTerminal}))
    /\ UNCHANGED <<link, channel, reply, product, tracker, selection, lists, counts>>

(* Every handler of the client below leaves the server as it is.            *)
Handles(c) == Becomes(c) /\ UNCHANGED server

(* socket.onOpen: the tracker reconnects, then every interested Run is       *)
(* invalidated once more                                                     *)
Interested == tracked \cup (IF chosen = None THEN {} ELSE {chosen})
Open ==
    /\ link = "down"
    /\ link' = "up"
    /\ Handles(Invalidated(Invalidate(Client, tracked), Interested))
    /\ UNCHANGED <<product, signals, productSignal, lists, counts>>

(* onError, onClose: what was on its way is lost, the library rejoins later  *)
Drop ==
    /\ link = "up" /\ counts.drop < MaxDrops
    /\ link' = "down"
    /\ signals' = {} /\ productSignal' = FALSE /\ product' = "joining"
    /\ Handles([Client EXCEPT !.held = [r \in Runs |-> 0],            \* suspend
                              !.reply = [r \in Runs |-> 0],
                              !.channel = [r \in Runs |-> IF channel[r] = "none" THEN "none"
                                                          ELSE "joining"]])
    /\ Count("drop")
    /\ UNCHANGED lists

JoinProduct ==
    /\ link = "up" /\ product = "joining"
    /\ product' = "joined"
    /\ UNCHANGED <<server, link, channel, reply, signals, productSignal, tracker, selection, lists,
                   counts>>

(* RunChannel.join reads the projection its reply carries; from then on the   *)
(* channel hears broadcasts, which follow the reply                          *)
JoinRun(r) ==
    /\ link = "up" /\ channel[r] = "joining"
    /\ channel' = [channel EXCEPT ![r] = "replied"]
    /\ reply' = [reply EXCEPT ![r] = version[r]]
    /\ UNCHANGED <<server, link, product, signals, productSignal, tracker, selection, lists,
                   counts>>

(* onJoined shows the projection if its Run is still the chosen one          *)
Joined(r) ==
    /\ link = "up" /\ channel[r] = "replied"
    /\ LET joined == [Client EXCEPT !.channel[r] = "joined", !.reply[r] = 0]
       IN Handles(IF chosen = r THEN Seed(Show(joined, r, reply[r]), r, reply[r]) ELSE joined)
    /\ UNCHANGED <<link, product, signals, productSignal, lists, counts>>

RunChanged(r) ==
    /\ link = "up" /\ r \in signals /\ channel[r] # "replied"
    /\ signals' = signals \ {r}
    /\ Handles(IF channel[r] = "joined" THEN Invalidated(Client, {r}) ELSE Client)
    /\ UNCHANGED <<link, product, productSignal, lists, counts>>

-----------------------------------------------------------------------------
(* The tracker's requests. When one ends, another is sent at once if the Run *)
(* is still tracked and was invalidated meanwhile.                           *)
FetchEnds(c, r) ==
    LET over == [c EXCEPT !.fetch[r] = None]
    IN IF r \in c.tracked \cap c.again THEN Fetch(over, {r}) ELSE over

Fetched(r) ==
    /\ fetch[r] # None
    /\ \E v \in Sampled(r, fetch[r]) :
          Handles(FetchEnds(IF r \in tracked THEN Accept(Client, r, v) ELSE Client, r))
    /\ UNCHANGED <<link, product, signals, productSignal, lists, counts>>

FetchFails(r) ==
    /\ fetch[r] # None /\ counts.failure < MaxFailures
    /\ Handles(FetchEnds(IF r \in tracked THEN [Client EXCEPT !.held[r] = 0] ELSE Client, r))
    /\ Count("failure")
    /\ UNCHANGED <<link, product, signals, productSignal, lists>>

-----------------------------------------------------------------------------
(* The user selects a Run. One that the tracker holds is shown at once.      *)
Selected(c, r, v) == Choose(Seed(Show(c, r, v), r, v), r)

SelectRun(r) ==
    /\ version[r] > 0 /\ counts.select < MaxSelects
    /\ Handles(IF held[r] > 0
               THEN LET c == NewRequest(Client)
                        kept == IF shown # None /\ shown.run = r THEN c ELSE Show(c, r, held[r])
                    IN Choose(kept, r)               \* the object that is shown already
               ELSE LET c == NewRequest(Client)
                    IN [c EXCEPT !.selects = @ \cup {[run |-> r, from |-> version[r],
                                                      latest |-> TRUE]}])
    /\ Count("select")
    /\ UNCHANGED <<link, product, signals, productSignal, lists>>

SelectAnswered(s) ==
    /\ s \in selects
    /\ LET c == [Client EXCEPT !.selects = @ \ {s}]
       IN \E v \in Sampled(s.run, s.from) :
             Handles(IF s.latest THEN Selected(c, s.run, v) ELSE c)
    /\ UNCHANGED <<link, product, signals, productSignal, lists, counts>>

(* invalidateRun's loop: it asks again for the Run it was started with       *)
RefetchAnswered ==
    /\ refetch # None
    /\ \E v \in Sampled(refetch.run, refetch.from) :
          LET r == refetch.run
              c == IF refetch.latest /\ shown # None /\ shown.run = r
                   THEN Seed(Show(Client, r, v), r, v) ELSE Client
          IN Handles(IF refetchNeeded THEN Refetch(c, r) ELSE [c EXCEPT !.refetch = None])
    /\ UNCHANGED <<link, product, signals, productSignal, lists, counts>>

RefetchFails ==
    /\ refetch # None /\ counts.failure < MaxFailures
    /\ Handles([Client EXCEPT !.refetch = None])
    /\ Count("failure")
    /\ UNCHANGED <<link, product, signals, productSignal, lists>>

-----------------------------------------------------------------------------
(* Commands about the shown Run. The answer to one of kind "project" is the  *)
(* Run after the command (authorizePrompt, cancelExecution, attention and    *)
(* harness setup); one of kind "plain" is followed by invalidateRun.         *)
Command(kind) ==
    /\ shown # None /\ counts.command < MaxCommands
    /\ commands' = commands \cup {[run |-> shown.run, kind |-> kind, same |-> TRUE,
                                   phase |-> "sent", from |-> version[shown.run]]}
    /\ Count("command")
    /\ UNCHANGED <<server, socket, tracker, lists, shown, chosen, selects, refetch,
                   refetchNeeded>>

(* reconcileExecutionProjection                                              *)
Reconcile(c, k) ==
    [c EXCEPT !.commands = @ \cup {[k EXCEPT !.phase = "reconciling", !.same = FALSE,
                                             !.from = version[k.run]]}]

CommandAnswered(k) ==
    /\ k \in commands /\ k.phase = "sent"
    /\ LET c == [Client EXCEPT !.commands = @ \ {k}]
       IN IF k.kind = "plain" THEN Handles(InvalidateRun(c, k.run))
          ELSE IF k.same
          THEN \E v \in Sampled(k.run, k.from) : Handles(Seed(Show(c, k.run, v), k.run, v))
          ELSE Handles(Reconcile(c, k))
    /\ UNCHANGED <<link, product, signals, productSignal, lists, counts>>

CommandFails(k) ==
    /\ k \in commands /\ k.phase = "sent" /\ counts.failure < MaxFailures
    /\ LET c == [Client EXCEPT !.commands = @ \ {k}]
       IN Handles(IF k.kind = "plain" THEN c ELSE Reconcile(c, k))
    /\ Count("failure")
    /\ UNCHANGED <<link, product, signals, productSignal, lists>>

Reconciled(k) ==
    /\ k \in commands /\ k.phase = "reconciling"
    /\ LET c == [Client EXCEPT !.commands = @ \ {k}]
       IN \E v \in Sampled(k.run, k.from) :
             Handles(IF shown # None /\ shown.run = k.run
                     THEN Seed(Show(c, k.run, v), k.run, v) ELSE c)
    /\ UNCHANGED <<link, product, signals, productSignal, lists, counts>>

-----------------------------------------------------------------------------
(* Product catalogues: invalidateProduct repeats while it was invalidated    *)
(* during its request; loadProduct called by the page runs beside it.        *)
Lists(from) == {s \in [Runs -> Versions] : \A r \in Runs : s[r] \in Sampled(r, from[r])}

ProductChanged ==
    /\ link = "up" /\ productSignal
    /\ productSignal' = FALSE
    /\ IF listing = None THEN listing' = version /\ listNeeded' = FALSE
       ELSE listNeeded' = TRUE /\ UNCHANGED listing
    /\ UNCHANGED <<server, link, channel, reply, product, signals, tracker, selection, load, counts>>

ListingEnds ==
    /\ listing' = IF listNeeded THEN version ELSE None
    /\ listNeeded' = FALSE

Listed ==
    /\ listing # None
    /\ \E s \in Lists(listing) : Handles(UpdateSummaries(Client, s))
    /\ ListingEnds
    /\ UNCHANGED <<link, product, signals, productSignal, load, counts>>

Loaded ==
    /\ load # None
    /\ \E s \in Lists(load) : Handles(UpdateSummaries(Client, s))
    /\ load' = None
    /\ UNCHANGED <<link, product, signals, productSignal, listing, listNeeded, counts>>

-----------------------------------------------------------------------------
Answers ==
    \/ \E r \in Runs : Fetched(r)
    \/ \E s \in selects : SelectAnswered(s)
    \/ \E k \in commands : CommandAnswered(k) \/ Reconciled(k)
    \/ RefetchAnswered \/ Listed \/ Loaded

Deliveries ==
    \/ JoinProduct \/ ProductChanged
    \/ \E r \in Runs : JoinRun(r) \/ Joined(r) \/ RunChanged(r)

Next ==
    \/ \E r \in Runs : Change(r) \/ SelectRun(r) \/ FetchFails(r)
    \/ Open \/ Drop \/ Deliveries \/ Answers
    \/ \E kind \in {"project", "plain"} : Command(kind)
    \/ \E k \in commands : CommandFails(k)
    \/ RefetchFails

(* Every request sent is answered, the socket reopens and delivers: what an  *)
(* open page with a working network sees.                                    *)
Fairness ==
    /\ WF_vars(Open) /\ WF_vars(JoinProduct) /\ WF_vars(ProductChanged)
    /\ \A r \in Runs : WF_vars(JoinRun(r)) /\ WF_vars(Joined(r)) /\ WF_vars(RunChanged(r))
                     /\ WF_vars(Fetched(r))
    /\ WF_vars(Answers)

Spec == Init /\ [][Next]_vars
FairSpec == Spec /\ Fairness

-----------------------------------------------------------------------------
(* A channel is open exactly for the tracked Runs and the selected one,      *)
(* however tracking, selection, answers and reconnections interleave: a Run  *)
(* on screen is never left without its signals (watchRun, selectRun).        *)
InterestHasItsChannel == {r \in DOMAIN channel : channel[r] # "none"} = Interested

(* A change announced while a request for the Run is in flight is asked for   *)
(* by another request (ActiveRunTracker.invalidate and refresh).             *)
AnnouncedChangesAreFetched ==
    \A r \in unasked : r \in tracked /\ fetch[r] # None /\ r \in again

(* The end of a command never replaces a newer projection of its Run, come    *)
(* meanwhile, with an older one (acceptExecutionProjection).                 *)
NewestWins ==
    [][(Cardinality(commands') < Cardinality(commands) /\ shown # None
        /\ shown'.run = shown.run) => shown'.version >= shown.version]_vars

(* The tracker does not keep a Run that has ended for ever                   *)
(* (ActiveRunTracker keeps details only for nonterminal Runs).               *)
EventuallyReleased ==
    \A r \in Runs : <>[](Terminal(version[r])) => []<>(r \notin tracked)

(* Once a Run stops changing, the page that shows it shows its last version,  *)
(* as the refetches after each signal are to achieve.                        *)
EventuallyCurrent ==
    \A r \in Runs : <>[](shown # None /\ shown.run = r)
                    => <>[](shown # None /\ shown.version = version[r])
=============================================================================
