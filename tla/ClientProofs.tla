---------------------------- MODULE ClientProofs ----------------------------
(***************************************************************************)
(* Theorems about the client: the page has the channels of the Runs it      *)
(* follows and asks for what is announced (ClientRuns), and a terminal that *)
(* is over is shown so (LocalObservation).                                  *)
(*                                                                          *)
(* The two parts share no variable; each has its inductive invariant.       *)
(***************************************************************************)
EXTENDS Client, Naturals, Sequences, WellFoundedInduction, TLAPS

-----------------------------------------------------------------------------
(* The Runs of the page (ClientRuns).                                       *)

ChannelState == {"none", "joining", "replied", "joined"}
Selecting == [run : Runs, from : Nat, latest : BOOLEAN]
Fields == {"shown", "chosen", "tracked", "ended", "held", "fetch", "again", "channel", "reply",
           "selects", "refetch", "needed", "commands", "unasked"}

(* A client state is a record of the store's pieces.                        *)
ClientTyped(c) ==
    /\ Fields \subseteq DOMAIN c
    /\ c.channel \in [Runs -> ChannelState] /\ c.fetch \in [Runs -> Nat \cup {None}]
    /\ c.tracked \subseteq Runs /\ c.chosen \in Runs \cup {None}
    /\ c.selects \subseteq Selecting

(* A Run has a channel exactly while it is tracked or selected.             *)
ChannelsOf(c) ==
    \A r \in Runs : c.channel[r] # "none" <=> (r \in c.tracked \/ r = c.chosen)

(* What was announced during a request will be asked for after it.          *)
AskedAgain(c) ==
    \A r \in c.unasked : r \in c.tracked /\ r \in c.again /\ c.fetch[r] # None

Kept(c) == ClientTyped(c) /\ ChannelsOf(c) /\ AskedAgain(c)

PageInv == version \in [Runs -> Nat] /\ Kept(Page!Client)

(* A step of the store that leaves all of that alone.                       *)
LEMMA KeptAside ==
    ASSUME NEW c, NEW d, Kept(c), Fields \subseteq DOMAIN d,
           d.channel = c.channel, d.fetch = c.fetch, d.tracked = c.tracked,
           d.chosen = c.chosen, d.selects \subseteq Selecting, d.again = c.again,
           d.unasked = c.unasked
    PROVE  Kept(d)
  BY DEF Kept, ClientTyped, ChannelsOf, AskedAgain

(* A request is sent for the Runs that have none.                           *)
LEMMA FetchKeeps ==
    ASSUME version \in [Runs -> Nat], NEW c, NEW S,
           ClientTyped(c), ChannelsOf(c),
           \A r \in c.unasked : r \in c.tracked /\ r \in c.again /\ (c.fetch[r] # None \/ r \in S)
    PROVE  Kept(Page!Fetch(c, S))
<1> DEFINE idle == {r \in S : c.fetch[r] = None}
           d == Page!Fetch(c, S)
<1>1. /\ Fields \subseteq DOMAIN d
      /\ d.fetch = [r \in Runs |-> IF r \in idle THEN version[r] ELSE c.fetch[r]]
      /\ d.again = c.again \ idle /\ d.unasked = c.unasked \ idle
      /\ d.channel = c.channel /\ d.tracked = c.tracked /\ d.chosen = c.chosen
      /\ d.selects = c.selects
  BY DEF Page!Fetch, ClientTyped, Fields
<1> HIDE DEF d
<1>2. d.fetch \in [Runs -> Nat \cup {None}]
  BY <1>1 DEF ClientTyped
<1>3. AskedAgain(d)
  <2> SUFFICES ASSUME NEW r \in d.unasked
               PROVE  r \in d.tracked /\ r \in d.again /\ d.fetch[r] # None
    BY DEF AskedAgain
  <2>1. r \in c.unasked /\ r \notin idle /\ r \in c.tracked /\ r \in c.again
    BY <1>1
  <2>2. c.fetch[r] # None /\ r \in Runs
    BY <2>1 DEF ClientTyped
  <2> QED
    BY <1>1, <2>1, <2>2
<1>4. Kept(d)
  BY <1>1, <1>2, <1>3 DEF Kept, ClientTyped, ChannelsOf
<1> QED
  BY <1>4 DEF d

(* A request is sent for a tracked Run, or for one that nothing is due of.  *)
LEMMA FetchOfKept ==
    ASSUME version \in [Runs -> Nat], NEW c, NEW S, Kept(c)
    PROVE  Kept(Page!Fetch(c, S))
  BY FetchKeeps DEF Kept, AskedAgain

(* A release of what is no longer tracked keeps the channel of the chosen Run. *)
LEMMA StopTrackingKeeps ==
    ASSUME NEW c, NEW S, Kept(c), None \notin Runs
    PROVE  Kept(Page!StopTracking(c, S))
<1> DEFINE b == [c EXCEPT !.tracked = @ \ S, !.again = @ \ S, !.unasked = @ \ S,
                          !.held = [r \in Runs |-> IF r \in S THEN 0 ELSE c.held[r]]]
           d == Page!StopTracking(c, S)
<1>1. /\ Fields \subseteq DOMAIN b
      /\ b.tracked = c.tracked \ S /\ b.again = c.again \ S /\ b.unasked = c.unasked \ S
      /\ b.channel = c.channel /\ b.chosen = c.chosen /\ b.fetch = c.fetch
      /\ b.selects = c.selects
  BY DEF Kept, ClientTyped, Fields
<1>2. d = Page!Leave(b, S \ {b.chosen})
  BY DEF Page!StopTracking, Page!Unwatch
<1> HIDE DEF b, d
<1>3. /\ Fields \subseteq DOMAIN d
      /\ d.channel = [r \in Runs |-> IF r \in S \ {c.chosen} THEN "none" ELSE c.channel[r]]
      /\ d.tracked = c.tracked \ S /\ d.again = c.again \ S /\ d.unasked = c.unasked \ S
      /\ d.chosen = c.chosen /\ d.fetch = c.fetch /\ d.selects = c.selects
  BY <1>1, <1>2 DEF Page!Leave, Fields
<1>4. ClientTyped(d)
  <2>1. d.channel \in [Runs -> ChannelState]
    BY <1>3 DEF Kept, ClientTyped, ChannelState
  <2> QED
    BY <1>3, <2>1 DEF Kept, ClientTyped
<1>5. ChannelsOf(d)
  BY <1>3 DEF Kept, ChannelsOf
<1>6. AskedAgain(d)
  BY <1>3 DEF Kept, AskedAgain
<1> QED
  BY <1>4, <1>5, <1>6 DEF Kept, d

(* New Runs are tracked: they get a channel and a request.                  *)
LEMMA TrackKeeps ==
    ASSUME version \in [Runs -> Nat], NEW c, NEW S \in SUBSET Runs, Kept(c), None \notin Runs
    PROVE  Kept(Page!Track(c, S))
<1> DEFINE b == [c EXCEPT !.tracked = @ \cup S]
           d == Page!Join(b, S)
<1>1. /\ Fields \subseteq DOMAIN b /\ b.tracked = c.tracked \cup S
      /\ b.again = c.again /\ b.unasked = c.unasked
      /\ b.channel = c.channel /\ b.chosen = c.chosen /\ b.fetch = c.fetch
      /\ b.selects = c.selects
  BY DEF Kept, ClientTyped, Fields
<1> HIDE DEF b
<1>2. /\ Fields \subseteq DOMAIN d /\ d.tracked = c.tracked \cup S
      /\ d.channel = [r \in Runs |-> IF r \in S /\ c.channel[r] = "none" THEN "joining"
                                     ELSE c.channel[r]]
      /\ d.again = c.again /\ d.unasked = c.unasked
      /\ d.chosen = c.chosen /\ d.fetch = c.fetch /\ d.selects = c.selects
  BY <1>1 DEF Page!Join, Fields
<1>3. Page!Track(c, S) = Page!Fetch(d, S)
  BY DEF Page!Track, b
<1> HIDE DEF d
<1>4. ClientTyped(d)
  <2>1. d.channel \in [Runs -> ChannelState]
    BY <1>2 DEF Kept, ClientTyped, ChannelState
  <2> QED
    BY <1>2, <2>1 DEF Kept, ClientTyped
<1>5. ChannelsOf(d)
  BY <1>2 DEF Kept, ChannelsOf
<1>6. AskedAgain(d)
  BY <1>2 DEF Kept, AskedAgain
<1> QED
  BY <1>3, <1>4, <1>5, <1>6, FetchOfKept DEF Kept

(* An invalidation asks for a Run now, or again after the request under way. *)
LEMMA InvalidateKeeps ==
    ASSUME version \in [Runs -> Nat], NEW c, NEW S, Kept(c), S \subseteq c.tracked
    PROVE  Kept(Page!Invalidate(c, S))
<1> DEFINE d == [c EXCEPT !.again = @ \cup Page!Busy(c, S), !.unasked = Page!Announced(c, S)]
<1>1. /\ Fields \subseteq DOMAIN d
      /\ d.again = c.again \cup Page!Busy(c, S) /\ d.unasked = Page!Announced(c, S)
      /\ d.tracked = c.tracked /\ d.channel = c.channel /\ d.chosen = c.chosen
      /\ d.fetch = c.fetch /\ d.selects = c.selects
  BY DEF Kept, ClientTyped, Fields
<1>2. Page!Invalidate(c, S) = Page!Fetch(d, S)
  BY DEF Page!Invalidate
<1> HIDE DEF d
<1>3. Kept(d)
  BY <1>1 DEF Kept, ClientTyped, ChannelsOf, AskedAgain, Page!Busy, Page!Announced
<1> QED
  BY <1>2, <1>3, FetchOfKept

(* An invalidation leaves what is tracked.                                  *)
LEMMA InvalidateTracks ==
    ASSUME NEW c, NEW S, Fields \subseteq DOMAIN c
    PROVE  Page!Invalidate(c, S).tracked = c.tracked
  BY DEF Fields, Page!Invalidate, Page!Fetch

(* A projection is shown.                                                   *)
LEMMA ShowKeeps ==
    ASSUME NEW c, NEW r, NEW v, Kept(c)
    PROVE  Kept(Page!Show(c, r, v))
<1> DEFINE d == Page!Show(c, r, v)
<1>1. /\ Fields \subseteq DOMAIN d /\ d.channel = c.channel /\ d.fetch = c.fetch
      /\ d.tracked = c.tracked /\ d.chosen = c.chosen /\ d.selects = c.selects
      /\ d.again = c.again /\ d.unasked = c.unasked
  BY DEF Page!Show, Kept, ClientTyped, Fields
<1> HIDE DEF d
<1>2. Kept(d)
  BY <1>1, KeptAside DEF Kept, ClientTyped
<1> QED
  BY <1>2 DEF d

(* The tracker accepts a projection: it holds it, or stops tracking its Run. *)
LEMMA AcceptKeeps ==
    ASSUME NEW c, NEW r, NEW v, Kept(c), None \notin Runs
    PROVE  Kept(Page!Accept(c, r, v))
<1> DEFINE seen == IF c.shown # None /\ c.shown.run = r THEN Page!Show(c, r, v) ELSE c
           over == [seen EXCEPT !.ended = @ \cup {r}]
           taken == [seen EXCEPT !.held[r] = v]
<1>1. Kept(seen)
  BY ShowKeeps
<1>2. Page!Accept(c, r, v)
        = IF Page!Terminal(v) THEN Page!StopTracking(over, {r}) ELSE taken
  BY DEF Page!Accept
<1> HIDE DEF seen
<1>3. /\ Fields \subseteq DOMAIN over /\ over.channel = seen.channel
      /\ over.fetch = seen.fetch /\ over.tracked = seen.tracked /\ over.chosen = seen.chosen
      /\ over.selects = seen.selects /\ over.again = seen.again
      /\ over.unasked = seen.unasked
  BY <1>1 DEF Kept, ClientTyped, Fields
<1>4. /\ Fields \subseteq DOMAIN taken /\ taken.channel = seen.channel
      /\ taken.fetch = seen.fetch /\ taken.tracked = seen.tracked /\ taken.chosen = seen.chosen
      /\ taken.selects = seen.selects /\ taken.again = seen.again
      /\ taken.unasked = seen.unasked
  BY <1>1 DEF Kept, ClientTyped, Fields
<1> HIDE DEF over, taken
<1>5. Kept(over) /\ Kept(taken)
  BY <1>1, <1>3, <1>4, KeptAside DEF Kept, ClientTyped
<1> QED
  BY <1>2, <1>5, StopTrackingKeeps

(* A projection that arrives from elsewhere seeds a tracked Run.            *)
LEMMA SeedKeeps ==
    ASSUME NEW c, NEW r, NEW v, Kept(c), None \notin Runs
    PROVE  Kept(Page!Seed(c, r, v))
  BY AcceptKeeps DEF Page!Seed

(* A Run is selected: the one before it keeps its channel while tracked.    *)
LEMMA ChooseKeeps ==
    ASSUME NEW c, NEW r \in Runs, Kept(c), None \notin Runs
    PROVE  Kept(Page!Choose(c, r))
<1>1. CASE c.chosen = r /\ c.channel[r] # "none"
  BY <1>1 DEF Page!Choose
<1>2. CASE ~(c.chosen = r /\ c.channel[r] # "none")
  <2> DEFINE S == {c.chosen} \ (c.tracked \cup {r})
             b == [Page!Leave(c, S) EXCEPT !.chosen = r]
             d == Page!Choose(c, r)
  <2>1. d = Page!Join(b, {r})
    BY <1>2 DEF Page!Choose
  <2>2. /\ Fields \subseteq DOMAIN b /\ b.chosen = r
        /\ b.channel = [x \in Runs |-> IF x \in S THEN "none" ELSE c.channel[x]]
        /\ b.tracked = c.tracked /\ b.fetch = c.fetch /\ b.again = c.again
        /\ b.unasked = c.unasked /\ b.selects = c.selects
    BY DEF Page!Leave, Kept, ClientTyped, Fields
  <2> HIDE DEF b, d
  <2>3. /\ Fields \subseteq DOMAIN d /\ d.chosen = r
        /\ d.channel = [x \in Runs |-> IF x \in {r} /\ b.channel[x] = "none" THEN "joining"
                                       ELSE b.channel[x]]
        /\ d.tracked = c.tracked /\ d.fetch = c.fetch /\ d.again = c.again
        /\ d.unasked = c.unasked /\ d.selects = c.selects
    BY <2>1, <2>2 DEF Page!Join, Fields
  <2>4. ClientTyped(d)
    <3>1. b.channel \in [Runs -> ChannelState]
      BY <2>2 DEF Kept, ClientTyped, ChannelState
    <3>2. d.channel \in [Runs -> ChannelState]
      BY <2>3, <3>1 DEF ChannelState
    <3> QED
      BY <2>3, <3>2 DEF Kept, ClientTyped
  <2>5. ChannelsOf(d)
    BY <2>2, <2>3 DEF Kept, ChannelsOf
  <2>6. AskedAgain(d)
    BY <2>3 DEF Kept, AskedAgain
  <2> QED
    BY <2>4, <2>5, <2>6 DEF Kept, d
<1> QED
  BY <1>1, <1>2

(* A newer request of the page: the earlier ones are no longer the latest.  *)
LEMMA NewRequestKeeps ==
    ASSUME NEW c, Kept(c)
    PROVE  Kept(Page!NewRequest(c))
<1> DEFINE d == Page!NewRequest(c)
<1>1. /\ Fields \subseteq DOMAIN d /\ d.channel = c.channel /\ d.fetch = c.fetch
      /\ d.tracked = c.tracked /\ d.chosen = c.chosen /\ d.again = c.again
      /\ d.unasked = c.unasked
      /\ d.selects = {[s EXCEPT !.latest = FALSE] : s \in c.selects}
  BY DEF Page!NewRequest, Kept, ClientTyped, Fields
<1> HIDE DEF d
<1>2. ASSUME NEW s \in Selecting PROVE [s EXCEPT !.latest = FALSE] \in Selecting
  BY DEF Selecting
<1>3. d.selects \subseteq Selecting
  BY <1>1, <1>2 DEF Kept, ClientTyped
<1>4. Kept(d)
  BY <1>1, <1>3, KeptAside
<1> QED
  BY <1>4 DEF d

(* The page asks again for the Run it shows.                                *)
LEMMA RefetchKeeps ==
    ASSUME NEW c, NEW r, Kept(c)
    PROVE  Kept(Page!Refetch(c, r)) /\ Kept(Page!InvalidateRun(c, r))
<1> DEFINE n == Page!NewRequest(c)
           d == Page!Refetch(c, r)
           e == [c EXCEPT !.needed = TRUE]
<1>1. Kept(n)
  BY NewRequestKeeps
<1>2. d = [n EXCEPT !.refetch = [run |-> r, from |-> version[r], latest |-> TRUE],
                    !.needed = FALSE]
  BY DEF Page!Refetch
<1> HIDE DEF n, d
<1>3. /\ Fields \subseteq DOMAIN d /\ d.channel = n.channel /\ d.fetch = n.fetch
      /\ d.tracked = n.tracked /\ d.chosen = n.chosen /\ d.selects = n.selects
      /\ d.again = n.again /\ d.unasked = n.unasked
  BY <1>1, <1>2 DEF Kept, ClientTyped, Fields
<1>4. Kept(d)
  BY <1>1, <1>3, KeptAside DEF Kept, ClientTyped
<1>5. /\ Fields \subseteq DOMAIN e /\ e.channel = c.channel /\ e.fetch = c.fetch
      /\ e.tracked = c.tracked /\ e.chosen = c.chosen /\ e.selects = c.selects
      /\ e.again = c.again /\ e.unasked = c.unasked
  BY DEF Kept, ClientTyped, Fields
<1> HIDE DEF e
<1>6. Kept(e)
  BY <1>5, KeptAside DEF Kept, ClientTyped
<1> QED
  BY <1>4, <1>6 DEF Page!InvalidateRun, d, e
(* A signal, or a socket that opens, invalidates what is followed.           *)
LEMMA InvalidatedKeeps ==
    ASSUME version \in [Runs -> Nat], NEW c, NEW S, Kept(c)
    PROVE  Kept(Page!Invalidated(c, S))
<1> DEFINE d == Page!Invalidate(c, S \cap c.tracked)
<1>1. Kept(d)
  BY InvalidateKeeps
<1> HIDE DEF d
<1>2. Kept(Page!InvalidateRun(d, c.shown.run))
  BY <1>1, RefetchKeeps
<1> QED
  BY <1>1, <1>2 DEF Page!Invalidated, d

(* A list of Runs starts and stops their tracking.                           *)
LEMMA SummariesKeep ==
    ASSUME version \in [Runs -> Nat], NEW c, NEW s, Kept(c), None \notin Runs
    PROVE  Kept(Page!UpdateSummaries(c, s))
<1> DEFINE known == [c EXCEPT !.ended = {r \in @ : s[r] > 0 /\ ~Page!Terminal(s[r])}]
           desired == {r \in Runs : s[r] > 0 /\ ~Page!Terminal(s[r])} \ known.ended
           left == Page!StopTracking(known, known.tracked \ desired)
<1>1. /\ Fields \subseteq DOMAIN known /\ known.channel = c.channel /\ known.fetch = c.fetch
      /\ known.tracked = c.tracked /\ known.chosen = c.chosen /\ known.selects = c.selects
      /\ known.again = c.again /\ known.unasked = c.unasked
  BY DEF Kept, ClientTyped, Fields
<1>2. Page!UpdateSummaries(c, s) = Page!Track(left, desired \ known.tracked)
  BY DEF Page!UpdateSummaries
<1>3. desired \ known.tracked \in SUBSET Runs
  OBVIOUS
<1> HIDE DEF known, desired
<1>4. Kept(known)
  BY <1>1, KeptAside DEF Kept, ClientTyped
<1>5. Kept(left)
  BY <1>4, StopTrackingKeeps
<1> HIDE DEF left
<1> QED
  BY <1>2, <1>3, <1>5, TrackKeeps

(* A request of the tracker ends, and another follows if one is due.        *)
LEMMA FetchEndsKeeps ==
    ASSUME version \in [Runs -> Nat], NEW c, NEW r \in Runs, Kept(c)
    PROVE  Kept(Page!FetchEnds(c, r))
<1> DEFINE over == [c EXCEPT !.fetch[r] = None]
<1>1. /\ Fields \subseteq DOMAIN over /\ over.fetch = [c.fetch EXCEPT ![r] = None]
      /\ over.channel = c.channel /\ over.tracked = c.tracked /\ over.chosen = c.chosen
      /\ over.selects = c.selects /\ over.again = c.again /\ over.unasked = c.unasked
  BY DEF Kept, ClientTyped, Fields
<1>2. Page!FetchEnds(c, r)
        = IF r \in c.tracked \cap c.again THEN Page!Fetch(over, {r}) ELSE over
  BY DEF Page!FetchEnds
<1> HIDE DEF over
<1>3. over.fetch \in [Runs -> Nat \cup {None}]
  BY <1>1 DEF Kept, ClientTyped
<1>4. ClientTyped(over) /\ ChannelsOf(over)
  BY <1>1, <1>3 DEF Kept, ClientTyped, ChannelsOf
<1>5. \A x \in over.unasked :
        x \in over.tracked /\ x \in over.again /\ (over.fetch[x] # None \/ x \in {r})
  <2> SUFFICES ASSUME NEW x \in over.unasked
               PROVE  x \in over.tracked /\ x \in over.again
                      /\ (over.fetch[x] # None \/ x \in {r})
    OBVIOUS
  <2>1. x \in c.tracked /\ x \in c.again /\ c.fetch[x] # None /\ x \in Runs
    BY <1>1 DEF Kept, AskedAgain, ClientTyped
  <2> QED
    BY <1>1, <2>1 DEF Kept, ClientTyped
<1>6. CASE r \in c.tracked \cap c.again
  BY <1>2, <1>4, <1>5, <1>6, FetchKeeps
<1>7. CASE r \notin c.tracked \cap c.again
  <2>1. AskedAgain(over)
    BY <1>1, <1>5, <1>7 DEF AskedAgain
  <2> QED
    BY <1>2, <1>4, <1>7, <2>1 DEF Kept
<1> QED
  BY <1>6, <1>7

(* What becomes of the page is what a handler made of the client state.      *)
LEMMA HandlesKeeps ==
    ASSUME PageInv, NEW c, Kept(c), Page!Handles(c)
    PROVE  PageInv'
<1>1. version' \in [Runs -> Nat]
  BY DEF PageInv, Page!Handles, Page!server
<1>2. /\ Fields \subseteq DOMAIN Page!Client'
      /\ Page!Client'.channel = c.channel /\ Page!Client'.fetch = c.fetch
      /\ Page!Client'.tracked = c.tracked /\ Page!Client'.chosen = c.chosen
      /\ Page!Client'.selects = c.selects /\ Page!Client'.again = c.again
      /\ Page!Client'.unasked = c.unasked
  BY DEF Page!Client, Page!Handles, Page!Becomes, Fields
<1> DEFINE d == Page!Client'
<1>3. Kept(d)
  <2> HIDE DEF d
  <2> QED
    BY <1>2, KeptAside DEF d, Kept, ClientTyped
<1> QED
  BY <1>1, <1>3 DEF PageInv, Kept, ClientTyped, ChannelsOf, AskedAgain

(* A step that leaves the client's Runs alone.                              *)
LEMMA PageAside ==
    ASSUME PageInv, version' \in [Runs -> Nat],
           UNCHANGED <<channel, fetch, tracked, chosen, selects, again, unasked>>
    PROVE  PageInv'
<1> DEFINE c == Page!Client
           d == Page!Client'
<1>1. /\ Fields \subseteq DOMAIN d /\ d.channel = c.channel /\ d.fetch = c.fetch
      /\ d.tracked = c.tracked /\ d.chosen = c.chosen /\ d.selects = c.selects
      /\ d.again = c.again /\ d.unasked = c.unasked
  BY DEF Page!Client, Fields
<1>2. Kept(c) /\ c.selects \subseteq Selecting
  BY DEF PageInv, Kept, ClientTyped
<1>3. Kept(d)
  <2> HIDE DEF c, d
  <2> QED
    BY <1>1, <1>2, KeptAside
<1> QED
  BY <1>3 DEF PageInv, Kept, ClientTyped, ChannelsOf, AskedAgain
(* The page opens with nothing tracked and nothing selected.                 *)
LEMMA PageInit == ASSUME Page!PageAssumption, Page!Init PROVE PageInv
<1> DEFINE c == Page!Client
<1>1. version \in [Runs -> Nat]
  BY DEF Page!Init
<1>2. /\ Fields \subseteq DOMAIN c /\ c.channel = [r \in Runs |-> "none"]
      /\ c.fetch = [r \in Runs |-> None] /\ c.tracked = {} /\ c.chosen = None
      /\ c.selects = {} /\ c.again = {} /\ c.unasked = {}
  BY DEF Page!Client, Page!Init, Fields
<1> HIDE DEF c
<1>3. Kept(c)
  BY <1>2 DEF Kept, ClientTyped, ChannelsOf, AskedAgain, ChannelState, Page!PageAssumption
<1> QED
  BY <1>1, <1>3 DEF PageInv, c

(* The socket: it opens, drops, joins and delivers.                          *)
LEMMA SocketStep ==
    ASSUME Page!PageAssumption, PageInv,
           \/ Page!Open \/ Page!Drop
           \/ \E r \in Runs : Page!JoinRun(r) \/ Page!Joined(r) \/ Page!RunChanged(r)
    PROVE  PageInv'
<1> DEFINE c == Page!Client
<1>1. /\ version \in [Runs -> Nat] /\ Kept(c) /\ None \notin Runs
  BY DEF PageInv, Page!PageAssumption
<1>2. /\ Fields \subseteq DOMAIN c /\ c.channel = channel /\ c.fetch = fetch
      /\ c.tracked = tracked /\ c.chosen = chosen /\ c.selects = selects
      /\ c.again = again /\ c.unasked = unasked /\ c.held = held /\ c.reply = reply
  BY DEF Page!Client, Fields
<1> HIDE DEF c
<1>3. channel \in [Runs -> ChannelState]
  BY <1>1, <1>2 DEF Kept, ClientTyped
<1>4. CASE Page!Open
  <2> DEFINE d == Page!Invalidate(c, tracked)
             e == Page!Invalidated(d, Page!Interested)
  <2>1. Page!Handles(e)
    BY <1>4 DEF Page!Open, c
  <2>2. Kept(d)
    BY <1>1, <1>2, InvalidateKeeps
  <2> HIDE DEF d
  <2>3. Kept(e)
    BY <1>1, <2>2, InvalidatedKeeps
  <2> HIDE DEF e
  <2> QED
    BY <2>1, <2>3, HandlesKeeps
<1>5. CASE Page!Drop
  <2> DEFINE lost == [r \in Runs |-> IF channel[r] = "none" THEN "none" ELSE "joining"]
             d == [c EXCEPT !.held = [r \in Runs |-> 0], !.reply = [r \in Runs |-> 0],
                            !.channel = lost]
  <2>1. Page!Handles(d)
    BY <1>5 DEF Page!Drop, c
  <2>2. /\ Fields \subseteq DOMAIN d /\ d.channel = lost /\ d.fetch = c.fetch
        /\ d.tracked = c.tracked /\ d.chosen = c.chosen /\ d.selects = c.selects
        /\ d.again = c.again /\ d.unasked = c.unasked
    BY <1>2 DEF Fields
  <2> HIDE DEF d
  <2>3. ClientTyped(d)
    <3>1. lost \in [Runs -> ChannelState]
      BY DEF ChannelState
    <3> QED
      BY <1>1, <2>2, <3>1 DEF Kept, ClientTyped
  <2>4. ChannelsOf(d) /\ AskedAgain(d)
    BY <1>1, <1>2, <2>2 DEF Kept, ChannelsOf, AskedAgain
  <2> QED
    BY <2>1, <2>3, <2>4, HandlesKeeps DEF Kept
<1>6. ASSUME NEW r \in Runs, Page!JoinRun(r) PROVE PageInv'
  <2>1. channel[r] = "joining" /\ channel' = [channel EXCEPT ![r] = "replied"]
    BY <1>6 DEF Page!JoinRun
  <2> DEFINE d == Page!Client'
  <2>2. /\ Fields \subseteq DOMAIN d /\ d.channel = channel' /\ d.fetch = fetch
        /\ d.tracked = tracked /\ d.chosen = chosen /\ d.selects = selects
        /\ d.again = again /\ d.unasked = unasked /\ version' = version
    BY <1>6 DEF Page!JoinRun, Page!Client, Fields, Page!server, Page!tracker, Page!selection
  <2> HIDE DEF d
  <2>3. ClientTyped(d)
    <3>1. channel' \in [Runs -> ChannelState]
      BY <1>3, <2>1 DEF ChannelState
    <3> QED
      BY <1>1, <1>2, <2>2, <3>1 DEF Kept, ClientTyped
  <2>4. ChannelsOf(d)
    BY <1>1, <1>2, <1>3, <2>1, <2>2 DEF Kept, ChannelsOf
  <2>5. AskedAgain(d)
    BY <1>1, <1>2, <2>2 DEF Kept, AskedAgain
  <2>6. Kept(d) /\ version' \in [Runs -> Nat]
    BY <1>1, <2>2, <2>3, <2>4, <2>5 DEF Kept
  <2> QED
    BY <2>6 DEF PageInv, Kept, ClientTyped, ChannelsOf, AskedAgain, d
<1>7. ASSUME NEW r \in Runs, Page!Joined(r) PROVE PageInv'
  <2> DEFINE joined == [c EXCEPT !.channel[r] = "joined", !.reply[r] = 0]
             shownNow == Page!Show(joined, r, reply[r])
             d == IF chosen = r THEN Page!Seed(shownNow, r, reply[r]) ELSE joined
  <2>1. Page!Handles(d) /\ channel[r] = "replied"
    BY <1>7 DEF Page!Joined, c
  <2>2. /\ Fields \subseteq DOMAIN joined /\ joined.channel = [channel EXCEPT ![r] = "joined"]
        /\ joined.fetch = c.fetch /\ joined.tracked = c.tracked /\ joined.chosen = c.chosen
        /\ joined.selects = c.selects /\ joined.again = c.again
        /\ joined.unasked = c.unasked
    BY <1>2 DEF Fields
  <2> HIDE DEF joined
  <2>3. ClientTyped(joined)
    <3>1. joined.channel \in [Runs -> ChannelState]
      BY <1>3, <2>2 DEF ChannelState
    <3> QED
      BY <1>1, <2>2, <3>1 DEF Kept, ClientTyped
  <2>4. ChannelsOf(joined)
    BY <1>1, <1>2, <1>3, <2>1, <2>2 DEF Kept, ChannelsOf
  <2>5. AskedAgain(joined)
    BY <1>1, <2>2 DEF Kept, AskedAgain
  <2>6. Kept(joined)
    BY <2>3, <2>4, <2>5 DEF Kept
  <2>7. Kept(shownNow)
    BY <2>6, ShowKeeps
  <2> HIDE DEF shownNow
  <2>8. Kept(d)
    BY <1>1, <2>6, <2>7, SeedKeeps
  <2> HIDE DEF d
  <2> QED
    BY <2>1, <2>8, HandlesKeeps
<1>8. ASSUME NEW r \in Runs, Page!RunChanged(r) PROVE PageInv'
  <2> DEFINE d == IF channel[r] = "joined" THEN Page!Invalidated(c, {r}) ELSE c
  <2>1. Page!Handles(d)
    BY <1>8 DEF Page!RunChanged, c
  <2>2. Kept(d)
    BY <1>1, InvalidatedKeeps
  <2> HIDE DEF d
  <2> QED
    BY <2>1, <2>2, HandlesKeeps
<1> QED
  BY <1>4, <1>5, <1>6, <1>7, <1>8

(* A request of the tracker is answered or fails.                           *)
LEMMA FetchStep ==
    ASSUME Page!PageAssumption, PageInv, NEW r \in Runs, Page!Fetched(r) \/ Page!FetchFails(r)
    PROVE  PageInv'
<1> DEFINE c == Page!Client
<1>1. /\ version \in [Runs -> Nat] /\ Kept(c) /\ None \notin Runs
  BY DEF PageInv, Page!PageAssumption
<1> HIDE DEF c
<1>2. ASSUME NEW v, Page!Handles(Page!FetchEnds(IF r \in tracked THEN Page!Accept(c, r, v)
                                                ELSE c, r))
      PROVE  PageInv'
  <2> DEFINE d == IF r \in tracked THEN Page!Accept(c, r, v) ELSE c
             e == Page!FetchEnds(d, r)
  <2>1. Kept(d)
    BY <1>1, AcceptKeeps
  <2> HIDE DEF d
  <2>2. Kept(e)
    BY <1>1, <2>1, FetchEndsKeeps
  <2> QED
    BY <1>2, <2>2, HandlesKeeps DEF d
<1>3. CASE Page!Fetched(r)
  BY <1>2, <1>3 DEF Page!Fetched, c
<1>4. CASE Page!FetchFails(r)
  <2> DEFINE b == [c EXCEPT !.held[r] = 0]
             d == IF r \in tracked THEN b ELSE c
             e == Page!FetchEnds(d, r)
  <2>1. /\ Fields \subseteq DOMAIN b /\ b.channel = c.channel /\ b.fetch = c.fetch
        /\ b.tracked = c.tracked /\ b.chosen = c.chosen /\ b.selects = c.selects
        /\ b.again = c.again /\ b.unasked = c.unasked
    BY <1>1 DEF Kept, ClientTyped, Fields
  <2>2. Page!Handles(e)
    BY <1>4 DEF Page!FetchFails, c
  <2> HIDE DEF b
  <2>3. Kept(b)
    BY <1>1, <2>1, KeptAside DEF Kept, ClientTyped
  <2>4. Kept(d)
    BY <1>1, <2>3
  <2> HIDE DEF d
  <2>5. Kept(e)
    BY <1>1, <2>4, FetchEndsKeeps
  <2> HIDE DEF e
  <2> QED
    BY <2>2, <2>5, HandlesKeeps
<1> QED
  BY <1>3, <1>4

(* The user selects a Run, and the answer to it.                            *)
LEMMA SelectStep ==
    ASSUME Page!PageAssumption, PageInv,
           \/ \E r \in Runs : Page!SelectRun(r)
           \/ \E s \in selects : Page!SelectAnswered(s)
    PROVE  PageInv'
<1> DEFINE c == Page!Client
<1>1. /\ version \in [Runs -> Nat] /\ Kept(c) /\ None \notin Runs /\ c.selects = selects
  BY DEF PageInv, Page!PageAssumption, Page!Client
<1> HIDE DEF c
<1>2. ASSUME NEW r \in Runs, Page!SelectRun(r) PROVE PageInv'
  <2> DEFINE n == Page!NewRequest(c)
  <2>1. Kept(n)
    BY <1>1, NewRequestKeeps
  <2>2. CASE held[r] > 0
    <3>1. \/ Page!Handles(Page!Choose(n, r))
          \/ Page!Handles(Page!Choose(Page!Show(n, r, held[r]), r))
      BY <1>2, <2>2 DEF Page!SelectRun, c
    <3> HIDE DEF n
    <3>2. Kept(Page!Show(n, r, held[r]))
      BY <2>1, ShowKeeps
    <3>3. Kept(Page!Choose(n, r)) /\ Kept(Page!Choose(Page!Show(n, r, held[r]), r))
      BY <1>1, <2>1, <3>2, ChooseKeeps
    <3> QED
      BY <3>1, <3>3, HandlesKeeps
  <2>3. CASE ~(held[r] > 0)
    <3> DEFINE s == [run |-> r, from |-> version[r], latest |-> TRUE]
               d == [n EXCEPT !.selects = @ \cup {s}]
    <3>1. Page!Handles(d)
      BY <1>2, <2>3 DEF Page!SelectRun, c
    <3> HIDE DEF n
    <3>2. s \in Selecting
      BY <1>1 DEF Selecting
    <3>3. /\ Fields \subseteq DOMAIN d /\ d.channel = n.channel /\ d.fetch = n.fetch
          /\ d.tracked = n.tracked /\ d.chosen = n.chosen /\ d.again = n.again
          /\ d.unasked = n.unasked /\ d.selects = n.selects \cup {s}
      BY <2>1 DEF Kept, ClientTyped, Fields
    <3> HIDE DEF d, s
    <3>4. Kept(d)
      BY <2>1, <3>2, <3>3, KeptAside DEF Kept, ClientTyped
    <3> QED
      BY <3>1, <3>4, HandlesKeeps
  <2> QED
    BY <2>2, <2>3
<1>3. ASSUME NEW s \in selects, Page!SelectAnswered(s) PROVE PageInv'
  <2> DEFINE d == [c EXCEPT !.selects = @ \ {s}]
  <2>1. PICK v : Page!Handles(IF s.latest THEN Page!Selected(d, s.run, v) ELSE d)
    BY <1>3 DEF Page!SelectAnswered, c
  <2>2. /\ Fields \subseteq DOMAIN d /\ d.channel = c.channel /\ d.fetch = c.fetch
        /\ d.tracked = c.tracked /\ d.chosen = c.chosen /\ d.again = c.again
        /\ d.unasked = c.unasked /\ d.selects = c.selects \ {s}
    BY <1>1 DEF Kept, ClientTyped, Fields
  <2> HIDE DEF d
  <2>3. Kept(d)
    BY <1>1, <2>2, KeptAside DEF Kept, ClientTyped
  <2>4. s.run \in Runs
    BY <1>1 DEF Kept, ClientTyped, Selecting
  <2>5. Kept(Page!Seed(Page!Show(d, s.run, v), s.run, v))
    BY <1>1, <2>3, ShowKeeps, SeedKeeps
  <2>6. Kept(Page!Selected(d, s.run, v))
    BY <1>1, <2>4, <2>5, ChooseKeeps DEF Page!Selected
  <2> QED
    BY <2>1, <2>3, <2>6, HandlesKeeps
<1> QED
  BY <1>2, <1>3

(* The page refetches its Run, commands it and reads it again after that.    *)
LEMMA CommandStep ==
    ASSUME Page!PageAssumption, PageInv,
           \/ Page!RefetchAnswered \/ Page!RefetchFails
           \/ \E k \in commands :
                 Page!CommandAnswered(k) \/ Page!Reconciled(k) \/ Page!CommandFails(k)
    PROVE  PageInv'
<1> DEFINE c == Page!Client
           Reread(d, r, v) == Page!Seed(Page!Show(d, r, v), r, v)
<1>1. /\ version \in [Runs -> Nat] /\ Kept(c) /\ None \notin Runs
  BY DEF PageInv, Page!PageAssumption
<1> HIDE DEF c
<1>2. ASSUME NEW d, NEW r, NEW v, Kept(d) PROVE Kept(Reread(d, r, v))
  BY <1>1, <1>2, ShowKeeps, SeedKeeps
<1>3. ASSUME NEW d, Kept(d), NEW x PROVE Kept([d EXCEPT !.refetch = x])
  <2> DEFINE e == [d EXCEPT !.refetch = x]
  <2>1. /\ Fields \subseteq DOMAIN e /\ e.channel = d.channel /\ e.fetch = d.fetch
        /\ e.tracked = d.tracked /\ e.chosen = d.chosen /\ e.selects = d.selects
        /\ e.again = d.again /\ e.unasked = d.unasked
    BY <1>3 DEF Kept, ClientTyped, Fields
  <2> HIDE DEF e
  <2>2. Kept(e)
    BY <1>3, <2>1, KeptAside DEF Kept, ClientTyped
  <2> QED
    BY <2>2 DEF e
<1>4. ASSUME NEW d, Kept(d), NEW K PROVE Kept([d EXCEPT !.commands = K])
  <2> DEFINE e == [d EXCEPT !.commands = K]
  <2>1. /\ Fields \subseteq DOMAIN e /\ e.channel = d.channel /\ e.fetch = d.fetch
        /\ e.tracked = d.tracked /\ e.chosen = d.chosen /\ e.selects = d.selects
        /\ e.again = d.again /\ e.unasked = d.unasked
    BY <1>4 DEF Kept, ClientTyped, Fields
  <2> HIDE DEF e
  <2>2. Kept(e)
    BY <1>4, <2>1, KeptAside DEF Kept, ClientTyped
  <2> QED
    BY <2>2 DEF e
<1>5. CASE Page!RefetchAnswered
  <2> DEFINE r == refetch.run
             Answer(v) == IF refetch.latest /\ projection # None /\ projection.run = r
                          THEN Reread(c, r, v) ELSE c
  <2>1. PICK v : Page!Handles(IF refetchNeeded THEN Page!Refetch(Answer(v), r)
                              ELSE [Answer(v) EXCEPT !.refetch = None])
    BY <1>5 DEF Page!RefetchAnswered, c
  <2> DEFINE d == Answer(v)
  <2>2. Kept(d)
    BY <1>1, <1>2
  <2> HIDE DEF d
  <2>3. Kept(Page!Refetch(d, r)) /\ Kept([d EXCEPT !.refetch = None])
    BY <1>3, <2>2, RefetchKeeps
  <2> QED
    BY <2>1, <2>3, HandlesKeeps DEF d
<1>6. CASE Page!RefetchFails
  <2>1. Page!Handles([c EXCEPT !.refetch = None])
    BY <1>6 DEF Page!RefetchFails, c
  <2> QED
    BY <1>1, <1>3, <2>1, HandlesKeeps
<1>7. ASSUME NEW k \in commands,
             Page!CommandAnswered(k) \/ Page!Reconciled(k) \/ Page!CommandFails(k)
      PROVE  PageInv'
  <2> DEFINE d == [c EXCEPT !.commands = @ \ {k}]
  <2>1. \/ Page!Handles(d)
        \/ Page!Handles(Page!InvalidateRun(d, k.run))
        \/ Page!Handles(Page!Reconcile(d, k))
        \/ \E v : Page!Handles(Reread(d, k.run, v))
    BY <1>7 DEF Page!CommandAnswered, Page!Reconciled, Page!CommandFails, c
  <2>2. Kept(d)
    BY <1>1, <1>4
  <2> HIDE DEF d
  <2>3. Kept(Page!InvalidateRun(d, k.run))
    BY <2>2, RefetchKeeps
  <2>4. Kept(Page!Reconcile(d, k))
    BY <1>4, <2>2 DEF Page!Reconcile
  <2>5. ASSUME NEW v PROVE Kept(Reread(d, k.run, v))
    BY <1>2, <2>2
  <2> HIDE DEF Reread
  <2> QED
    BY <2>1, <2>2, <2>3, <2>4, <2>5, HandlesKeeps
<1> QED
  BY <1>5, <1>6, <1>7

(* A list of Runs arrives.                                                   *)
LEMMA ListStep ==
    ASSUME Page!PageAssumption, PageInv, Page!Listed \/ Page!Loaded
    PROVE  PageInv'
<1> DEFINE c == Page!Client
<1>1. /\ version \in [Runs -> Nat] /\ Kept(c) /\ None \notin Runs
  BY DEF PageInv, Page!PageAssumption
<1>2. PICK s : Page!Handles(Page!UpdateSummaries(c, s))
  BY DEF Page!Listed, Page!Loaded
<1> HIDE DEF c
<1>3. Kept(Page!UpdateSummaries(c, s))
  BY <1>1, SummariesKeep
<1> QED
  BY <1>2, <1>3, HandlesKeeps

(* Every step of a page keeps its channels and its announcements.            *)
LEMMA PageStep ==
    ASSUME Page!PageAssumption, PageInv, [Page!Next]_Page!vars
    PROVE  PageInv'
<1>1. ASSUME NEW r \in Runs, Page!Change(r) PROVE PageInv'
  <2>1. version' \in [Runs -> Nat]
    BY <1>1 DEF Page!Change, PageInv
  <2> QED
    BY <1>1, <2>1, PageAside DEF Page!Change, Page!tracker, Page!selection
<1>2. ASSUME \/ Page!JoinProduct \/ Page!ProductChanged \/ \E kind : Page!Command(kind)
             \/ UNCHANGED Page!vars
      PROVE  PageInv'
  <2>1. /\ UNCHANGED <<channel, fetch, tracked, chosen, selects, again, unasked>>
        /\ version' = version
    BY <1>2 DEF Page!JoinProduct, Page!ProductChanged, Page!Command, Page!vars, Page!server,
       Page!socket, Page!tracker, Page!selection
  <2> QED
    BY <2>1, PageAside DEF PageInv
<1> QED
  BY <1>1, <1>2, SocketStep, FetchStep, SelectStep, CommandStep, ListStep
  DEF Page!Next, Page!Deliveries, Page!Answers

(* A Run of interest has its channel and no other Run has one, however       *)
(* tracking, selection, answers and reconnections interleave (watchRun,      *)
(* RealtimeClient.selectRun).                                               *)
THEOREM InterestAlwaysHasItsChannel ==
    ASSUME Page!PageAssumption
    PROVE  Page!Spec => []InterestHasItsChannel
<1>1. Page!Init => PageInv
  BY PageInit
<1>2. PageInv /\ [Page!Next]_Page!vars => PageInv'
  BY PageStep
<1>3. PageInv => InterestHasItsChannel
  <2> SUFFICES ASSUME PageInv PROVE InterestHasItsChannel
    OBVIOUS
  <2>1. /\ channel \in [Runs -> ChannelState] /\ tracked \subseteq Runs
        /\ chosen \in Runs \cup {None}
        /\ \A r \in Runs : channel[r] # "none" <=> (r \in tracked \/ r = chosen)
    BY DEF PageInv, Kept, ClientTyped, ChannelsOf, Page!Client
  <2> QED
    BY <2>1 DEF InterestHasItsChannel, Page!InterestHasItsChannel, Page!Interested,
       Page!PageAssumption
<1> QED
  BY <1>1, <1>2, <1>3, PTL DEF Page!Spec

(* No change announced during a request of the tracker is lost: another      *)
(* request is due when that one ends (ActiveRunTracker.invalidate, refresh).  *)
THEOREM AnnouncedChangesAlwaysFetched ==
    ASSUME Page!PageAssumption
    PROVE  Page!Spec => []AnnouncedChangesAreFetched
<1>1. Page!Init => PageInv
  BY PageInit
<1>2. PageInv /\ [Page!Next]_Page!vars => PageInv'
  BY PageStep
<1>3. PageInv => AnnouncedChangesAreFetched
  BY DEF PageInv, Kept, AskedAgain, Page!Client, AnnouncedChangesAreFetched,
     Page!AnnouncedChangesAreFetched
<1> QED
  BY <1>1, <1>2, <1>3, PTL DEF Page!Spec

-----------------------------------------------------------------------------
(* The terminal attached to an execution session (LocalObservation).        *)

Close == [o : Observation!Openings, by : {"user", "opening"}, state : Observation!Over \cup {None},
          phase : {"called", "waiting", "replied"}]

ObservationType ==
    /\ launcher \in [Observation!Openings ->
                     [phase : {"none", "monitoring", "done"}, deadline : BOOLEAN,
                      reason : {"exited", "explicit_close", "terminal_closed"}]]
    /\ queue \in [Observation!Openings -> Seq({"detach", "terminal", "exit_0", "exit_1"})]
    /\ closed \in [Observation!Openings -> Observation!Over \cup {None}]
    /\ native \in [Observation!Openings -> Observation!Over \cup {"none", "attached", "detaching"}]
    /\ events \in Seq([o : Observation!Openings, state : Observation!Over])
    /\ closing \subseteq Close
    /\ opening \in Observation!Opening \cup {None}
    /\ shown \in [o : Observation!Openings,
                  state : Observation!Over \cup {"attached", "detaching"}] \cup {None}
    /\ pending \in [Observation!Openings -> Observation!Over \cup {None}]

(* Nothing is known of a local session that the native side has not opened. *)
UnopenedIsUnknown ==
    \A o \in Observation!Openings : native[o] = "none" =>
        /\ launcher[o].phase = "none" /\ closed[o] = None
        /\ \A k \in closing : k.o # o
        /\ shown # None => shown.o # o

(* The session being opened is not the one shown, and nobody closes it before *)
(* its record fails.                                                         *)
OpeningIsApart ==
    opening # None =>
        /\ opening.phase = "asked" <=> native[opening.o] = "none"
        /\ shown # None => shown.o # opening.o
        /\ opening.phase # "undoing" => \A k \in closing : k.o # opening.o

(* A close waits for a session on its way out, and answers with an outcome; *)
(* that of an opening is the only one and belongs to it.                    *)
ClosesAreKnown ==
    /\ \A k \in closing :
         /\ k.phase = "waiting" => native[k.o] \in Observation!Over \cup {"detaching"}
         /\ k.phase = "replied" => k.state \in Observation!Over
         /\ k.by = "opening" => opening # None /\ opening.phase = "undoing" /\ opening.o = k.o
    /\ \A k, l \in closing : k.by = "opening" /\ l.by = "opening" => k = l

(* Over before its opening was recorded: the event is on its way or kept.   *)
EarlyEventIsKept ==
    opening # None /\ opening.phase = "recording" /\ native[opening.o] \in Observation!Over =>
        \/ \E i \in DOMAIN events : events[i].o = opening.o
        \/ pending[opening.o] \in Observation!Over

ObservationInv ==
    /\ ObservationType /\ UnopenedIsUnknown /\ OpeningIsApart /\ ClosesAreKnown
    /\ EarlyEventIsKept /\ Observation!OverIsShown

(* No local session was opened.                                              *)
LEMMA ObservationInit ==
    ASSUME Observation!OpeningsAssumption, Observation!Init
    PROVE  ObservationInv
  BY DEF Observation!Init, ObservationInv, ObservationType, UnopenedIsUnknown, OpeningIsApart,
         ClosesAreKnown, EarlyEventIsKept, Observation!OverIsShown, Observation!NoLauncher,
         Observation!Over

(* The least session number not used.                                       *)
LEMMA NextOpening ==
    ASSUME Observation!OpeningsAssumption, NEW S \in SUBSET Observation!Openings, S # {}
    PROVE  (CHOOSE o \in S : \A x \in S : o <= x) \in S
<1> DEFINE R == OpToRel(<, Nat)
<1>1. \A x \in S : x \in Nat
  BY DEF Observation!OpeningsAssumption, Observation!Openings
<1>2. IsWellFoundedOn(R, Nat)
  BY NatLessThanWellFounded
<1>3. \A x, y \in Nat : <<y, x>> \in R <=> y < x
  BY DEF OpToRel
<1> HIDE DEF R
<1>4. PICK o \in S : \A x \in S : ~ (<<x, o>> \in R)
  BY <1>1, <1>2, WFMin
<1>5. ASSUME NEW x \in S PROVE o <= x
  <2>1. x \in Nat /\ o \in Nat /\ ~ (x < o)
    BY <1>1, <1>3, <1>4
  <2> QED
    BY <2>1
<1> QED
  BY <1>5

(* close_local_observation answers, or waits: its record in closing moves on. *)
LEMMA CloseMoves ==
    ASSUME ObservationInv, None \notin Observation!Over,
           NEW k \in closing, NEW l \in Close, l.o = k.o, l.by = k.by,
           closing' = (closing \ {k}) \cup {l},
           native' \in [Observation!Openings
                          -> Observation!Over \cup {"none", "attached", "detaching"}],
           \A o \in Observation!Openings : o # k.o => native'[o] = native[o],
           native'[k.o] \in Observation!Over \cup {"detaching"},
           l.phase = "replied" => l.state \in Observation!Over,
           queue' \in [Observation!Openings -> Seq({"detach", "terminal", "exit_0", "exit_1"})],
           UNCHANGED <<launcher, closed, events, opening, shown, pending>>
    PROVE  ObservationInv'
<1> USE DEF ObservationInv
<1>0. k \in Close /\ k.o \in Observation!Openings /\ l.o \in Observation!Openings
  BY DEF ObservationType, Close, Observation!Opening
<1>1. ObservationType'
  BY <1>0 DEF ObservationType
<1>2. native[k.o] # "none"
  BY <1>0 DEF UnopenedIsUnknown
<1>3. native'[k.o] # "none"
  BY DEF Observation!Over
<1>4. \A o \in Observation!Openings : native'[o] = "none" <=> native[o] = "none"
  BY <1>2, <1>3
<1>5. UnopenedIsUnknown'
  BY <1>0, <1>2, <1>4 DEF UnopenedIsUnknown
<1>6. opening # None => opening.o \in Observation!Openings
  BY DEF ObservationType, Observation!Opening
<1>7. OpeningIsApart'
  BY <1>0, <1>4, <1>6 DEF OpeningIsApart
<1>8. ClosesAreKnown'
  <2>1. ASSUME NEW m \in closing'
        PROVE  /\ m.phase = "waiting" => native'[m.o] \in Observation!Over \cup {"detaching"}
               /\ m.phase = "replied" => m.state \in Observation!Over
               /\ m.by = "opening" =>
                    opening # None /\ opening.phase = "undoing" /\ opening.o = m.o
    <3>1. CASE m = l
      BY <3>1 DEF ClosesAreKnown
    <3>2. CASE m \in closing
      <4>1. m.o \in Observation!Openings
        BY <3>2 DEF ObservationType, Close, Observation!Opening
      <4> QED
        BY <3>2, <4>1 DEF ClosesAreKnown
    <3> QED
      BY <3>1, <3>2
  <2>2. \A m, n \in closing' : m.by = "opening" /\ n.by = "opening" => m = n
    BY DEF ClosesAreKnown
  <2> QED
    BY <2>1, <2>2 DEF ClosesAreKnown
<1>9. EarlyEventIsKept'
  BY <1>6 DEF EarlyEventIsKept, OpeningIsApart
<1>10. Observation!OverIsShown'
  <2>1. shown # None => shown.o \in Observation!Openings
    BY DEF ObservationType
  <2>2. CASE shown # None /\ shown.o = k.o
    BY <2>2 DEF Observation!OverIsShown, Observation!News
  <2>3. CASE shown # None /\ shown.o # k.o
    BY <2>1, <2>3 DEF Observation!OverIsShown, Observation!News
  <2> QED
    BY <2>2, <2>3 DEF Observation!OverIsShown
<1> QED
  BY <1>1, <1>5, <1>7, <1>8, <1>9, <1>10

(* The launcher of an opened session works by itself.                       *)
LEMMA LauncherMoves ==
    ASSUME ObservationInv, NEW o \in Observation!Openings,
           native[o] # "none" \/ UNCHANGED <<launcher, closed>>,
           launcher' \in [Observation!Openings ->
                [phase : {"none", "monitoring", "done"}, deadline : BOOLEAN,
                 reason : {"exited", "explicit_close", "terminal_closed"}]],
           queue' \in [Observation!Openings -> Seq({"detach", "terminal", "exit_0", "exit_1"})],
           closed' \in [Observation!Openings -> Observation!Over \cup {None}],
           \A x \in Observation!Openings :
                x # o => launcher'[x] = launcher[x] /\ closed'[x] = closed[x],
           UNCHANGED <<native, events, closing, opening, shown, pending>>
    PROVE  ObservationInv'
<1> USE DEF ObservationInv
<1>1. ObservationType'
  BY DEF ObservationType
<1>2. UnopenedIsUnknown'
  BY DEF UnopenedIsUnknown
<1>3. OpeningIsApart' /\ ClosesAreKnown'
  BY DEF OpeningIsApart, ClosesAreKnown
<1>4. EarlyEventIsKept' /\ Observation!OverIsShown'
  BY DEF EarlyEventIsKept, Observation!OverIsShown, Observation!News
<1> QED
  BY <1>1, <1>2, <1>3, <1>4

(* The launcher and its child end, are told to, or run out of time.          *)
LEMMA LauncherKeeps ==
    ASSUME ObservationInv, NEW o \in Observation!Openings,
           \/ Observation!ChildExits(o) \/ Observation!TerminalCloses(o)
           \/ Observation!LauncherStep(o) \/ Observation!LauncherTimeout(o)
    PROVE  ObservationInv'
<1>0. /\ launcher \in [Observation!Openings ->
                [phase : {"none", "monitoring", "done"}, deadline : BOOLEAN,
                 reason : {"exited", "explicit_close", "terminal_closed"}]]
      /\ queue \in [Observation!Openings -> Seq({"detach", "terminal", "exit_0", "exit_1"})]
      /\ closed \in [Observation!Openings -> Observation!Over \cup {None}]
      /\ launcher[o].phase = "monitoring" => native[o] # "none"
  BY DEF ObservationInv, ObservationType, UnopenedIsUnknown
<1>1. UNCHANGED <<native, events, closing, opening, shown, pending>>
  BY DEF Observation!ChildExits, Observation!TerminalCloses, Observation!LauncherStep,
         Observation!LauncherTimeout, Observation!store
<1>2. CASE Observation!ChildExits(o)
  <2>1. /\ queue' \in [Observation!Openings -> Seq({"detach", "terminal", "exit_0", "exit_1"})]
        /\ UNCHANGED <<launcher, closed>>
    BY <1>0, <1>2 DEF Observation!ChildExits
  <2> QED
    BY <1>0, <1>1, <2>1, LauncherMoves
<1>3. CASE Observation!TerminalCloses(o)
  <2>1. /\ queue' \in [Observation!Openings -> Seq({"detach", "terminal", "exit_0", "exit_1"})]
        /\ UNCHANGED <<launcher, closed>>
    BY <1>0, <1>3 DEF Observation!TerminalCloses
  <2> QED
    BY <1>0, <1>1, <2>1, LauncherMoves
<1>4. ASSUME NEW state \in Observation!Over, Observation!Outcome(o, state)
      PROVE  /\ launcher' \in [Observation!Openings ->
                    [phase : {"none", "monitoring", "done"}, deadline : BOOLEAN,
                     reason : {"exited", "explicit_close", "terminal_closed"}]]
             /\ closed' \in [Observation!Openings -> Observation!Over \cup {None}]
             /\ \A x \in Observation!Openings :
                    x # o => launcher'[x] = launcher[x] /\ closed'[x] = closed[x]
  BY <1>0, <1>4 DEF Observation!Outcome
<1>5. ASSUME NEW reason \in {"explicit_close", "terminal_closed"},
             Observation!RequestExit(o, reason)
      PROVE  /\ launcher' \in [Observation!Openings ->
                    [phase : {"none", "monitoring", "done"}, deadline : BOOLEAN,
                     reason : {"exited", "explicit_close", "terminal_closed"}]]
             /\ closed' \in [Observation!Openings -> Observation!Over \cup {None}]
             /\ \A x \in Observation!Openings :
                    x # o => launcher'[x] = launcher[x] /\ closed'[x] = closed[x]
  BY <1>0, <1>5 DEF Observation!RequestExit
<1>6. "unavailable" \in Observation!Over /\ "detached" \in Observation!Over
  BY DEF Observation!Over
<1>7. CASE Observation!LauncherStep(o)
  <2>1. /\ Head(queue[o]) \in {"detach", "terminal", "exit_0", "exit_1"}
        /\ queue' \in [Observation!Openings -> Seq({"detach", "terminal", "exit_0", "exit_1"})]
        /\ native[o] # "none"
    BY <1>0, <1>7 DEF Observation!LauncherStep
  <2>2. \/ \E reason \in {"explicit_close", "terminal_closed"} :
                Observation!RequestExit(o, reason)
        \/ \E state \in Observation!Over : Observation!Outcome(o, state)
    BY <1>6, <1>7, <2>1 DEF Observation!LauncherStep
  <2> QED
    BY <1>1, <1>4, <1>5, <2>1, <2>2, LauncherMoves
<1>8. CASE Observation!LauncherTimeout(o)
  BY <1>0, <1>1, <1>4, <1>6, <1>8, LauncherMoves DEF Observation!LauncherTimeout
<1> QED
  BY <1>2, <1>3, <1>7, <1>8

(* The monitor thread of an observation reports its end.                     *)
LEMMA MonitorKeeps ==
    ASSUME ObservationInv, None \notin Observation!Over,
           NEW o \in Observation!Openings, Observation!Monitor(o)
    PROVE  ObservationInv'
<1> USE DEF ObservationInv
<1> DEFINE Event == [o : Observation!Openings, state : Observation!Over]
<1>1. /\ closed[o] \in Observation!Over /\ closed' = [closed EXCEPT ![o] = None]
      /\ native' = [native EXCEPT ![o] = closed[o]]
      /\ UNCHANGED <<launcher, queue, closing, opening, shown, pending>>
  BY DEF Observation!Monitor, Observation!store, ObservationType
<1>2. PICK e \in Event : e.o = o /\ events' = Append(events, e)
  BY <1>1 DEF Observation!Monitor
<1>3. native[o] # "none" /\ closed[o] # "none"
  BY <1>1 DEF UnopenedIsUnknown, Observation!Over
<1>4. events \in Seq(Event)
  BY DEF ObservationType
<1> HIDE DEF Event
<1>5. /\ events' \in Seq(Event)
      /\ Len(events') = Len(events) + 1
      /\ \A i \in 1 .. Len(events) : events'[i] = events[i]
      /\ events'[Len(events) + 1] = e
  BY <1>2, <1>4
<1>6. \A i \in DOMAIN events : i \in DOMAIN events' /\ events'[i] = events[i]
  BY <1>4, <1>5
<1>7. \E i \in DOMAIN events' : events'[i].o = o
  BY <1>2, <1>4, <1>5
<1>8. ObservationType'
  BY <1>1, <1>5 DEF ObservationType, Event
<1>9. /\ \A x \in Observation!Openings : native'[x] = IF x = o THEN closed[o] ELSE native[x]
      /\ \A x \in Observation!Openings : native'[x] = "none" <=> native[x] = "none"
      /\ \A x \in Observation!Openings : x # o => closed'[x] = closed[x]
  BY <1>1, <1>3 DEF ObservationType
<1>10. UnopenedIsUnknown'
  BY <1>1, <1>3, <1>9 DEF UnopenedIsUnknown
<1>11. /\ opening # None => opening.o \in Observation!Openings
       /\ shown # None => shown.o \in Observation!Openings
       /\ \A k \in closing : k.o \in Observation!Openings
  BY DEF ObservationType, Close, Observation!Opening
<1>12. OpeningIsApart' /\ ClosesAreKnown'
  BY <1>1, <1>9, <1>11 DEF OpeningIsApart, ClosesAreKnown
<1>13. EarlyEventIsKept'
  BY <1>1, <1>6, <1>7, <1>9, <1>11 DEF EarlyEventIsKept
<1>14. Observation!OverIsShown'
  BY <1>1, <1>6, <1>7, <1>9, <1>11 DEF Observation!OverIsShown, Observation!News
<1> QED
  BY <1>8, <1>10, <1>12, <1>13, <1>14

(* attachLiveSession: opened natively, recorded or not.                      *)
LEMMA OpeningKeeps ==
    ASSUME ObservationInv, Observation!OpeningsAssumption,
           \/ Observation!OpenSession \/ Observation!OpenNative \/ Observation!OpenFails
           \/ Observation!Opened \/ Observation!RecordFails
    PROVE  ObservationInv'
<1> USE DEF ObservationInv
<1> USE DEF Observation!Opening
<1>0. None \notin Observation!Over /\ None \notin Observation!Opening
  BY DEF Observation!OpeningsAssumption
<1> DEFINE State == Observation!Over \cup {"none", "attached", "detaching"}
<1>1. /\ opening # None => opening \in Observation!Opening /\ opening.o \in Observation!Openings
      /\ shown # None => shown.o \in Observation!Openings
      /\ native \in [Observation!Openings -> State]
      /\ \A k \in closing : k.o \in Observation!Openings
  BY DEF ObservationType, Close, Observation!Opening
<1>2. CASE Observation!OpenSession
  <2> DEFINE S == Observation!Openings \ Observation!Used
  <2>1. /\ opening = None
        /\ opening' = [o |-> CHOOSE o \in S : \A x \in S : o <= x, phase |-> "asked"]
        /\ UNCHANGED <<launcher, queue, closed, native, events, closing, shown, pending>>
    BY <1>2 DEF Observation!OpenSession
  <2>2. S \in SUBSET Observation!Openings /\ S # {}
    BY <1>2, <2>1 DEF Observation!OpenSession, Observation!Used
  <2>3. (CHOOSE o \in S : \A x \in S : o <= x) \in S
    BY <2>2, NextOpening
  <2>4. \A o \in S : o \in Observation!Openings /\ native[o] = "none"
    BY <1>1 DEF Observation!Used
  <2> HIDE DEF S
  <2>5. PICK r \in Observation!Opening : r = opening'
    BY <2>1, <2>3, <2>4
  <2>6. r.phase = "asked" /\ r.o \in S
    BY <2>1, <2>3, <2>5
  <2>7. ObservationType' /\ UnopenedIsUnknown'
    BY <2>1, <2>5 DEF ObservationType, UnopenedIsUnknown
  <2>8. OpeningIsApart' /\ ClosesAreKnown'
    BY <2>1, <2>4, <2>5, <2>6 DEF OpeningIsApart, ClosesAreKnown, UnopenedIsUnknown
  <2>9. EarlyEventIsKept' /\ Observation!OverIsShown'
    BY <2>1, <2>5, <2>6 DEF EarlyEventIsKept, Observation!OverIsShown, Observation!News
  <2> QED
    BY <2>7, <2>8, <2>9
<1>3. CASE Observation!OpenNative
  <2>1. /\ opening \in Observation!Opening /\ opening.phase = "asked"
        /\ launcher' = [launcher EXCEPT ![opening.o].phase = "monitoring"]
        /\ native' = [native EXCEPT ![opening.o] = "attached"]
        /\ opening' = [opening EXCEPT !.phase = "recording"]
        /\ UNCHANGED <<queue, closed, events, closing, shown, pending>>
    BY <1>1, <1>3 DEF Observation!OpenNative
  <2>2. PICK r \in Observation!Opening : r = opening' /\ r.o = opening.o /\ r.phase = "recording"
    BY <2>1
  <2>3. /\ launcher' \in [Observation!Openings ->
                [phase : {"none", "monitoring", "done"}, deadline : BOOLEAN,
                 reason : {"exited", "explicit_close", "terminal_closed"}]]
        /\ \A x \in Observation!Openings : x # opening.o => launcher'[x] = launcher[x]
    <3>1. /\ opening.o \in Observation!Openings
          /\ launcher \in [Observation!Openings ->
                [phase : {"none", "monitoring", "done"}, deadline : BOOLEAN,
                 reason : {"exited", "explicit_close", "terminal_closed"}]]
      BY <2>1 DEF ObservationType
    <3> QED
      BY <2>1, <3>1
  <2>4. /\ native[opening.o] = "none" /\ native'[opening.o] = "attached"
        /\ \A x \in Observation!Openings : x # opening.o => native'[x] = native[x]
        /\ native' \in [Observation!Openings -> State]
    <3>1. opening # None
      BY <1>3 DEF Observation!OpenNative
    <3> QED
      BY <1>1, <2>1, <3>1 DEF OpeningIsApart
  <2>5. /\ opening # None /\ opening' # None
        /\ shown # None => shown.o # opening.o
        /\ \A k \in closing : k.o # opening.o
    BY <1>0, <1>1, <1>3, <2>1, <2>2, <2>4 DEF Observation!OpenNative, UnopenedIsUnknown
  <2>6. ObservationType'
    BY <2>1, <2>2, <2>3, <2>4 DEF ObservationType
  <2>7. UnopenedIsUnknown'
    BY <1>1, <2>1, <2>3, <2>4 DEF UnopenedIsUnknown
  <2>8. OpeningIsApart'
    BY <2>1, <2>2, <2>4, <2>5 DEF OpeningIsApart
  <2>9. ClosesAreKnown'
    BY <1>1, <2>1, <2>4, <2>5 DEF ClosesAreKnown
  <2>10. EarlyEventIsKept' /\ Observation!OverIsShown'
    BY <1>1, <2>1, <2>2, <2>4, <2>5
       DEF EarlyEventIsKept, Observation!OverIsShown, Observation!News, Observation!Over
  <2> QED
    BY <2>6, <2>7, <2>8, <2>9, <2>10
<1>4. CASE Observation!OpenFails
  <2>1. /\ opening # None /\ opening.phase = "asked" /\ opening' = None
        /\ UNCHANGED <<launcher, queue, closed, native, events, closing, shown, pending>>
    BY <1>4 DEF Observation!OpenFails
  <2> QED
    BY <2>1 DEF ObservationType, UnopenedIsUnknown, OpeningIsApart, ClosesAreKnown,
                EarlyEventIsKept, Observation!OverIsShown, Observation!News
<1>5. CASE Observation!Opened
  <2>1. /\ opening \in Observation!Opening /\ opening.phase = "recording" /\ opening # None
        /\ shown' = [o |-> opening.o, state |-> Observation!Reconciled(opening.o)]
        /\ pending' = [pending EXCEPT ![opening.o] = None]
        /\ opening' = None
        /\ UNCHANGED <<launcher, queue, closed, native, events, closing>>
    BY <1>1, <1>5 DEF Observation!Opened
  <2>2. /\ Observation!Reconciled(opening.o) \in Observation!Over \cup {"attached", "detaching"}
        /\ pending[opening.o] \in Observation!Over
             => Observation!Reconciled(opening.o) \in Observation!Over
    BY <1>0, <2>1 DEF Observation!Reconciled, ObservationType
  <2>3. PICK s \in [o : Observation!Openings,
                    state : Observation!Over \cup {"attached", "detaching"}] :
           /\ s = shown' /\ s.o = opening.o
           /\ s.state = Observation!Reconciled(opening.o)
    BY <2>1, <2>2
  <2>4. ObservationType'
    BY <2>1, <2>3 DEF ObservationType
  <2>5. native[opening.o] # "none"
    BY <2>1 DEF OpeningIsApart
  <2>6. UnopenedIsUnknown'
    BY <2>1, <2>3, <2>5 DEF UnopenedIsUnknown
  <2>7. OpeningIsApart' /\ ClosesAreKnown'
    BY <2>1 DEF OpeningIsApart, ClosesAreKnown
  <2>8. EarlyEventIsKept' /\ Observation!OverIsShown'
    BY <2>1, <2>2, <2>3 DEF EarlyEventIsKept, Observation!OverIsShown, Observation!News
  <2> QED
    BY <2>4, <2>6, <2>7, <2>8
<1>6. CASE Observation!RecordFails
  <2> DEFINE c == [o |-> opening.o, by |-> "opening", phase |-> "called", state |-> None]
  <2>1. /\ opening \in Observation!Opening /\ opening.phase = "recording" /\ opening # None
        /\ opening' = [opening EXCEPT !.phase = "undoing"]
        /\ closing' = closing \cup {c}
        /\ UNCHANGED <<launcher, queue, closed, native, events, shown, pending>>
    BY <1>1, <1>6 DEF Observation!RecordFails
  <2>2. PICK r \in Observation!Opening : r = opening' /\ r.o = opening.o /\ r.phase = "undoing"
    BY <2>1
  <2>3. PICK k \in Close :
          k = c /\ k.o = opening.o /\ k.by = "opening" /\ k.phase = "called"
    <3>1. opening.o \in Observation!Openings
      BY <2>1
    <3>2. c \in Close
      BY <3>1 DEF Close
    <3>3. c.o = opening.o /\ c.by = "opening" /\ c.phase = "called"
      OBVIOUS
    <3> QED
      BY <3>2, <3>3
  <2> HIDE DEF c
  <2>4. ObservationType'
    BY <2>1, <2>2, <2>3 DEF ObservationType
  <2>5. native[opening.o] # "none"
    BY <2>1 DEF OpeningIsApart
  <2>6. UnopenedIsUnknown'
    BY <2>1, <2>3, <2>5 DEF UnopenedIsUnknown
  <2>7. OpeningIsApart'
    BY <2>1, <2>2, <2>5 DEF OpeningIsApart
  <2>8. opening' # None /\ \A l \in closing : l.by # "opening"
    BY <1>0, <2>1, <2>2, <1>6 DEF ClosesAreKnown
  <2>9. ClosesAreKnown'
    BY <2>1, <2>2, <2>3, <2>8 DEF ClosesAreKnown
  <2>10. EarlyEventIsKept' /\ Observation!OverIsShown'
    BY <2>1, <2>2, <2>3 DEF EarlyEventIsKept, Observation!OverIsShown, Observation!News
  <2> QED
    BY <2>4, <2>6, <2>7, <2>9, <2>10
<1> QED
  BY <1>2, <1>3, <1>4, <1>5, <1>6

(* detachSession asks, and takes the answer.                                 *)
LEMMA DetachKeeps ==
    ASSUME ObservationInv, Observation!OpeningsAssumption,
           \/ Observation!DetachSession
           \/ \E k \in closing : Observation!Detached(k) \/ Observation!Undone(k)
    PROVE  ObservationInv'
<1> USE DEF ObservationInv
<1> DEFINE Shown == [o : Observation!Openings,
                     state : Observation!Over \cup {"attached", "detaching"}]
<1>0. /\ None \notin Observation!Over
      /\ \A k \in closing : k \in Close /\ k.o \in Observation!Openings
      /\ shown # None => shown \in Shown /\ shown.o \in Observation!Openings
  BY DEF Observation!OpeningsAssumption, ObservationType, Close
<1>1. CASE Observation!DetachSession
  <2> DEFINE c == [o |-> shown.o, by |-> "user", phase |-> "called", state |-> None]
  <2>1. /\ shown # None /\ closing' = closing \cup {c}
        /\ UNCHANGED <<launcher, queue, closed, native, events, opening, shown, pending>>
    BY <1>1 DEF Observation!DetachSession
  <2>2. c \in Close /\ c.o = shown.o /\ c.by = "user" /\ c.phase = "called"
    BY <1>0, <2>1 DEF Close
  <2> HIDE DEF c
  <2>3. ObservationType'
    BY <2>1, <2>2 DEF ObservationType
  <2>4. UnopenedIsUnknown' /\ OpeningIsApart'
    BY <1>0, <2>1, <2>2 DEF UnopenedIsUnknown, OpeningIsApart
  <2>5. ClosesAreKnown'
    BY <2>1, <2>2 DEF ClosesAreKnown
  <2>6. EarlyEventIsKept' /\ Observation!OverIsShown'
    BY <2>1, <2>2 DEF EarlyEventIsKept, Observation!OverIsShown, Observation!News
  <2> QED
    BY <2>3, <2>4, <2>5, <2>6
<1>2. ASSUME NEW k \in closing, Observation!Detached(k)
      PROVE  ObservationInv'
  <2>1. /\ k.phase = "replied" /\ k.by = "user" /\ closing' = closing \ {k}
        /\ shown' = IF shown # None /\ shown.o = k.o THEN [shown EXCEPT !.state = k.state]
                     ELSE shown
        /\ UNCHANGED <<launcher, queue, closed, native, events, opening, pending>>
    BY <1>2 DEF Observation!Detached
  <2>2. k.state \in Observation!Over
    BY <2>1 DEF ClosesAreKnown
  <2>3. CASE shown # None /\ shown.o = k.o
    <3>1. PICK s \in Shown : s = shown' /\ s.o = shown.o /\ s.state \in Observation!Over
      BY <1>0, <2>1, <2>2, <2>3
    <3>2. ObservationType'
      BY <2>1, <3>1 DEF ObservationType
    <3>3. UnopenedIsUnknown' /\ OpeningIsApart' /\ ClosesAreKnown'
      BY <2>1, <2>3, <3>1 DEF UnopenedIsUnknown, OpeningIsApart, ClosesAreKnown
    <3>4. EarlyEventIsKept' /\ Observation!OverIsShown'
      BY <2>1, <3>1 DEF EarlyEventIsKept, Observation!OverIsShown
    <3> QED
      BY <3>2, <3>3, <3>4
  <2>4. CASE ~ (shown # None /\ shown.o = k.o)
    <3>1. shown' = shown
      BY <2>1, <2>4
    <3>2. ObservationType' /\ UnopenedIsUnknown'
      BY <2>1, <3>1 DEF ObservationType, UnopenedIsUnknown
    <3>3. OpeningIsApart' /\ ClosesAreKnown'
      BY <2>1, <3>1 DEF OpeningIsApart, ClosesAreKnown
    <3>4. EarlyEventIsKept' /\ Observation!OverIsShown'
      BY <2>1, <2>4, <3>1 DEF EarlyEventIsKept, Observation!OverIsShown, Observation!News
    <3> QED
      BY <3>2, <3>3, <3>4
  <2> QED
    BY <2>3, <2>4
<1>3. ASSUME NEW k \in closing, Observation!Undone(k)
      PROVE  ObservationInv'
  <2>1. /\ k.phase = "replied" /\ k.by = "opening" /\ closing' = closing \ {k}
        /\ pending' = [pending EXCEPT ![k.o] = None] /\ opening' = None
        /\ UNCHANGED <<launcher, queue, closed, native, events, shown>>
    BY <1>3 DEF Observation!Undone
  <2>2. opening # None /\ opening.o = k.o /\ (shown # None => shown.o # k.o)
    BY <2>1 DEF ClosesAreKnown, OpeningIsApart
  <2>3. \A l \in closing : l.by = "opening" => l = k
    BY <2>1 DEF ClosesAreKnown
  <2>4. ObservationType' /\ UnopenedIsUnknown'
    BY <1>0, <2>1 DEF ObservationType, UnopenedIsUnknown
  <2>5. OpeningIsApart' /\ ClosesAreKnown' /\ EarlyEventIsKept'
    BY <2>1, <2>3 DEF OpeningIsApart, ClosesAreKnown, EarlyEventIsKept
  <2>6. Observation!OverIsShown'
    BY <2>1, <2>2 DEF Observation!OverIsShown, Observation!News
  <2> QED
    BY <2>4, <2>5, <2>6
<1> QED
  BY <1>1, <1>2, <1>3

(* close_local_observation, under the status lock and after its wait.        *)
LEMMA CloseKeeps ==
    ASSUME ObservationInv, Observation!OpeningsAssumption, NEW k \in closing,
           Observation!CloseNative(k) \/ Observation!CloseEnds(k)
    PROVE  ObservationInv'
<1> USE DEF ObservationInv
<1> DEFINE Queues == [Observation!Openings -> Seq({"detach", "terminal", "exit_0", "exit_1"})]
           Natives == [Observation!Openings
                         -> Observation!Over \cup {"none", "attached", "detaching"}]
<1>0. None \notin Observation!Over
  BY DEF Observation!OpeningsAssumption
<1>1. /\ k \in Close /\ k.o \in Observation!Openings /\ queue \in Queues /\ native \in Natives
      /\ native[k.o] # "none"
  BY DEF ObservationType, Close, UnopenedIsUnknown
<1>2. ASSUME NEW state \in Observation!Over
      PROVE  \E l \in Close : /\ l = [k EXCEPT !.phase = "replied", !.state = state]
                              /\ l.o = k.o /\ l.by = k.by /\ l.phase = "replied"
                              /\ l.state = state
  <2> DEFINE l == [k EXCEPT !.phase = "replied", !.state = state]
  <2>1. /\ l \in Close /\ l.o = k.o /\ l.by = k.by
        /\ l.phase = "replied" /\ l.state = state
    BY <1>1 DEF Close
  <2> QED
    BY <2>1
<1>3. \E l \in Close : /\ l = [k EXCEPT !.phase = "waiting"]
                       /\ l.o = k.o /\ l.by = k.by /\ l.phase = "waiting"
  <2> DEFINE l == [k EXCEPT !.phase = "waiting"]
  <2>1. l \in Close /\ l.o = k.o /\ l.by = k.by /\ l.phase = "waiting"
    BY <1>1 DEF Close
  <2> QED
    BY <2>1
<1>4. UNCHANGED <<launcher, closed, events, opening, shown, pending>>
  BY DEF Observation!CloseNative, Observation!CloseEnds, Observation!store
<1>5. "unavailable" \in Observation!Over
  BY DEF Observation!Over
<1>6. ASSUME NEW state \in Observation!Over, closing' = Observation!Replied(k, state),
             native' \in Natives, queue' \in Queues,
             \A o \in Observation!Openings : o # k.o => native'[o] = native[o],
             native'[k.o] \in Observation!Over
      PROVE  ObservationInv'
  <2>1. PICK l \in Close : /\ l = [k EXCEPT !.phase = "replied", !.state = state]
                           /\ l.o = k.o /\ l.by = k.by /\ l.phase = "replied"
                           /\ l.state = state
    BY <1>2
  <2>2. closing' = (closing \ {k}) \cup {l}
    BY <1>6, <2>1 DEF Observation!Replied
  <2> QED
    BY <1>0, <1>4, <1>6, <2>1, <2>2, CloseMoves
<1>7. ASSUME closing' = (closing \ {k}) \cup {[k EXCEPT !.phase = "waiting"]},
             native' \in Natives, queue' \in Queues,
             \A o \in Observation!Openings : o # k.o => native'[o] = native[o],
             native'[k.o] \in Observation!Over \cup {"detaching"}
      PROVE  ObservationInv'
  <2>1. PICK l \in Close : /\ l = [k EXCEPT !.phase = "waiting"]
                           /\ l.o = k.o /\ l.by = k.by /\ l.phase = "waiting"
    BY <1>3
  <2>2. closing' = (closing \ {k}) \cup {l}
    BY <1>7, <2>1
  <2> QED
    BY <1>0, <1>4, <1>7, <2>1, <2>2, CloseMoves
<1>8. CASE Observation!CloseNative(k)
  <2>1. CASE /\ native[k.o] \in Observation!Over
             /\ closing' = Observation!Replied(k, native[k.o]) /\ UNCHANGED <<native, queue>>
    BY <1>1, <1>6, <2>1
  <2>2. CASE /\ native' = [native EXCEPT ![k.o] = "detaching"]
             /\ queue' = [queue EXCEPT ![k.o] = Append(@, "detach")]
             /\ closing' = (closing \ {k}) \cup {[k EXCEPT !.phase = "waiting"]}
    BY <1>1, <1>7, <2>2
  <2>3. CASE /\ native' = [native EXCEPT ![k.o] = "unavailable"]
             /\ closing' = Observation!Replied(k, "unavailable") /\ UNCHANGED queue
    BY <1>1, <1>5, <1>6, <2>3
  <2>4. CASE /\ native[k.o] = "detaching" /\ UNCHANGED <<native, queue>>
             /\ closing' = (closing \ {k}) \cup {[k EXCEPT !.phase = "waiting"]}
    BY <1>1, <1>7, <2>4
  <2> QED
    BY <1>8, <2>1, <2>2, <2>3, <2>4 DEF Observation!CloseNative
<1>9. CASE Observation!CloseEnds(k)
  <2>1. /\ k.phase = "waiting" /\ queue' = queue
        /\ native' = IF native[k.o] = "detaching"
                      THEN [native EXCEPT ![k.o] = "unavailable"] ELSE native
        /\ closing' = Observation!Replied(k, native'[k.o])
    BY <1>9 DEF Observation!CloseEnds
  <2>2. /\ native' \in Natives /\ native'[k.o] \in Observation!Over
        /\ \A o \in Observation!Openings : o # k.o => native'[o] = native[o]
    <3>1. native[k.o] \in Observation!Over \cup {"detaching"}
      BY <2>1 DEF ClosesAreKnown
    <3> QED
      BY <1>1, <1>5, <2>1, <3>1
  <2> QED
    BY <1>1, <1>6, <2>1, <2>2
<1> QED
  BY <1>8, <1>9

(* reconcileLocalObservation: an event reaches the store.                    *)
LEMMA ObservedKeeps ==
    ASSUME ObservationInv, Observation!OpeningsAssumption, Observation!Observed
    PROVE  ObservationInv'
<1> USE DEF ObservationInv
<1> DEFINE Event == [o : Observation!Openings, state : Observation!Over]
           Shown == [o : Observation!Openings,
                     state : Observation!Over \cup {"attached", "detaching"}]
           e == Head(events)
<1>1. /\ events \in Seq(Event) /\ events # <<>>
      /\ pending \in [Observation!Openings -> Observation!Over \cup {None}]
      /\ opening # None => opening.o \in Observation!Openings
      /\ shown # None => shown \in Shown /\ shown.o \in Observation!Openings
      /\ None \notin Observation!Over
  BY DEF ObservationType, Observation!Observed, Observation!OpeningsAssumption,
         Observation!Opening
<1>2. /\ e \in Event /\ events' = Tail(events)
      /\ IF shown # None /\ shown.o = e.o
          THEN shown' = [shown EXCEPT !.state = e.state] /\ UNCHANGED pending
          ELSE pending' = [pending EXCEPT ![e.o] = e.state] /\ UNCHANGED shown
      /\ UNCHANGED <<launcher, queue, closed, native, closing, opening>>
  <2>1. e \in Event
    <3> HIDE DEF Event
    <3> QED
      BY <1>1
  <2> QED
    BY <1>1, <2>1 DEF Observation!Observed
<1>3. /\ events' \in Seq(Event)
      /\ \A i \in DOMAIN events : \/ events[i] = e
                                  \/ i - 1 \in DOMAIN events' /\ events'[i - 1] = events[i]
  <2> HIDE DEF Event
  <2>1. /\ events' \in Seq(Event) /\ Len(events') = Len(events) - 1 /\ Len(events) \in Nat
        /\ \A i \in 1 .. Len(events) - 1 : events'[i] = events[i + 1]
        /\ e = events[1]
    BY <1>1, <1>2
  <2>2. DOMAIN events = 1 .. Len(events) /\ DOMAIN events' = 1 .. Len(events')
    BY <1>1, <2>1
  <2>3. ASSUME NEW i \in DOMAIN events, events[i] # e
        PROVE  i - 1 \in DOMAIN events' /\ events'[i - 1] = events[i]
    <3>1. i \in 1 .. Len(events) /\ i # 1
      BY <2>1, <2>2, <2>3
    <3>2. i - 1 \in 1 .. Len(events) - 1 /\ (i - 1) + 1 = i
      BY <2>1, <3>1
    <3> QED
      BY <2>1, <2>2, <3>2
  <2> QED
    BY <2>1, <2>3
<1>4. \A o : (\E i \in DOMAIN events : events[i].o = o)
                => e.o = o \/ \E i \in DOMAIN events' : events'[i].o = o
  BY <1>3
<1>5. e.o \in Observation!Openings /\ e.state \in Observation!Over
  BY <1>2
<1> HIDE DEF e, Event
<1>6. CASE shown # None /\ shown.o = e.o
  <2>1. PICK s \in Shown : s = shown' /\ s.o = shown.o /\ s.state \in Observation!Over
    BY <1>1, <1>2, <1>5, <1>6
  <2>2. pending' = pending
    BY <1>2, <1>6
  <2>3. ObservationType'
    BY <1>2, <1>3, <2>1, <2>2 DEF ObservationType, Event
  <2>4. UnopenedIsUnknown' /\ OpeningIsApart' /\ ClosesAreKnown'
    BY <1>2, <1>6, <2>1 DEF UnopenedIsUnknown, OpeningIsApart, ClosesAreKnown
  <2>5. opening # None => opening.o # e.o
    BY <1>6 DEF OpeningIsApart
  <2>6. EarlyEventIsKept' /\ Observation!OverIsShown'
    BY <1>2, <1>4, <2>1, <2>2, <2>5 DEF EarlyEventIsKept, Observation!OverIsShown
  <2> QED
    BY <2>3, <2>4, <2>6
<1>7. CASE ~ (shown # None /\ shown.o = e.o)
  <2>1. shown' = shown /\ pending' = [pending EXCEPT ![e.o] = e.state]
    BY <1>2, <1>7
  <2>2. ObservationType'
    BY <1>2, <1>3, <1>5, <2>1 DEF ObservationType, Event
  <2>3. UnopenedIsUnknown' /\ OpeningIsApart' /\ ClosesAreKnown'
    BY <1>2, <2>1 DEF UnopenedIsUnknown, OpeningIsApart, ClosesAreKnown
  <2>4. EarlyEventIsKept'
    BY <1>1, <1>2, <1>4, <1>5, <2>1 DEF EarlyEventIsKept
  <2>5. Observation!OverIsShown'
    BY <1>2, <1>4, <1>7, <2>1 DEF Observation!OverIsShown, Observation!News
  <2> QED
    BY <2>2, <2>3, <2>4, <2>5
<1> QED
  BY <1>6, <1>7

(* Every step of the launcher, the native side and the store.                *)
LEMMA ObservationStep ==
    ASSUME Observation!OpeningsAssumption, ObservationInv, [Observation!Next]_Observation!vars
    PROVE  ObservationInv'
<1>0. None \notin Observation!Over
  BY DEF Observation!OpeningsAssumption
<1>1. CASE UNCHANGED Observation!vars
  BY <1>1 DEF Observation!vars, ObservationInv, ObservationType, UnopenedIsUnknown,
              OpeningIsApart, ClosesAreKnown, EarlyEventIsKept, Observation!OverIsShown,
              Observation!News
<1>2. CASE \E o \in Observation!Openings :
             \/ Observation!ChildExits(o) \/ Observation!TerminalCloses(o)
             \/ Observation!LauncherStep(o) \/ Observation!LauncherTimeout(o)
             \/ Observation!Monitor(o)
  BY <1>0, <1>2, LauncherKeeps, MonitorKeeps
<1>3. CASE \E k \in closing : \/ Observation!CloseNative(k) \/ Observation!CloseEnds(k)
                              \/ Observation!Undone(k) \/ Observation!Detached(k)
  BY <1>3, CloseKeeps, DetachKeeps
<1>4. CASE \/ Observation!OpenNative \/ Observation!OpenFails \/ Observation!OpenSession
           \/ Observation!Opened \/ Observation!RecordFails \/ Observation!DetachSession
           \/ Observation!Observed
  BY <1>4, OpeningKeeps, DetachKeeps, ObservedKeeps
<1> QED
  BY <1>1, <1>2, <1>3, <1>4 DEF Observation!Next

(* An observation that is over is not shown as attached once the store has    *)
(* all the news of it (attachLiveSessionOnce, reconcileLocalObservation).    *)
THEOREM OverAlwaysShown ==
    ASSUME Observation!OpeningsAssumption
    PROVE  Observation!Spec => []OverIsShown
<1>1. Observation!Init => ObservationInv
  BY ObservationInit
<1>2. ObservationInv /\ [Observation!Next]_Observation!vars => ObservationInv'
  BY ObservationStep
<1>3. ObservationInv => Observation!OverIsShown
  BY DEF ObservationInv
<1> QED
  BY <1>1, <1>2, <1>3, PTL DEF OverIsShown, Observation!Spec
=============================================================================
