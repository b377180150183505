----------------------------- MODULE MCChannels -----------------------------
(***************************************************************************)
(* What is held over channels, at both ends, for TLC: the connections of a  *)
(* Worker with the server, and the client.  They share no state, so a       *)
(* behaviour is one of a single component: Init chooses the connections of  *)
(* a Worker, a page with two Runs between which the user switches, one with *)
(* a Run that is commanded over a link that drops, or the terminal of a     *)
(* session.  What is not chosen keeps its initial state.                    *)
(***************************************************************************)
EXTENDS Client, Connections, FiniteSets, TLC

CONSTANT One   \* the one Run of the second page

VARIABLE case

Single == INSTANCE ClientRuns WITH
    shown <- projection,
    Runs <- One, FirstTerminal <- 3, MaxVersion <- 3, MaxVersions <- 3,
    MaxSelects <- 1, MaxCommands <- 1, MaxDrops <- 1, MaxFailures <- 1

connections == vars
page == <<version, link, channel, reply, product, signals, productSignal, tracked, ended,
          held, fetch, again, projection, chosen, selects, refetch, refetchNeeded, listing,
          listNeeded, load, commands, unasked, counts>>
observation == <<child, launcher, queue, closed, native, events, closing, opening, shown,
                 pending, detaches, astray>>
channels == <<case, connections, page, observation>>

ASSUME ClientAssumption ==
    Page!PageAssumption /\ Single!PageAssumption /\ Observation!OpeningsAssumption

Symmetry == Permutations(Runs)

ChannelsInit ==
    /\ Init /\ Observation!Init
    /\ \/ case = "two" /\ Page!Init
       \/ case \in {"connections", "single", "observation"} /\ Single!Init

ChannelsNext ==
    \/ case = "connections" /\ Next /\ UNCHANGED <<case, page, observation>>
    \/ case = "two" /\ Page!Next /\ UNCHANGED <<case, connections, observation>>
    \/ case = "single" /\ Single!Next /\ UNCHANGED <<case, connections, observation>>
    \/ case = "observation" /\ Observation!Next /\ UNCHANGED <<case, connections, page>>

ChannelsSpec == ChannelsInit /\ [][ChannelsNext]_channels
=============================================================================
