------------------------------- MODULE Client --------------------------------
(***************************************************************************)
(* The client: the page with its Runs (ClientRuns) and the local terminal   *)
(* attached to an execution session (LocalObservation), side by side with   *)
(* the variables and bounds of each. They share no state that they model.   *)
(***************************************************************************)

CONSTANTS
    None,
    \* ClientRuns
    Runs, FirstTerminal, MaxVersion, MaxVersions, MaxSelects, MaxCommands, MaxDrops,
    MaxFailures,
    \* LocalObservation
    MaxOpenings, MaxDetaches

VARIABLES
    \* ClientRuns
    version, link, channel, reply, product, signals, productSignal, tracked, ended, held,
    fetch, again, projection, chosen, selects, refetch, refetchNeeded, listing, listNeeded,
    load, commands, unasked, counts,
    \* LocalObservation
    child, launcher, queue, closed, native, events, closing, opening, shown, pending,
    detaches, astray

Page == INSTANCE ClientRuns WITH shown <- projection

Observation == INSTANCE LocalObservation

(* A Run the page is interested in has its channel, and no other             *)
(* (ClientRuns.InterestHasItsChannel).                                       *)
InterestHasItsChannel == Page!InterestHasItsChannel

(* A change announced during a request is asked for again                    *)
(* (ClientRuns.AnnouncedChangesAreFetched).                                  *)
AnnouncedChangesAreFetched == Page!AnnouncedChangesAreFetched

(* A local session that is over is shown as over                             *)
(* (LocalObservation.OverIsShown).                                           *)
OverIsShown == Observation!OverIsShown
=============================================================================
