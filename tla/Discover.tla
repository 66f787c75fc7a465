------------------------------ MODULE Discover ------------------------------
(***************************************************************************)
(* discoverCoordinator of `meshctl join` (cmd/meshctl/main.go): a consumer *)
(* of the discovery (module MDNS) that browses every mesh without          *)
(* announcing itself, takes the first new peer with a pairing port, and    *)
(* gives up after discoverTimeout.                                         *)
(*                                                                         *)
(* The timeout, 5 s, is shorter than a sweep period, 30 s: there is no     *)
(* tick.  An announcement's attr is its pairing port, 0 if it has none.    *)
(***************************************************************************)
EXTENDS MDNS

VARIABLES found,  \* what discoverCoordinator returns: <<>>, or <<the event>>
          heard   \* history: the nodes that were heard advertising a pairing port,
                  \* in the order in which handleEntry first saw it; late: the
                  \* node was a peer already, without the port

discoverVars == <<vars, found, heard>>

DiscoverInit == Init /\ found = <<>> /\ heard = <<>>

IsCoordinator(ad) == ad.attr > 0

\* The loop goroutine goes on as it does under meshd.
Hear(e) ==
    /\ handleEntry(e)
    /\ heard' = IF IsCoordinator(e.ad) /\ \A i \in DOMAIN heard : heard[i].node # e.node
                THEN Append(heard, [node |-> e.node, late |-> e.node \in DOMAIN peers])
                ELSE heard
    /\ UNCHANGED found

Loop == (emit \/ loopReturn) /\ UNCHANGED <<found, heard>>

\* Mutant: any new peer will do.
PicksAnyPeer(ev) == ev.kind = "added"

\* Mutant: the event is compared with the wrong constant.
PicksExpired(ev) == ev.kind = "expired" /\ IsCoordinator(ev.ad)

\* The event that ends the search.
Picks(ev) == ev.kind = "added" /\ IsCoordinator(ev.ad)

\* An event is received: the search goes on, or returns through the deferred Stop,
\* which cancels the loop's context.
Look ==
    /\ main = "receiving" /\ events # <<>>
    /\ events' = Tail(events)
    /\ IF Picks(Head(events))
       THEN found' = <<Head(events)>> /\ main' = "stopping" /\ ctxDone' = TRUE
       ELSE UNCHANGED <<found, main, ctxDone>>
    /\ UNCHANGED <<peers, pending, tick, loop, view, dropped, heard>>

\* The timeout; the search gives up, unless the select prefers an event.
Timeout == signal /\ UNCHANGED <<found, heard>>

GiveUp == Stop /\ UNCHANGED <<found, heard>>

Finish == StopReturns /\ UNCHANGED <<found, heard>>

DiscoverNext ==
    \/ \E e \in Entries : Hear(e)
    \/ Loop \/ Look \/ Timeout \/ GiveUp \/ Finish

\* Goroutines run, time passes, and a select takes a case that stays ready.
DiscoverSpec ==
    /\ DiscoverInit /\ [][DiscoverNext]_discoverVars
    /\ WF_discoverVars(emit /\ UNCHANGED <<found, heard>>)
    /\ SF_discoverVars(loopReturn /\ UNCHANGED <<found, heard>>)
    /\ WF_discoverVars(Timeout) /\ SF_discoverVars(GiveUp) /\ WF_discoverVars(Finish)

-----------------------------------------------------------------------------
(***************************************************************************)
(* Properties.                                                             *)
(***************************************************************************)

Unread == events \o pending

\* Node n is the first in h that was new when it advertised its port.
FirstNew(h, n) ==
    \E i \in DOMAIN h : /\ h[i].node = n /\ ~h[i].late
                        /\ \A j \in DOMAIN h : j < i => h[j].late

\* However the loop and the search interleave, discoverCoordinator passes over a node
\* that advertises a pairing port in favour of a later one only if it had known the
\* node without the port, unless the channel overflowed.
OnlyLatePassedOver == (found # <<>> /\ ~dropped) => FirstNew(heard, found[1].node)

\* A search that fails has thrown away no announcement of a new coordinator: of every
\* node heard advertising a pairing port the event is still unread when the time is
\* up, or it got its port after it was known, unless the channel overflowed.
MissExplained ==
    (main # "receiving" /\ found = <<>> /\ ~dropped) =>
        \A i \in DOMAIN heard :
            \/ heard[i].late
            \/ \E k \in DOMAIN Unread :
                  Unread[k].node = heard[i].node /\ Unread[k].kind = "added"

\* discoverCoordinator returns, found or not: the loop that its Stop waits for does
\* not block on the events that nobody reads any more.
SearchEnds == <>(main = "stopped")

-----------------------------------------------------------------------------
(***************************************************************************)
(* What the repository says and the code does not keep.                    *)
(***************************************************************************)

\* "pick the first peer advertising a pair_port": the coordinator that
\* discoverCoordinator returns is the one that was heard first to advertise one,
\* unless the channel overflowed.
FoundIsFirstHeard == (found # <<>> /\ ~dropped) => found[1].node = heard[1].node
=============================================================================
