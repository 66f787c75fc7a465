-------------------------------- MODULE MDNS --------------------------------
(***************************************************************************)
(* Peer discovery (internal/discovery/mdns.go) and the goroutine of meshd  *)
(* that consumes its events (cmd/meshd/main.go).                           *)
(*                                                                         *)
(* Three activities interleave: the loop goroutine, which applies browse   *)
(* results and sweeps silent peers; the main goroutine, which receives     *)
(* events until its context is done and then calls Stop; and the sweep     *)
(* ticker, whose one-slot channel may hold an old tick.  The unit of time  *)
(* is the ticker's period, ExpireAfter/3.                                  *)
(***************************************************************************)
EXTENDS Integers, Sequences, SequencesExt, Maps

CONSTANTS Nodes,         \* node ids that announce themselves
          Self,          \* Advertisement.NodeID
          Meshes,        \* mesh ids on the network
          OwnMesh,       \* Advertisement.MeshID, or AnyMesh
          AnyMesh,       \* the wildcard "*"
          Ads,           \* what a node may announce: [attr, addrs]
          ExpireAfter,   \* in sweep periods: 3
          EventBuffer,   \* capacity of the Events channel
          MaxTickAge     \* bound: periods the loop may leave a tick waiting

ASSUME MDNSAssumption ==
    /\ ExpireAfter \in Nat \ {0}
    /\ EventBuffer \in Nat \ {0}
    /\ MaxTickAge \in Nat
    /\ AnyMesh \notin Meshes
    /\ OwnMesh \in Meshes \cup {AnyMesh}
    /\ \A ad \in Ads : /\ ad.addrs \in Seq(Range(ad.addrs))
                        /\ IsInjective(ad.addrs) \* zeroconf repeats no address

VARIABLES peers,    \* peers[n]: the ad last heard of n, and how long ago
          events,   \* the Events channel
          pending,  \* events the loop has to emit before it selects again
          tick,     \* the ticker's channel: NoTick or the age of the tick
          loop,     \* the loop goroutine: "select" or "done"
          main,     \* the main goroutine: "receiving", "stopping", "stopped"
          ctxDone,  \* the context of Start is done
          view,     \* history: what the received events add up to, as long as
                    \* none was dropped
          dropped   \* history: an event was dropped

vars == <<peers, events, pending, tick, loop, main, ctxDone, view, dropped>>

NoTick == -1

\* An announcement as zeroconf delivers it, its TXT record parsed.  The SRV port
\* has replaced the TXT port; attr stands for ports, fingerprint and host name.
Entries == [node : Nodes, mesh : Meshes, ad : Ads]

Silences == 0 .. (ExpireAfter + MaxTickAge + 1)

Kinds == {"added", "updated", "expired"}

Event(kind, n, ad) == [kind |-> kind, node |-> n, ad |-> ad]

Events == [kind : Kinds, node : Nodes, ad : Ads]

Init ==
    /\ peers = EmptyMap
    /\ events = <<>>
    /\ pending = <<>>
    /\ tick = NoTick
    /\ loop = "select"
    /\ main = "receiving"
    /\ ctxDone = FALSE
    /\ view = EmptyMap
    /\ dropped = FALSE

-----------------------------------------------------------------------------
(***************************************************************************)
(* The loop goroutine.                                                     *)
(***************************************************************************)

\* Mutant: peerChanged compares how many addresses there are, not which.
peerChangedCounting(a, b) == a.attr # b.attr \/ Len(a.addrs) # Len(b.addrs)

\* peerChanged: the addresses are compared by number and by whether each new one
\* is among the old ones.
peerChanged(a, b) ==
    \/ a.attr # b.attr
    \/ Len(a.addrs) # Len(b.addrs)
    \/ \E i \in DOMAIN b.addrs : b.addrs[i] \notin Range(a.addrs)

\* handleEntry ignores our own announcements and those of a foreign mesh.
Heeded(e) == e.node # Self /\ (OwnMesh = AnyMesh \/ e.mesh = OwnMesh)

Selecting == loop = "select" /\ pending = <<>>

\* handleEntry up to the unlock; the event it owes is emitted afterwards.
handleEntry(e) ==
    /\ Selecting
    /\ Heeded(e)
    /\ peers' = Put(peers, e.node, [ad |-> e.ad, silent |-> 0])
    /\ pending' =
         CASE e.node \notin DOMAIN peers -> <<Event("added", e.node, e.ad)>>
           [] e.node \in DOMAIN peers /\ peerChanged(peers[e.node].ad, e.ad)
                                         -> <<Event("updated", e.node, e.ad)>>
           [] OTHER                      -> <<>>
    /\ UNCHANGED <<events, tick, loop, main, ctxDone, view, dropped>>

\* Mutant: expire is one period early.
OverdueEarly == {n \in DOMAIN peers : peers[n].silent - tick >= ExpireAfter}

\* Mutant: expire keeps the peers whose event the channel would not take.
OverdueIfRoom == {n \in DOMAIN peers : /\ peers[n].silent - tick > ExpireAfter
                                       /\ Len(events) < EventBuffer}

\* The peers that have been silent too long at the time the tick carries.
Overdue == {n \in DOMAIN peers : peers[n].silent - tick > ExpireAfter}

\* expire up to the unlock, with the time of the tick, not the current one.  The
\* events follow in the order of the map iteration, which is arbitrary.
expire ==
    /\ Selecting
    /\ tick # NoTick
    /\ tick' = NoTick
    /\ peers' = Restrict(peers, DOMAIN peers \ Overdue)
    /\ \E order \in SetToSeqs(Overdue) :
          pending' = [i \in DOMAIN order |->
                         Event("expired", order[i], peers[order[i]].ad)]
    /\ UNCHANGED <<events, loop, main, ctxDone, view, dropped>>

\* Mutant: emit waits for room in the channel.
emitWaits ==
    /\ pending # <<>>
    /\ pending' = Tail(pending)
    /\ Len(events) < EventBuffer
    /\ events' = Append(events, Head(pending))
    /\ UNCHANGED <<peers, tick, loop, main, ctxDone, view, dropped>>

\* emit never blocks: a full channel loses the event.
emit ==
    /\ pending # <<>>
    /\ pending' = Tail(pending)
    /\ \/ /\ Len(events) < EventBuffer
          /\ events' = Append(events, Head(pending))
          /\ UNCHANGED <<view, dropped>>
       \/ /\ Len(events) = EventBuffer
          /\ dropped' = TRUE
          /\ view' = EmptyMap
          /\ UNCHANGED events
    /\ UNCHANGED <<peers, tick, loop, main, ctxDone>>

\* The loop sees that its context is done, or that zeroconf closed the entries.
loopReturn ==
    /\ Selecting
    /\ ctxDone
    /\ loop' = "done"
    /\ UNCHANGED <<peers, events, pending, tick, main, ctxDone, view, dropped>>

-----------------------------------------------------------------------------
(***************************************************************************)
(* The main goroutine.                                                     *)
(***************************************************************************)

Replay(v, ev) == IF ev.kind = "expired" THEN Delete(v, ev.node)
                                        ELSE Put(v, ev.node, ev.ad)

\* main receives an event; select may prefer it to a context that is done.
receive ==
    /\ main = "receiving"
    /\ events # <<>>
    /\ events' = Tail(events)
    /\ view' = IF dropped THEN EmptyMap ELSE Replay(view, Head(events))
    /\ UNCHANGED <<peers, pending, tick, loop, main, ctxDone, dropped>>

\* A signal ends the context that main and the loop share.
signal ==
    /\ ~ctxDone
    /\ ctxDone' = TRUE
    /\ UNCHANGED <<peers, events, pending, tick, loop, main, view, dropped>>

\* main returns and the deferred Stop waits for the loop: nobody receives.
Stop ==
    /\ main = "receiving"
    /\ ctxDone
    /\ main' = "stopping"
    /\ UNCHANGED <<peers, events, pending, tick, loop, ctxDone, view, dropped>>

\* <-m.done: the wait is over and the advertisement is withdrawn.
StopReturns ==
    /\ main = "stopping"
    /\ loop = "done"
    /\ main' = "stopped"
    /\ UNCHANGED <<peers, events, pending, tick, loop, ctxDone, view, dropped>>

-----------------------------------------------------------------------------
(***************************************************************************)
(* Time.  The ticker drops a tick when the last one was not taken.         *)
(***************************************************************************)

Older(p) == [p EXCEPT !.silent =
                IF @ < ExpireAfter + MaxTickAge + 1 THEN @ + 1 ELSE @]

Period ==
    /\ loop = "select"
    /\ tick < MaxTickAge
    /\ tick' = tick + 1
    /\ peers' = [n \in DOMAIN peers |-> Older(peers[n])]
    /\ UNCHANGED <<events, pending, loop, main, ctxDone, view, dropped>>

Next ==
    \/ \E e \in Entries : handleEntry(e)
    \/ expire
    \/ emit
    \/ loopReturn
    \/ receive
    \/ signal
    \/ Stop
    \/ StopReturns
    \/ Period

\* Time passes, goroutines run, and a select that keeps finding a case ready
\* takes it some time (Go chooses among the ready cases at random).  Nothing is
\* assumed of the network, of the signal or of the consumer's reads.
Fairness ==
    /\ WF_vars(Period)
    /\ WF_vars(emit)
    /\ SF_vars(expire)
    /\ SF_vars(loopReturn)
    /\ WF_vars(Stop)
    /\ WF_vars(StopReturns)

Spec == Init /\ [][Next]_vars /\ Fairness

-----------------------------------------------------------------------------
(***************************************************************************)
(* Properties.                                                             *)
(***************************************************************************)

\* Types; the peers map never holds this node itself, and the channel never
\* holds more than EventBuffer events.
TypeOK ==
    /\ peers \in PartialFunctions(Nodes \ {Self}, [ad : Ads, silent : Silences])
    /\ events \in Seq(Events) /\ Len(events) <= EventBuffer
    /\ pending \in Seq(Events)
    /\ tick \in NoTick .. MaxTickAge
    /\ loop \in {"select", "done"}
    /\ main \in {"receiving", "stopping", "stopped"}
    /\ ctxDone \in BOOLEAN
    /\ view \in PartialFunctions(Nodes \ {Self}, Ads)
    /\ dropped \in BOOLEAN

\* A consumer whose view is v knows n by ad once it has received the events q: the
\* last event about n says so or, if there is none, v does.
Knows(v, q, n, ad) ==
    \/ \E i \in DOMAIN q : /\ q[i].node = n /\ q[i].kind # "expired" /\ q[i].ad = ad
                           /\ \A j \in DOMAIN q : q[j].node = n => j <= i
    \/ /\ \A i \in DOMAIN q : q[i].node # n
       /\ n \in DOMAIN v /\ v[n] = ad

\* What the consumer will know, once it has received every event under way.
Informed(n, ad) == Knows(view, events \o pending, n, ad)

SamePeer(a, b) == a.attr = b.attr /\ Range(a.addrs) = Range(b.addrs)

\* The event stream is complete: unless an event was dropped, a consumer that
\* replays it knows the same peers as Peers() and, for each, the same ports,
\* fingerprint, host and set of addresses (handleEntry, expire and emit together).
EventsMirrorPeers ==
    ~dropped => \A n \in Nodes :
        IF n \in DOMAIN peers
        THEN \E ad \in Ads : Informed(n, ad) /\ SamePeer(ad, peers[n].ad)
        ELSE \A ad \in Ads : ~Informed(n, ad)

\* The address that GRPCAddr gives a dialer: the first one (all are IPv4 here).
GRPCAddr(ad) == IF ad.addrs = <<>> THEN <<>> ELSE <<Head(ad.addrs)>>

\* "peerChanged reports whether anything a dialer cares about differs": unless an
\* event was dropped, a consumer that replays the events dials the address that
\* Peers() gives.
DialersInformed ==
    ~dropped => \A n \in DOMAIN peers, ad \in Ads :
                   Informed(n, ad) => GRPCAddr(ad) = GRPCAddr(peers[n].ad)

\* A peer leaves the list only when nothing was heard from it for more than
\* ExpireAfter, even if the sweep works on an old tick.
ExpiryIsDue ==
    [][\A n \in DOMAIN peers \ DOMAIN peers' : peers[n].silent > ExpireAfter]_vars

\* A peer that falls silent leaves the list for good, while the loop runs.
SilentPeersLeave ==
    \A n \in Nodes :
        (n \in DOMAIN peers) ~> \/ n \notin DOMAIN peers
                                \/ peers[n].silent = 0
                                \/ loop = "done"

\* Stop returns: the loop never blocks on a channel nobody reads any more.
StopTerminates == (main = "stopping") ~> (main = "stopped")
=============================================================================
