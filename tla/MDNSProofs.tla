----------------------------- MODULE MDNSProofs -----------------------------
(***************************************************************************)
(* Proofs about MDNS and Discover, for any nodes, announcements and        *)
(* channel capacity.                                                       *)
(***************************************************************************)
EXTENDS Discover, DataTheorems

PeerStates == [ad : Ads, silent : Silences]

\* Events about other nodes.
EventsOfOthers == [kind : Kinds, node : Nodes \ {Self}, ad : Ads]

\* The channel and the loop hold events about other nodes only, and an entry is added
\* to the peers one at a time: what expire makes a sequence of is finite.
MDNSInv ==
    /\ TypeOK
    /\ events \in Seq(EventsOfOthers) /\ pending \in Seq(EventsOfOthers)
    /\ IsFiniteSet(DOMAIN peers)

LEMMA PeersTyped ==
    ASSUME MDNSInv
    PROVE  /\ DOMAIN peers \subseteq Nodes \ {Self}
           /\ \A n \in DOMAIN peers : peers[n] \in PeerStates
  <1>1. PICK p \in PartialFunctions(Nodes \ {Self}, PeerStates) : p = peers
    BY DEF MDNSInv, TypeOK, PeerStates
  <1> QED
    BY <1>1, PartialFunctionElim

LEMMA InitMDNS == Init => MDNSInv
  <1> SUFFICES ASSUME Init PROVE MDNSInv
    OBVIOUS
  <1>1. /\ peers \in PartialFunctions(Nodes \ {Self}, PeerStates) /\ DOMAIN peers = {}
        /\ view \in PartialFunctions(Nodes \ {Self}, Ads)
    BY EmptyType DEF Init
  <1>2. IsFiniteSet(DOMAIN peers)
    BY <1>1, FS_EmptySet
  <1>3. NoTick \in NoTick .. MaxTickAge
    BY MDNSAssumption DEF NoTick
  <1>4. events = <<>> /\ pending = <<>> /\ Len(events) <= EventBuffer
    BY MDNSAssumption DEF Init
  <1>5. events \in Seq(Events) /\ events \in Seq(EventsOfOthers)
    BY <1>4
  <1> QED
    BY <1>1, <1>2, <1>3, <1>4, <1>5 DEF Init, MDNSInv, TypeOK, PeerStates

\* handleEntry stores what it heard and owes at most one event.
LEMMA HandleEntryKeeps ==
    ASSUME MDNSInv, NEW e \in Entries, handleEntry(e)
    PROVE  MDNSInv'
  <1>1. e.node \in Nodes \ {Self} /\ e.ad \in Ads /\ [ad |-> e.ad, silent |-> 0] \in PeerStates
    BY MDNSAssumption DEF handleEntry, Heeded, Entries, PeerStates, Silences
  <1>2. /\ peers' \in PartialFunctions(Nodes \ {Self}, PeerStates)
        /\ DOMAIN peers' = DOMAIN peers \cup {e.node}
    <2>1. PICK p \in PartialFunctions(Nodes \ {Self}, PeerStates) : p = peers
      BY DEF MDNSInv, TypeOK, PeerStates
    <2>2. PICK v \in PeerStates : v = [ad |-> e.ad, silent |-> 0]
      BY <1>1
    <2>3. peers' = Put(p, e.node, v)
      BY <2>1, <2>2 DEF handleEntry
    <2>4. PICK n \in Nodes \ {Self} : n = e.node
      BY <1>1
    <2>5. /\ Put(p, n, v) \in PartialFunctions(Nodes \ {Self}, PeerStates)
          /\ DOMAIN Put(p, n, v) = DOMAIN p \cup {n}
      BY PutType
    <2> QED
      BY <2>1, <2>3, <2>4, <2>5
  <1>3. IsFiniteSet(DOMAIN peers')
    BY <1>2, FS_AddElement DEF MDNSInv
  <1>4. pending' \in Seq(EventsOfOthers) /\ pending' \in Seq(Events)
    <2>1. \/ pending' = <<Event("added", e.node, e.ad)>>
          \/ pending' = <<Event("updated", e.node, e.ad)>>
          \/ pending' = <<>>
      BY DEF handleEntry
    <2>2. \A kind \in Kinds : /\ Event(kind, e.node, e.ad) \in EventsOfOthers
                              /\ Event(kind, e.node, e.ad) \in Events
      BY <1>1 DEF Event, EventsOfOthers, Events
    <2>3. pending' = <<>> \/ \E kind \in Kinds : pending' = <<Event(kind, e.node, e.ad)>>
      BY <2>1 DEF Kinds
    <2>4. ASSUME NEW ev \in EventsOfOthers, ev \in Events, pending' = <<ev>>
          PROVE  pending' \in Seq(EventsOfOthers) /\ pending' \in Seq(Events)
      BY <2>4
    <2>5. CASE pending' = <<>>
      BY <2>5
    <2>6. ASSUME NEW kind \in Kinds, pending' = <<Event(kind, e.node, e.ad)>>
          PROVE  pending' \in Seq(EventsOfOthers) /\ pending' \in Seq(Events)
      <3>1. PICK ev \in EventsOfOthers : ev \in Events /\ ev = Event(kind, e.node, e.ad)
        BY <2>2
      <3> QED
        BY <2>4, <2>6, <3>1
    <2> QED
      BY <2>3, <2>5, <2>6
  <1> QED
    BY <1>2, <1>3, <1>4 DEF MDNSInv, TypeOK, PeerStates, handleEntry

\* expire forgets the peers that are overdue and owes an event for each.
LEMMA ExpireKeeps ==
    ASSUME MDNSInv, expire
    PROVE  /\ MDNSInv'
           /\ DOMAIN peers \ DOMAIN peers' \subseteq Overdue
  <1>1. /\ peers \in PartialFunctions(Nodes \ {Self}, PeerStates)
        /\ DOMAIN peers \ Overdue \in SUBSET DOMAIN peers
    BY DEF MDNSInv, TypeOK, PeerStates
  <1>2. /\ peers' \in PartialFunctions(Nodes \ {Self}, PeerStates)
        /\ DOMAIN peers' = DOMAIN peers \ Overdue
    BY <1>1, RestrictType DEF expire
  <1>3. IsFiniteSet(DOMAIN peers') /\ IsFiniteSet(Overdue)
    BY <1>2, FS_Subset DEF MDNSInv, Overdue
  <1>4. Cardinality(Overdue) \in Nat
    BY <1>3, FS_CardinalityType
  <1>5. PICK order \in SetToSeqs(Overdue) :
            pending' = [i \in DOMAIN order |->
                           Event("expired", order[i], peers[order[i]].ad)]
    BY DEF expire
  <1>6. order \in [1 .. Cardinality(Overdue) -> Overdue]
    BY <1>5 DEF SetToSeqs
  <1>7. ASSUME NEW n \in Overdue
        PROVE  /\ Event("expired", n, peers[n].ad) \in EventsOfOthers
               /\ Event("expired", n, peers[n].ad) \in Events
    <2>1. n \in DOMAIN peers
      BY DEF Overdue
    <2>2. n \in Nodes \ {Self} /\ peers[n] \in PeerStates
      BY <2>1, PeersTyped
    <2> QED
      BY <2>2 DEF PeerStates, Event, EventsOfOthers, Events, Kinds
  <1>8. /\ pending' \in [1 .. Cardinality(Overdue) -> EventsOfOthers]
        /\ pending' \in [1 .. Cardinality(Overdue) -> Events]
    BY <1>5, <1>6, <1>7
  <1>9. pending' \in Seq(EventsOfOthers) /\ pending' \in Seq(Events)
    BY <1>4, <1>8
  <1>10. tick' \in NoTick .. MaxTickAge
    BY MDNSAssumption DEF NoTick, expire
  <1>11. UNCHANGED <<events, loop, main, ctxDone, view, dropped>>
    BY DEF expire
  <1>12. TypeOK'
    BY <1>2, <1>9, <1>10, <1>11 DEF MDNSInv, TypeOK, PeerStates
  <1> QED
    BY <1>2, <1>3, <1>9, <1>11, <1>12 DEF MDNSInv

\* emit moves an event into the channel or drops it.
LEMMA EmitKeeps ==
    ASSUME MDNSInv, emit
    PROVE  MDNSInv'
  <1>1. /\ Head(pending) \in EventsOfOthers /\ Head(pending) \in Events
        /\ Tail(pending) \in Seq(EventsOfOthers) /\ Tail(pending) \in Seq(Events)
    BY DEF MDNSInv, TypeOK, emit
  <1>2. CASE /\ Len(events) < EventBuffer /\ events' = Append(events, Head(pending))
             /\ UNCHANGED <<view, dropped>>
    <2>1. events' \in Seq(EventsOfOthers) /\ events' \in Seq(Events)
          /\ Len(events') = Len(events) + 1 /\ Len(events) \in Nat
      BY <1>1, <1>2 DEF MDNSInv, TypeOK
    <2> QED
      BY <1>1, <1>2, <2>1, MDNSAssumption DEF MDNSInv, TypeOK, emit
  <1>3. CASE dropped' = TRUE /\ view' = EmptyMap /\ UNCHANGED events
    <2>1. view' \in PartialFunctions(Nodes \ {Self}, Ads)
      BY <1>3, EmptyType
    <2> QED
      BY <1>1, <1>3, <2>1 DEF MDNSInv, TypeOK, emit
  <1> QED
    BY <1>2, <1>3 DEF emit

\* main takes an event from the channel.
LEMMA ReceiveKeeps ==
    ASSUME MDNSInv, receive
    PROVE  MDNSInv'
  <1>1. /\ Head(events) \in EventsOfOthers
        /\ events' \in Seq(EventsOfOthers) /\ events' \in Seq(Events)
        /\ Len(events') = Len(events) - 1 /\ Len(events) \in Nat
    BY DEF MDNSInv, TypeOK, receive
  <1>2. PICK ev \in EventsOfOthers : ev = Head(events)
    BY <1>1
  <1>3. ev.node \in Nodes \ {Self} /\ ev.ad \in Ads
    BY DEF EventsOfOthers
  <1>4. PICK v \in PartialFunctions(Nodes \ {Self}, Ads) : v = view
    BY DEF MDNSInv, TypeOK
  <1>5. Put(v, ev.node, ev.ad) \in PartialFunctions(Nodes \ {Self}, Ads)
    BY <1>3, PutType
  <1>6. Delete(v, ev.node) \in PartialFunctions(Nodes \ {Self}, Ads)
    BY RestrictType DEF Delete
  <1>7. view' \in PartialFunctions(Nodes \ {Self}, Ads)
    BY <1>2, <1>4, <1>5, <1>6, EmptyType DEF receive, Replay
  <1> QED
    BY <1>1, <1>7, MDNSAssumption DEF MDNSInv, TypeOK, receive

\* Time passes.
LEMMA PeriodKeeps ==
    ASSUME MDNSInv, Period
    PROVE  MDNSInv' /\ DOMAIN peers' = DOMAIN peers
  <1>1. ASSUME NEW n \in DOMAIN peers
        PROVE  Older(peers[n]) \in PeerStates
    <2>1. peers[n] \in PeerStates
      BY PeersTyped
    <2> QED
      BY <2>1, MDNSAssumption DEF Older, PeerStates, Silences
  <1>2. peers' \in [DOMAIN peers -> PeerStates] /\ DOMAIN peers \in SUBSET (Nodes \ {Self})
    BY <1>1, PeersTyped DEF Period
  <1>3. peers' \in PartialFunctions(Nodes \ {Self}, PeerStates)
    BY <1>2, PartialFunctionIntro
  <1>4. tick' \in NoTick .. MaxTickAge
    BY MDNSAssumption DEF Period, MDNSInv, TypeOK, NoTick
  <1> QED
    BY <1>2, <1>3, <1>4 DEF Period, MDNSInv, TypeOK, PeerStates

\* The steps that touch neither peers nor events.
LEMMA RestKeeps ==
    ASSUME MDNSInv, loopReturn \/ signal \/ Stop \/ StopReturns \/ UNCHANGED vars
    PROVE  MDNSInv' /\ peers' = peers
  BY DEF MDNSInv, TypeOK, loopReturn, signal, Stop, StopReturns, vars

LEMMA StepMDNS ==
    ASSUME MDNSInv, [Next]_vars
    PROVE  MDNSInv'
  BY HandleEntryKeeps, ExpireKeeps, EmitKeeps, ReceiveKeeps, PeriodKeeps, RestKeeps DEF Next

\* The queue of an emptied head, of a moved event and of a new one.
LEMMA QueueMoves ==
    ASSUME NEW S, NEW s \in Seq(S), NEW t \in Seq(S)
    PROVE  /\ s \o t \in Seq(S) /\ Len(s \o t) = Len(s) + Len(t)
           /\ t # <<>> => /\ Len(Append(s, Head(t)) \o Tail(t)) = Len(s \o t)
                          /\ \A i \in 1 .. Len(s \o t) :
                                (Append(s, Head(t)) \o Tail(t))[i] = (s \o t)[i]
           /\ s # <<>> => /\ Len(Tail(s) \o t) = Len(s \o t) - 1
                          /\ Head(s) = (s \o t)[1]
                          /\ \A i \in 1 .. Len(Tail(s) \o t) :
                                (Tail(s) \o t)[i] = (s \o t)[i + 1]
           /\ \A x \in S : /\ Len(s \o <<x>>) = Len(s) + 1
                           /\ (s \o <<x>>)[Len(s) + 1] = x
                           /\ \A i \in 1 .. Len(s) : (s \o <<x>>)[i] = s[i]
           /\ s \o <<>> = s
  <1>1. s \o t \in Seq(S) /\ Len(s \o t) = Len(s) + Len(t) /\ s \o <<>> = s
    OBVIOUS
  <1>2. ASSUME t # <<>>
        PROVE  /\ Len(Append(s, Head(t)) \o Tail(t)) = Len(s \o t)
               /\ \A i \in 1 .. Len(s \o t) :
                     (Append(s, Head(t)) \o Tail(t))[i] = (s \o t)[i]
    <2> DEFINE u == Append(s, Head(t))
    <2>1. /\ u \in Seq(S) /\ Len(u) = Len(s) + 1 /\ u[Len(s) + 1] = Head(t)
          /\ \A i \in 1 .. Len(s) : u[i] = s[i]
      BY <1>2
    <2>2. /\ Tail(t) \in Seq(S) /\ Len(Tail(t)) = Len(t) - 1 /\ Head(t) = t[1]
          /\ \A i \in 1 .. Len(t) - 1 : Tail(t)[i] = t[i + 1]
      BY <1>2
    <2> HIDE DEF u
    <2>3. u \o Tail(t) \in Seq(S) /\ Len(u \o Tail(t)) = Len(s) + Len(t)
      BY SMTT(30), <2>1, <2>2
    <2>4. ASSUME NEW i \in 1 .. Len(s) + Len(t)
          PROVE  (u \o Tail(t))[i] = (s \o t)[i]
      <3>1. CASE i <= Len(s)
        BY <2>1, <2>2, <3>1
      <3>2. CASE i = Len(s) + 1
        BY <2>1, <2>2, <3>2, <1>2
      <3>3. CASE i > Len(s) + 1
        BY <2>1, <2>2, <3>3
      <3>4. i <= Len(s) \/ i = Len(s) + 1 \/ i > Len(s) + 1
        OBVIOUS
      <3> QED
        BY <3>1, <3>2, <3>3, <3>4
    <2> QED
      BY <1>1, <2>3, <2>4 DEF u
  <1>3. ASSUME s # <<>>
        PROVE  /\ Len(Tail(s) \o t) = Len(s \o t) - 1
               /\ Head(s) = (s \o t)[1]
               /\ \A i \in 1 .. Len(Tail(s) \o t) : (Tail(s) \o t)[i] = (s \o t)[i + 1]
    <2>1. /\ Tail(s) \in Seq(S) /\ Len(Tail(s)) = Len(s) - 1 /\ Head(s) = s[1] /\ Len(s) > 0
          /\ \A i \in 1 .. Len(s) - 1 : Tail(s)[i] = s[i + 1]
      BY <1>3
    <2>2. Len(Tail(s) \o t) = Len(s \o t) - 1 /\ Head(s) = (s \o t)[1]
      BY <1>1, <2>1
    <2>3. ASSUME NEW i \in 1 .. Len(Tail(s) \o t)
          PROVE  (Tail(s) \o t)[i] = (s \o t)[i + 1]
      <3>1. CASE i <= Len(s) - 1
        BY <2>1, <2>2, <3>1
      <3>2. CASE i > Len(s) - 1
        BY <2>1, <2>2, <3>2
      <3> QED
        BY <2>1, <3>1, <3>2
    <2> QED
      BY <2>2, <2>3
  <1>4. ASSUME NEW x \in S
        PROVE  /\ Len(s \o <<x>>) = Len(s) + 1
               /\ (s \o <<x>>)[Len(s) + 1] = x
               /\ \A i \in 1 .. Len(s) : (s \o <<x>>)[i] = s[i]
    OBVIOUS
  <1> QED
    BY <1>1, <1>2, <1>3, <1>4

-----------------------------------------------------------------------------
(***************************************************************************)
(* What a consumer knows.                                                  *)
(***************************************************************************)

\* A new event at the end of the queue decides what is known of its node.
LEMMA KnowsLast ==
    ASSUME NEW S, NEW q \in Seq(S), NEW w \in Seq(S), NEW v, NEW n, NEW ad,
           Len(w) = Len(q) + 1, \A i \in 1 .. Len(q) : w[i] = q[i]
    PROVE  Knows(v, w, n, ad) <=>
               IF w[Len(q) + 1].node = n
               THEN w[Len(q) + 1].kind # "expired" /\ w[Len(q) + 1].ad = ad
               ELSE Knows(v, q, n, ad)
  <1>1. PICK k \in Nat : k = Len(q)
    OBVIOUS
  <1>2. DOMAIN q = 1 .. k /\ DOMAIN w = 1 .. k + 1 /\ \A i \in 1 .. k : w[i] = q[i]
    BY <1>1
  <1>3. k + 1 \in 1 .. k + 1 /\ (\A i \in 1 .. k + 1 : i <= k + 1 /\ (i = k + 1 \/ i \in 1 .. k))
        /\ \A i \in 1 .. k : i \in 1 .. k + 1 /\ ~(k + 1 <= i)
    OBVIOUS
  <1>4. CASE w[k + 1].node = n
    BY SMTT(30), <1>1, <1>2, <1>3, <1>4 DEF Knows
  <1>5. CASE w[k + 1].node # n
    BY <1>1, <1>2, <1>3, <1>5 DEF Knows
  <1> QED
    BY <1>4, <1>5

\* Receiving the first event changes nothing in what will be known at the end.
LEMMA KnowsNext ==
    ASSUME NEW S, NEW q \in Seq(S), NEW w \in Seq(S), NEW v, NEW n, NEW ad,
           Len(w) = Len(q) - 1, \A i \in 1 .. Len(w) : w[i] = q[i + 1]
    PROVE  Knows(Replay(v, q[1]), w, n, ad) <=> Knows(v, q, n, ad)
  <1>1. PICK k \in Nat : k = Len(w)
    OBVIOUS
  <1>2. DOMAIN w = 1 .. k /\ DOMAIN q = 1 .. k + 1 /\ \A i \in 1 .. k : w[i] = q[i + 1]
    BY <1>1
  <1>3. /\ 1 \in 1 .. k + 1 /\ \A i \in 1 .. k : i + 1 \in 1 .. k + 1 /\ ~(i + 1 <= 1)
        /\ \A i \in 1 .. k + 1 : i = 1 \/ (i - 1 \in 1 .. k /\ (i - 1) + 1 = i)
        /\ \A i, j \in 1 .. k : i <= j <=> i + 1 <= j + 1
        /\ \A i \in 1 .. k + 1 : 1 <= i
    OBVIOUS
  <1>4. PICK u : u = Replay(v, q[1])
    OBVIOUS
  <1>5. CASE \E i \in 1 .. k : w[i].node = n
    <2>1. PICK l \in 1 .. k : w[l].node = n
      BY SMTT(30), <1>5
    <2>2. l + 1 \in 1 .. k + 1 /\ q[l + 1].node = n /\ ~(l + 1 <= 1)
      BY SMTT(30), <1>2, <1>3, <2>1
    <2>3. ASSUME Knows(v, q, n, ad) PROVE Knows(u, w, n, ad)
      <3>1. PICK i \in 1 .. k + 1 : /\ q[i].node = n /\ q[i].kind # "expired" /\ q[i].ad = ad
                                    /\ \A j \in 1 .. k + 1 : q[j].node = n => j <= i
        BY <1>2, <2>2, <2>3, Zenon DEF Knows
      <3>2. i # 1
        BY <2>2, <3>1
      <3>3. i - 1 \in 1 .. k /\ w[i - 1] = q[i]
        BY <1>2, <1>3, <3>2
      <3>4. ASSUME NEW j \in 1 .. k, w[j].node = n PROVE j <= i - 1
        <4>1. j + 1 <= i
          BY SMTT(30), <1>2, <1>3, <3>1, <3>4
        <4> QED
          BY <4>1
      <3> QED
        BY <1>2, <3>1, <3>3, <3>4 DEF Knows
    <2>4. ASSUME Knows(u, w, n, ad) PROVE Knows(v, q, n, ad)
      <3>1. PICK i \in 1 .. k : /\ w[i].node = n /\ w[i].kind # "expired" /\ w[i].ad = ad
                                /\ \A j \in 1 .. k : w[j].node = n => j <= i
        BY <1>2, <1>5, <2>4 DEF Knows
      <3>2. ASSUME NEW j \in 1 .. k + 1, q[j].node = n PROVE j <= i + 1
        <4>1. CASE j = 1
          BY <4>1
        <4>2. CASE j # 1
          <5>1. j - 1 \in 1 .. k /\ w[j - 1] = q[j]
            BY <1>2, <1>3, <4>2
          <5>2. j - 1 <= i
            BY <3>1, <3>2, <5>1
          <5> QED
            BY <5>1, <5>2
        <4> QED
          BY <4>1, <4>2
      <3> QED
        BY <1>2, <1>3, <3>1, <3>2 DEF Knows
    <2> QED
      BY <1>4, <2>3, <2>4
  <1>6. CASE ~ \E i \in 1 .. k : w[i].node = n
    <2>1. \A i \in 1 .. k + 1 : i = 1 \/ q[i].node # n
      <3> SUFFICES ASSUME NEW i \in 1 .. k + 1, i # 1 PROVE q[i].node # n
        OBVIOUS
      <3>1. i - 1 \in 1 .. k /\ w[i - 1] = q[i]
        BY <1>2, <1>3
      <3> QED
        BY <1>6, <3>1
    <2>2. Knows(u, w, n, ad) <=> n \in DOMAIN u /\ u[n] = ad
      BY <1>2, <1>6, Zenon DEF Knows
    <2>3. CASE q[1].node = n
      <3>1. Knows(v, q, n, ad) <=> q[1].kind # "expired" /\ q[1].ad = ad
        BY <1>2, <1>3, <2>1, <2>3 DEF Knows
      <3>2. CASE q[1].kind = "expired"
        <4>1. u = Delete(v, n)
          BY <1>4, <2>3, <3>2 DEF Replay
        <4>2. n \notin DOMAIN u
          BY <4>1 DEF Delete, Restrict
        <4> QED
          BY <1>4, <2>2, <3>1, <3>2, <4>2
      <3>3. CASE q[1].kind # "expired"
        <4>1. u = Put(v, n, q[1].ad)
          BY <1>4, <2>3, <3>3 DEF Replay
        <4>2. n \in DOMAIN u /\ u[n] = q[1].ad
          BY <4>1 DEF Put
        <4> QED
          BY <1>4, <2>2, <3>1, <3>3, <4>2
      <3> QED
        BY <3>2, <3>3
    <2>4. CASE q[1].node # n
      <3>1. \A i \in 1 .. k + 1 : q[i].node # n
        BY <2>1, <2>4
      <3>2. Knows(v, q, n, ad) <=> n \in DOMAIN v /\ v[n] = ad
        BY <1>2, <3>1, Zenon DEF Knows
      <3>3. (n \in DOMAIN u <=> n \in DOMAIN v) /\ (n \in DOMAIN v => u[n] = v[n])
        <4>1. u = Delete(v, q[1].node) \/ u = Put(v, q[1].node, q[1].ad)
          BY SMTT(30), <1>4 DEF Replay
        <4> QED
          BY SMTT(30), <2>4, <4>1 DEF Delete, Restrict, Put
      <3> QED
        BY <1>4, <2>2, <3>2, <3>3
    <2> QED
      BY SMTT(30), <2>3, <2>4
  <1> QED
    BY <1>5, <1>6

\* w is q with the k events of a sweep at its end.
Sweeps(w, q, k) ==
    /\ Len(w) = Len(q) + k /\ \A i \in 1 .. Len(q) : w[i] = q[i]
    /\ \A i \in 1 .. k : w[Len(q) + i].kind = "expired"

\* None of these events is about n.
Spares(w, q, k, n) == \A i \in 1 .. k : w[Len(q) + i].node # n

\* The events of a sweep at the end of the queue make its nodes unknown.
LEMMA KnowsExpired ==
    ASSUME NEW S, NEW q \in Seq(S), NEW w \in Seq(S), NEW k \in Nat, NEW v, NEW n, NEW ad,
           Sweeps(w, q, k)
    PROVE  Knows(v, w, n, ad) <=> Knows(v, q, n, ad) /\ Spares(w, q, k, n)
  <1>1. PICK m \in Nat : m = Len(q)
    OBVIOUS
  <1>2. /\ DOMAIN q = 1 .. m /\ DOMAIN w = 1 .. m + k /\ (\A i \in 1 .. m : w[i] = q[i])
        /\ \A i \in 1 .. k : w[m + i].kind = "expired"
    BY <1>1 DEF Sweeps
  <1>3. /\ \A i \in 1 .. m : i \in 1 .. m + k
        /\ \A i \in 1 .. k : m + i \in 1 .. m + k /\ ~(m + i \in 1 .. m)
        /\ \A i \in 1 .. m + k : i \in 1 .. m \/ (i - m \in 1 .. k /\ m + (i - m) = i)
        /\ \A i \in 1 .. m, j \in 1 .. k : ~(m + j <= i)
    OBVIOUS
  <1>4. CASE \E i \in 1 .. k : w[m + i].node = n
    <2>1. PICK i \in 1 .. k : w[m + i].node = n
      BY <1>4
    <2>2. ASSUME Knows(v, w, n, ad) PROVE FALSE
      <3>1. PICK l \in 1 .. m + k : /\ w[l].node = n /\ w[l].kind # "expired"
                                    /\ \A j \in 1 .. m + k : w[j].node = n => j <= l
        BY <1>2, <1>3, <2>1, <2>2 DEF Knows
      <3>2. m + i <= l
        BY SMTT(30), <1>3, <2>1, <3>1
      <3>3. ~(l \in 1 .. m)
        BY <1>3, <3>2
      <3>4. l - m \in 1 .. k /\ m + (l - m) = l
        BY SMTT(30), <1>3, <3>3
      <3> QED
        BY SMTT(30), <1>2, <3>1, <3>4
    <2> QED
      BY <1>1, <2>1, <2>2 DEF Spares
  <1>5. CASE ~ \E i \in 1 .. k : w[m + i].node = n
    <2>1. \A i \in 1 .. m + k : w[i].node = n => i \in 1 .. m
      BY <1>3, <1>5
    <2> QED
      BY <1>1, <1>2, <1>3, <1>5, <2>1 DEF Knows, Spares
  <1> QED
    BY <1>4, <1>5

\* peerChanged misses no change but one of order: addresses that are as many as
\* before, each among the old ones and none twice, are the same.
LEMMA UnchangedPeer ==
    ASSUME NEW a \in Ads, NEW b \in Ads, ~peerChanged(a, b)
    PROVE  SamePeer(a, b)
  <1>1. PICK s, t, k : s = a.addrs /\ t = b.addrs /\ k = Len(s)
    OBVIOUS
  <1>2. /\ s \in Seq(Range(s)) /\ t \in Seq(Range(t)) /\ IsInjective(t)
    BY <1>1, MDNSAssumption
  <1>3. /\ k \in Nat /\ s \in [1 .. k -> Range(s)] /\ t \in [1 .. k -> Range(t)]
        /\ \A i \in 1 .. k : t[i] \in Range(s)
    BY <1>1, <1>2 DEF peerChanged
  <1>4. IsFiniteSet(1 .. k) /\ Cardinality(1 .. k) = k
    <2>1. 1 \in Int /\ k \in Int /\ k >= 0
      BY <1>3
    <2>2. IsFiniteSet(1 .. k) /\ Cardinality(1 .. k) = IF 1 > k THEN 0 ELSE k - 1 + 1
      BY <2>1, FS_Interval
    <2> QED
      BY <2>1, <2>2
  <1>5. s \in Surjection(1 .. k, Range(s)) /\ t \in Injection(1 .. k, Range(t))
    BY <1>2, <1>3 DEF Surjection, Injection, Range
  <1>6. IsFiniteSet(Range(s)) /\ Cardinality(Range(s)) <= k
    BY <1>4, <1>5, FS_Surjection
  <1>7. Range(t) \in SUBSET Range(s)
    BY <1>3 DEF Range
  <1>8. /\ IsFiniteSet(Range(t)) /\ Cardinality(Range(t)) <= Cardinality(Range(s))
        /\ Cardinality(Range(s)) = Cardinality(Range(t)) => Range(s) = Range(t)
    BY SMTT(30), <1>6, <1>7, FS_Subset
  <1>9. k <= Cardinality(Range(t))
    BY <1>4, <1>5, <1>8, FS_Injection
  <1>10. Cardinality(Range(s)) \in Nat /\ Cardinality(Range(t)) \in Nat
    BY SMTT(30), <1>6, <1>8, FS_CardinalityType
  <1>11. Range(s) = Range(t)
    BY <1>3, <1>6, <1>8, <1>9, <1>10
  <1> QED
    BY <1>1, <1>11 DEF SamePeer, peerChanged

\* The queue and what the consumer makes of it.
LEMMA QueueTyped ==
    ASSUME MDNSInv
    PROVE  /\ events \in Seq(EventsOfOthers) /\ pending \in Seq(EventsOfOthers)
           /\ events \o pending \in Seq(EventsOfOthers)
  BY SMTT(30) DEF MDNSInv

LEMMA HandleEntryMirrors ==
    ASSUME MDNSInv, EventsMirrorPeers, NEW e \in Entries, handleEntry(e)
    PROVE  EventsMirrorPeers'
  <1>1. /\ e.node \in Nodes \ {Self} /\ e.ad \in Ads /\ pending = <<>>
        /\ UNCHANGED <<events, view, dropped>>
        /\ peers' = Put(peers, e.node, [ad |-> e.ad, silent |-> 0])
    BY SMTT(30) DEF handleEntry, Heeded, Entries, Selecting
  <1>2. /\ DOMAIN peers' = DOMAIN peers \cup {e.node} /\ peers'[e.node].ad = e.ad
        /\ \A n \in DOMAIN peers \ {e.node} : peers'[n] = peers[n]
    BY <1>1 DEF Put
  <1>3. PICK q \in Seq(EventsOfOthers) : q = events
    BY QueueTyped
  <1>4. events \o pending = q
    BY SMTT(30), <1>1, <1>3
  <1> SUFFICES ASSUME ~dropped, NEW n \in Nodes
               PROVE  IF n \in DOMAIN peers'
                      THEN \E ad \in Ads : Informed(n, ad)' /\ SamePeer(ad, peers'[n].ad)
                      ELSE \A ad \in Ads : ~Informed(n, ad)'
    BY <1>1 DEF EventsMirrorPeers
  <1>5. IF n \in DOMAIN peers
        THEN \E ad \in Ads : Knows(view, q, n, ad) /\ SamePeer(ad, peers[n].ad)
        ELSE \A ad \in Ads : ~Knows(view, q, n, ad)
    BY SMTT(30), <1>4 DEF EventsMirrorPeers, Informed
  <1>6. CASE e.node \in DOMAIN peers /\ ~peerChanged(peers[e.node].ad, e.ad)
    <2>1. pending' = <<>>
      BY <1>6 DEF handleEntry
    <2>2. (events \o pending)' = q
      BY <1>1, <1>3, <2>1
    <2>3. \A ad \in Ads : Informed(n, ad)' <=> Knows(view, q, n, ad)
      BY SMTT(30), <1>1, <2>2 DEF Informed
    <2>4. CASE n = e.node
      <3>1. peers[n].ad \in Ads
        BY SMTT(30), <1>6, <2>4, PeersTyped DEF PeerStates
      <3>2. SamePeer(peers[n].ad, e.ad)
        BY <1>1, <1>6, <2>4, <3>1, UnchangedPeer
      <3>3. \A ad : SamePeer(ad, peers[n].ad) => SamePeer(ad, e.ad)
        BY SMTT(30), <3>2 DEF SamePeer
      <3> QED
        BY <1>2, <1>5, <1>6, <2>3, <2>4, <3>3
    <2>5. CASE n # e.node
      BY <1>2, <1>5, <2>3, <2>5
    <2> QED
      BY <2>4, <2>5
  <1>7. CASE ~(e.node \in DOMAIN peers /\ ~peerChanged(peers[e.node].ad, e.ad))
    <2>1. PICK kind \in {"added", "updated"} : pending' = <<Event(kind, e.node, e.ad)>>
      BY <1>7 DEF handleEntry
    <2>2. Event(kind, e.node, e.ad) \in EventsOfOthers
      BY <1>1, <2>1 DEF Event, EventsOfOthers, Kinds
    <2>3. PICK ev \in EventsOfOthers : ev = Event(kind, e.node, e.ad)
      BY <2>2
    <2>4. ev.node = e.node /\ ev.kind # "expired" /\ ev.ad = e.ad
      BY <2>3 DEF Event
    <2>5. PICK w : w = q \o <<ev>>
      OBVIOUS
    <2>6. /\ w \in Seq(EventsOfOthers) /\ Len(w) = Len(q) + 1 /\ w[Len(q) + 1] = ev
          /\ \A i \in 1 .. Len(q) : w[i] = q[i]
      BY <2>5
    <2>7. (events \o pending)' = w
      BY <1>1, <1>3, <2>1, <2>3, <2>5
    <2>8. ASSUME NEW ad \in Ads
          PROVE  Informed(n, ad)' <=> IF e.node = n THEN e.ad = ad ELSE Knows(view, q, n, ad)
      <3>1. Informed(n, ad)' <=> Knows(view, w, n, ad)
        BY SMTT(30), <1>1, <2>7 DEF Informed
      <3>2. Knows(view, w, n, ad) <=>
                IF w[Len(q) + 1].node = n
                THEN w[Len(q) + 1].kind # "expired" /\ w[Len(q) + 1].ad = ad
                ELSE Knows(view, q, n, ad)
        BY SMTT(30), <2>6, KnowsLast
      <3> QED
        BY <2>4, <2>6, <3>1, <3>2
    <2>9. CASE n = e.node
      <3>1. Informed(n, e.ad)' /\ SamePeer(e.ad, e.ad)
        BY SMTT(30), <1>1, <2>8, <2>9 DEF SamePeer
      <3> QED
        BY SMTT(30), <1>1, <1>2, <2>9, <3>1
    <2>10. CASE n # e.node
      BY SMTT(30), <1>2, <1>5, <2>8, <2>10
    <2> QED
      BY <2>9, <2>10
  <1> QED
    BY <1>6, <1>7

LEMMA ExpireMirrors ==
    ASSUME MDNSInv, EventsMirrorPeers, expire
    PROVE  EventsMirrorPeers'
  <1>1. /\ pending = <<>> /\ UNCHANGED <<events, view, dropped>>
        /\ peers' = Restrict(peers, DOMAIN peers \ Overdue) /\ Overdue \subseteq DOMAIN peers
    BY DEF expire, Selecting, Overdue
  <1>2. /\ DOMAIN peers' = DOMAIN peers \ Overdue
        /\ \A n \in DOMAIN peers \ Overdue : peers'[n] = peers[n]
    BY <1>1 DEF Restrict
  <1>3. PICK k : k = Cardinality(Overdue)
    OBVIOUS
  <1>4. IsFiniteSet(Overdue) /\ k \in Nat
    BY <1>1, <1>3, FS_Subset, FS_CardinalityType DEF MDNSInv
  <1>5. PICK order \in SetToSeqs(Overdue) :
            pending' = [i \in DOMAIN order |->
                           Event("expired", order[i], peers[order[i]].ad)]
    BY SMTT(30) DEF expire
  <1>6. order \in Injection(1 .. k, Overdue)
    BY <1>3, <1>5 DEF SetToSeqs, Injection, IsInjective
  <1>7. order \in Surjection(1 .. k, Overdue)
    <2>1. Cardinality(1 .. k) = k
      <3>1. Cardinality(1 .. k) = IF 1 > k THEN 0 ELSE k - 1 + 1
        BY <1>4, FS_Interval
      <3> QED
        BY <1>4, <3>1
    <2> QED
      BY <1>3, <1>4, <1>6, <2>1, FS_Injection
  <1>8. PICK q \in Seq(EventsOfOthers), p \in Seq(EventsOfOthers) : q = events /\ p = pending'
    BY QueueTyped, ExpireKeeps DEF MDNSInv
  <1>9. PICK w : w = q \o p
    OBVIOUS
  <1>10. /\ DOMAIN p = 1 .. k /\ Len(p) = k
         /\ \A i \in 1 .. k : p[i].kind = "expired" /\ p[i].node = order[i]
    <2>1. DOMAIN p = 1 .. k /\ \A i \in 1 .. k : p[i] = Event("expired", order[i], peers[order[i]].ad)
      BY <1>5, <1>6, <1>8 DEF Injection
    <2>2. Len(p) = k
      BY SMTT(30), <1>4, <1>8, <2>1
    <2> QED
      BY SMTT(30), <2>1, <2>2 DEF Event
  <1>11. /\ w \in Seq(EventsOfOthers) /\ Len(w) = Len(q) + k /\ \A i \in 1 .. Len(q) : w[i] = q[i]
         /\ \A i \in 1 .. k : w[Len(q) + i] = p[i]
    <2>1. /\ w \in Seq(EventsOfOthers) /\ Len(w) = Len(q) + Len(p)
          /\ \A i \in 1 .. Len(q) : w[i] = q[i]
          /\ \A i \in 1 .. Len(p) : w[Len(q) + i] = p[i]
      BY <1>9
    <2> QED
      BY SMTT(30), <1>10, <2>1
  <1>12. events \o pending = q /\ (events \o pending)' = w
    BY SMTT(30), <1>1, <1>8, <1>9
  <1>13. ASSUME NEW n, NEW ad
         PROVE  Informed(n, ad)' <=> Informed(n, ad) /\ n \notin Overdue
    <2>1. Informed(n, ad) <=> Knows(view, q, n, ad)
      BY <1>12 DEF Informed
    <2>2. Informed(n, ad)' <=> Knows(view, w, n, ad)
      BY SMTT(30), <1>1, <1>12 DEF Informed
    <2>3. /\ \A i \in 1 .. k : w[Len(q) + i].kind = "expired"
          /\ \A i \in 1 .. k : w[Len(q) + i].node = order[i]
      BY SMTT(30), <1>10, <1>11
    <2>4. Knows(view, w, n, ad) <=> Knows(view, q, n, ad) /\ Spares(w, q, k, n)
      <3>1. Sweeps(w, q, k)
        BY <1>11, <2>3 DEF Sweeps
      <3> QED
        BY <1>4, <1>11, <3>1, KnowsExpired
    <2>5. n \in Overdue <=> \E i \in 1 .. k : order[i] = n
      BY SMTT(30), <1>7 DEF Surjection
    <2> QED
      BY <2>1, <2>2, <2>3, <2>4, <2>5 DEF Spares
  <1> QED
    BY <1>1, <1>2, <1>13 DEF EventsMirrorPeers

LEMMA EmitMirrors ==
    ASSUME MDNSInv, EventsMirrorPeers, emit
    PROVE  EventsMirrorPeers'
  <1> SUFFICES ASSUME ~dropped' PROVE EventsMirrorPeers'
    BY DEF EventsMirrorPeers
  <1>1. /\ pending # <<>> /\ pending' = Tail(pending) /\ events' = Append(events, Head(pending))
        /\ UNCHANGED <<view, dropped, peers>>
    BY DEF emit
  <1>2. PICK s \in Seq(EventsOfOthers), t \in Seq(EventsOfOthers) : s = events /\ t = pending
    BY QueueTyped
  <1>3. PICK q, w : q = s \o t /\ w = Append(s, Head(t)) \o Tail(t)
    OBVIOUS
  <1>4. /\ q \in Seq(EventsOfOthers) /\ Len(w) = Len(q) /\ \A i \in 1 .. Len(q) : w[i] = q[i]
        /\ w \in Seq(EventsOfOthers)
    <2>1. t # <<>> /\ Head(t) \in EventsOfOthers /\ Tail(t) \in Seq(EventsOfOthers)
      BY SMTT(30), <1>1, <1>2
    <2> QED
      BY SMTT(30), <1>3, <2>1, QueueMoves
  <1>5. DOMAIN q = 1 .. Len(q) /\ DOMAIN w = 1 .. Len(q)
    BY SMTT(30), <1>4
  <1>6. \A n, ad : Knows(view, w, n, ad) <=> Knows(view, q, n, ad)
    BY <1>4, <1>5 DEF Knows
  <1>7. events \o pending = q /\ (events \o pending)' = w
    BY <1>1, <1>2, <1>3
  <1>8. \A n, ad : Informed(n, ad)' <=> Informed(n, ad)
    BY <1>1, <1>6, <1>7 DEF Informed
  <1> QED
    BY SMTT(30), <1>1, <1>8 DEF EventsMirrorPeers

LEMMA ReceiveMirrors ==
    ASSUME MDNSInv, EventsMirrorPeers, receive
    PROVE  EventsMirrorPeers'
  <1> SUFFICES ASSUME ~dropped' PROVE EventsMirrorPeers'
    BY DEF EventsMirrorPeers
  <1>1. /\ events # <<>> /\ events' = Tail(events) /\ view' = Replay(view, Head(events))
        /\ UNCHANGED <<pending, dropped, peers>>
    BY DEF receive
  <1>2. PICK s \in Seq(EventsOfOthers), t \in Seq(EventsOfOthers) : s = events /\ t = pending
    BY QueueTyped
  <1>3. PICK q, w : q = s \o t /\ w = Tail(s) \o t
    OBVIOUS
  <1>4. /\ q \in Seq(EventsOfOthers) /\ w \in Seq(EventsOfOthers) /\ Len(w) = Len(q) - 1
        /\ Head(s) = q[1] /\ \A i \in 1 .. Len(w) : w[i] = q[i + 1]
    <2>1. s # <<>> /\ Tail(s) \in Seq(EventsOfOthers)
      BY <1>1, <1>2
    <2> QED
      BY SMTT(30), <1>3, <2>1, QueueMoves
  <1>5. events \o pending = q /\ (events \o pending)' = w /\ view' = Replay(view, q[1])
    BY <1>1, <1>2, <1>3, <1>4
  <1>6. ASSUME NEW n, NEW ad
        PROVE  Informed(n, ad)' <=> Informed(n, ad)
    <2>1. Knows(Replay(view, q[1]), w, n, ad) <=> Knows(view, q, n, ad)
      BY ZenonT(30), <1>4, KnowsNext
    <2> QED
      BY SMTT(30), <1>5, <2>1 DEF Informed
  <1> QED
    BY <1>1, <1>6 DEF EventsMirrorPeers

\* The steps that leave the events and the announcements alone.
LEMMA RestMirrors ==
    ASSUME MDNSInv, EventsMirrorPeers,
           loopReturn \/ signal \/ Stop \/ StopReturns \/ Period \/ UNCHANGED vars
    PROVE  EventsMirrorPeers'
  <1>1. UNCHANGED <<events, pending, view, dropped>>
    BY DEF loopReturn, signal, Stop, StopReturns, Period, vars
  <1>2. DOMAIN peers' = DOMAIN peers /\ \A n \in DOMAIN peers : peers'[n].ad = peers[n].ad
    <2>1. CASE Period
      <3>1. \A n \in DOMAIN peers : peers'[n] = Older(peers[n]) /\ peers[n] \in PeerStates
        BY SMTT(30), <2>1, PeersTyped DEF Period
      <3> QED
        BY <2>1, <3>1 DEF Period, Older, PeerStates
    <2>2. CASE ~Period
      BY <2>2 DEF loopReturn, signal, Stop, StopReturns, vars
    <2> QED
      BY <2>1, <2>2
  <1>3. \A n, ad : Informed(n, ad)' <=> Informed(n, ad)
    BY <1>1 DEF Informed
  <1> QED
    BY <1>1, <1>2, <1>3 DEF EventsMirrorPeers

-----------------------------------------------------------------------------
(***************************************************************************)
(* Theorems about MDNS.                                                    *)
(***************************************************************************)

\* MDNSInv is inductive.
THEOREM MDNSInvariance == Spec => []MDNSInv
  BY InitMDNS, StepMDNS, PTL DEF Spec

\* The peers map of NewMDNS never holds the node itself, emit never overfills the
\* channel, and all is of its type.
THEOREM MDNSTypes == Spec => []TypeOK
  <1>1. MDNSInv => TypeOK
    BY DEF MDNSInv
  <1> QED
    BY <1>1, MDNSInvariance, PTL

\* For any nodes, announcements and capacity of the channel, a consumer that replays
\* the events of handleEntry, expire and emit knows what Peers() knows, unless an event
\* was dropped.
THEOREM EventsMirror == Spec => []EventsMirrorPeers
  <1>1. Init => EventsMirrorPeers
    <2> SUFFICES ASSUME Init, NEW n \in Nodes
                 PROVE  n \notin DOMAIN peers /\ \A ad \in Ads : ~Informed(n, ad)
      BY DEF EventsMirrorPeers
    <2>1. DOMAIN peers = {} /\ DOMAIN view = {}
      BY DEF Init, EmptyMap
    <2>2. PICK q : q = events \o pending
      OBVIOUS
    <2>3. DOMAIN q = {}
      BY <2>2 DEF Init
    <2> QED
      BY <2>1, <2>2, <2>3 DEF Informed, Knows
  <1>2. MDNSInv /\ EventsMirrorPeers /\ [Next]_vars => EventsMirrorPeers'
    BY HandleEntryMirrors, ExpireMirrors, EmitMirrors, ReceiveMirrors, RestMirrors DEF Next
  <1> QED
    BY <1>1, <1>2, MDNSInvariance, PTL DEF Spec

\* expire forgets a peer only after ExpireAfter without a word from it, however old
\* the tick is that it works on: an old tick makes it late, never early.
THEOREM ExpiryIsNeverEarly == Spec => ExpiryIsDue
  <1> DEFINE Due == \A n \in DOMAIN peers \ DOMAIN peers' : peers[n].silent > ExpireAfter
  <1>1. MDNSInv /\ [Next]_vars => [Due]_vars
    <2> SUFFICES ASSUME MDNSInv, Next PROVE Due
      OBVIOUS
    <2>1. CASE expire
      <3>1. ASSUME NEW n \in Overdue
            PROVE  peers[n].silent > ExpireAfter
        <4>1. n \in DOMAIN peers /\ peers[n].silent - tick > ExpireAfter
          BY DEF Overdue
        <4>2. peers[n] \in PeerStates
          BY <4>1, PeersTyped
        <4>3. tick \in 0 .. MaxTickAge
          BY <2>1, MDNSAssumption DEF expire, MDNSInv, TypeOK, NoTick
        <4> QED
          BY <4>1, <4>2, <4>3, MDNSAssumption DEF PeerStates, Silences
      <3> QED
        BY <2>1, <3>1, ExpireKeeps
    <2>2. CASE \E e \in Entries : handleEntry(e)
      BY SMTT(30), <2>2 DEF handleEntry, Put
    <2>3. CASE emit \/ receive
      BY <2>3 DEF emit, receive
    <2>4. CASE loopReturn \/ signal \/ Stop \/ StopReturns
      BY <2>4, RestKeeps
    <2>5. CASE Period
      BY SMTT(30), <2>5, PeriodKeeps
    <2> QED
      BY <2>1, <2>2, <2>3, <2>4, <2>5 DEF Next
  <1> QED
    BY <1>1, MDNSInvariance, PTL DEF Spec, ExpiryIsDue

-----------------------------------------------------------------------------
(***************************************************************************)
(* Discover.                                                               *)
(***************************************************************************)

HeardNodes == [node : Nodes, late : BOOLEAN]

\* h and the queue u agree: the first coordinator in u is the first in h that was new,
\* and all in h that were new have their event in u.
Agree(h, u) ==
    /\ \A k \in 1 .. Len(h) : ~h[k].late =>
          \E i \in 1 .. Len(u) : Picks(u[i]) /\ u[i].node = h[k].node
    /\ \A i \in 1 .. Len(u) :
          (Picks(u[i]) /\ \A j \in 1 .. i - 1 : ~Picks(u[j])) => FirstNew(h, u[i].node)

\* What was heard is a peer, and as long as none was found it agrees with the queue.
DInv ==
    /\ MDNSInv
    /\ heard \in Seq(HeardNodes)
    /\ \A k \in 1 .. Len(heard) : heard[k].node \in DOMAIN peers
    /\ main = "receiving" => found = <<>>
    /\ (~dropped /\ found = <<>>) => Agree(heard, Unread)
    /\ (~dropped /\ found # <<>>) => FirstNew(heard, found[1].node)

\* The queue as it was.
LEMMA SameQueue ==
    ASSUME NEW h, NEW u, NEW v, Agree(h, u), Len(u) \in Nat, Len(v) = Len(u),
           \A i \in 1 .. Len(u) : v[i] = u[i]
    PROVE  Agree(h, v)
  BY SMTT(30) DEF Agree

\* The head of the queue is read, and it is not a coordinator.
LEMMA HeadPassed ==
    ASSUME NEW h, NEW u, NEW v, Agree(h, u), Len(u) \in Nat \ {0}, ~Picks(u[1]),
           Len(v) = Len(u) - 1, \A i \in 1 .. Len(v) : v[i] = u[i + 1]
    PROVE  Agree(h, v)
  <1>1. ASSUME NEW k \in 1 .. Len(h), ~h[k].late
        PROVE  \E i \in 1 .. Len(v) : Picks(v[i]) /\ v[i].node = h[k].node
    <2>1. PICK i \in 1 .. Len(u) : Picks(u[i]) /\ u[i].node = h[k].node
      BY <1>1 DEF Agree
    <2>2. i # 1 /\ i - 1 \in 1 .. Len(v) /\ v[i - 1] = u[i]
      BY SMTT(30), <2>1
    <2> QED
      BY <2>1, <2>2
  <1>2. ASSUME NEW i \in 1 .. Len(v), Picks(v[i]), \A j \in 1 .. i - 1 : ~Picks(v[j])
        PROVE  FirstNew(h, v[i].node)
    <2>1. i + 1 \in 1 .. Len(u) /\ v[i] = u[i + 1]
      BY SMTT(30)
    <2>2. ASSUME NEW j \in 1 .. (i + 1) - 1
          PROVE  ~Picks(u[j])
      <3>1. CASE j = 1
        BY <3>1
      <3>2. CASE j # 1
        <4>1. j - 1 \in 1 .. i - 1 /\ j - 1 \in 1 .. Len(v) /\ (j - 1) + 1 = j
          BY SMTT(30), <3>2
        <4>2. v[j - 1] = u[j]
          BY <4>1
        <4> QED
          BY <1>2, <4>1, <4>2
      <3> QED
        BY <3>1, <3>2
    <2> QED
      BY <1>2, <2>1, <2>2 DEF Agree
  <1> QED
    BY <1>1, <1>2 DEF Agree

\* Whoever was first in h stays so when another is heard.
LEMMA FirstStays ==
    ASSUME NEW h \in Seq(HeardNodes), NEW r \in HeardNodes, NEW n, FirstNew(h, n)
    PROVE  FirstNew(Append(h, r), n)
  <1>1. PICK i \in DOMAIN h : /\ h[i].node = n /\ ~h[i].late
                              /\ \A j \in DOMAIN h : j < i => h[j].late
    BY DEF FirstNew
  <1>2. /\ i \in DOMAIN Append(h, r) /\ Append(h, r)[i] = h[i]
        /\ \A j \in DOMAIN Append(h, r) : j < i => j \in DOMAIN h /\ Append(h, r)[j] = h[j]
    BY SMTT(30)
  <1> QED
    BY <1>1, <1>2 DEF FirstNew

\* A peer gets a pairing port: the queue need not hold it.
LEMMA LateHeard ==
    ASSUME NEW h \in Seq(HeardNodes), NEW r \in HeardNodes, r.late, NEW u, Agree(h, u)
    PROVE  Agree(Append(h, r), u)
  <1>1. ASSUME NEW k \in 1 .. Len(Append(h, r)), ~Append(h, r)[k].late
        PROVE  k \in 1 .. Len(h) /\ Append(h, r)[k] = h[k]
    BY SMTT(30), <1>1
  <1> QED
    BY <1>1, FirstStays DEF Agree

\* handleEntry adds an event that is not a new coordinator's at the end of the queue.
LEMMA OtherInQueue ==
    ASSUME NEW h, NEW u, NEW v, NEW ev, Agree(h, u), Len(u) \in Nat, ~Picks(ev),
           Len(v) = Len(u) + 1, v[Len(u) + 1] = ev, \A i \in 1 .. Len(u) : v[i] = u[i]
    PROVE  Agree(h, v)
  <1>1. ASSUME NEW i \in 1 .. Len(v), Picks(v[i])
        PROVE  i \in 1 .. Len(u) /\ \A j \in 1 .. i - 1 : j \in 1 .. Len(u)
    BY SMTT(30), <1>1
  <1>2. \A i \in 1 .. Len(u) : i \in 1 .. Len(v)
    BY SMTT(30)
  <1> QED
    BY <1>1, <1>2 DEF Agree

\* It adds the event of a new coordinator, which is heard at the same time.
LEMMA NewInQueue ==
    ASSUME NEW h \in Seq(HeardNodes), NEW r \in HeardNodes, NEW u, NEW v, NEW ev,
           Agree(h, u), Len(u) \in Nat, Picks(ev), ~r.late, r.node = ev.node,
           Len(v) = Len(u) + 1, v[Len(u) + 1] = ev, \A i \in 1 .. Len(u) : v[i] = u[i]
    PROVE  Agree(Append(h, r), v)
  <1>1. \A k \in 1 .. Len(Append(h, r)) :
           Append(h, r)[k] = r \/ (k \in 1 .. Len(h) /\ Append(h, r)[k] = h[k])
    BY SMTT(30)
  <1>2. Len(u) + 1 \in 1 .. Len(v) /\ \A i \in 1 .. Len(u) : i \in 1 .. Len(v)
    BY SMTT(30)
  <1>3. ASSUME NEW k \in 1 .. Len(Append(h, r)), ~Append(h, r)[k].late
        PROVE  \E i \in 1 .. Len(v) : Picks(v[i]) /\ v[i].node = Append(h, r)[k].node
    BY <1>1, <1>2, <1>3 DEF Agree
  <1>4. ASSUME NEW i \in 1 .. Len(v), Picks(v[i]), \A j \in 1 .. i - 1 : ~Picks(v[j])
        PROVE  FirstNew(Append(h, r), v[i].node)
    <2>1. CASE i \in 1 .. Len(u)
      <3>1. \A j \in 1 .. i - 1 : j \in 1 .. Len(u)
        BY SMTT(30), <2>1
      <3>2. FirstNew(h, v[i].node)
        BY <1>4, <2>1, <3>1 DEF Agree
      <3> QED
        BY <3>2, FirstStays
    <2>2. CASE i = Len(u) + 1
      <3>1. \A j \in 1 .. Len(u) : j \in 1 .. i - 1
        BY SMTT(30), <2>2
      <3>2. \A k \in 1 .. Len(h) : h[k].late
        BY <1>4, <3>1 DEF Agree
      <3>3. /\ Len(h) + 1 \in DOMAIN Append(h, r) /\ Append(h, r)[Len(h) + 1] = r
            /\ \A j \in DOMAIN Append(h, r) :
                  j < Len(h) + 1 => j \in 1 .. Len(h) /\ Append(h, r)[j] = h[j]
        BY SMTT(30)
      <3> QED
        BY <2>2, <3>2, <3>3 DEF FirstNew
    <2>3. i \in 1 .. Len(u) \/ i = Len(u) + 1
      BY SMTT(30)
    <2> QED
      BY <2>1, <2>2, <2>3
  <1> QED
    BY <1>3, <1>4 DEF Agree

LEMMA UnreadFacts ==
    ASSUME MDNSInv
    PROVE  /\ Unread \in Seq(EventsOfOthers) /\ Len(Unread) \in Nat
           /\ Len(Unread) = Len(events) + Len(pending)
  BY SMTT(30) DEF MDNSInv, Unread

LEMMA HearKeeps ==
    ASSUME DInv, NEW e \in Entries, Hear(e)
    PROVE  DInv'
  <1> DEFINE r == [node |-> e.node, late |-> e.node \in DOMAIN peers]
  <1>1. /\ MDNSInv /\ MDNSInv' /\ e.node \in Nodes /\ pending = <<>>
        /\ heard \in Seq(HeardNodes) /\ UNCHANGED <<events, main, dropped, found>>
    BY SMTT(30), HandleEntryKeeps DEF DInv, Hear, handleEntry, Selecting, Entries
  <1>2. DOMAIN peers' = DOMAIN peers \cup {e.node}
    BY DEF Hear, handleEntry, Put
  <1>3. r \in HeardNodes /\ r.node = e.node /\ (r.late <=> e.node \in DOMAIN peers)
    <2>1. PICK b \in BOOLEAN : b = (e.node \in DOMAIN peers)
      <3>1. (e.node \in DOMAIN peers) \in BOOLEAN
        BY SMTT(30)
      <3> QED
        BY <3>1
    <2>2. [node |-> e.node, late |-> b] \in HeardNodes
      BY <1>1 DEF HeardNodes
    <2> QED
      BY <2>1, <2>2
  <1>4. PICK z \in HeardNodes : z = r
    BY <1>3
  <1>5. heard' = heard \/ (IsCoordinator(e.ad) /\ heard' = Append(heard, z))
    BY <1>4 DEF Hear
  <1>6. /\ heard' \in Seq(HeardNodes)
        /\ \A k \in 1 .. Len(heard') : heard'[k] = z \/ (k \in 1 .. Len(heard) /\ heard'[k] = heard[k])
    BY SMTT(30), <1>1, <1>5
  <1>7. \A k \in 1 .. Len(heard') : heard'[k].node \in DOMAIN peers'
    BY <1>2, <1>3, <1>4, <1>6 DEF DInv
  <1>8. ASSUME NEW n, FirstNew(heard, n)
        PROVE  FirstNew(heard', n)
    BY <1>1, <1>5, <1>8, FirstStays
  <1>9. PICK q \in Seq(EventsOfOthers) : q = events
    BY <1>1 DEF MDNSInv
  <1>10. Unread = q
    BY <1>1, <1>9 DEF Unread
  <1>11. ASSUME Agree(heard, Unread)
         PROVE  Agree(heard', Unread')
    <2>1. ASSUME NEW v, Agree(heard, v), e.node \in DOMAIN peers \/ ~IsCoordinator(e.ad)
          PROVE  Agree(heard', v)
      BY <1>1, <1>3, <1>4, <1>5, <2>1, LateHeard
    <2>2. CASE pending' = <<>>
      <3>1. e.node \in DOMAIN peers
        BY <2>2 DEF Hear, handleEntry
      <3>2. Unread' = q
        BY SMTT(30), <1>1, <1>9, <2>2 DEF Unread
      <3> QED
        BY <1>10, <1>11, <2>1, <3>1, <3>2
    <2>3. ASSUME NEW kind \in {"added", "updated"},
                 pending' = <<Event(kind, e.node, e.ad)>>,
                 kind = "added" <=> e.node \notin DOMAIN peers
          PROVE  Agree(heard', Unread')
      <3>1. Event(kind, e.node, e.ad) \in EventsOfOthers
        BY <1>1, <2>3 DEF MDNSInv
      <3>2. PICK ev \in EventsOfOthers : ev = Event(kind, e.node, e.ad)
        BY SMTT(30), <3>1
      <3>3. Unread' = q \o <<ev>>
        BY SMTT(30), <1>1, <1>9, <2>3, <3>2 DEF Unread
      <3>4. /\ Len(Unread') = Len(Unread) + 1 /\ Unread'[Len(Unread) + 1] = ev
            /\ \A i \in 1 .. Len(Unread) : Unread'[i] = Unread[i]
        BY <1>10, <3>3, QueueMoves
      <3>5. ev.node = e.node /\ ev.ad = e.ad /\ ev.kind = kind
        BY SMTT(30), <3>2 DEF Event
      <3>6. CASE Picks(ev)
        <4>1. e.node \notin DOMAIN peers /\ IsCoordinator(e.ad)
          BY <2>3, <3>5, <3>6 DEF Picks
        <4>2. \A k \in DOMAIN heard : heard[k].node # e.node
          BY <1>1, <4>1 DEF DInv
        <4>3. heard' = Append(heard, z)
          BY <1>4, <4>1, <4>2 DEF Hear
        <4> QED
          BY <1>1, <1>3, <1>4, <1>11, <3>4, <3>5, <3>6, <4>1, <4>3, UnreadFacts, NewInQueue
      <3>7. CASE ~Picks(ev)
        <4>1. Agree(heard, Unread')
          BY <1>1, <1>11, <3>4, <3>7, UnreadFacts, OtherInQueue
        <4>2. e.node \in DOMAIN peers \/ ~IsCoordinator(e.ad)
          BY <2>3, <3>5, <3>7 DEF Picks
        <4> QED
          BY <2>1, <4>1, <4>2
      <3> QED
        BY <3>6, <3>7
    <2>4. \/ pending' = <<>>
          \/ \E kind \in {"added", "updated"} :
                /\ pending' = <<Event(kind, e.node, e.ad)>>
                /\ kind = "added" <=> e.node \notin DOMAIN peers
      BY DEF Hear, handleEntry
    <2> QED
      BY <2>2, <2>3, <2>4
  <1> QED
    BY <1>1, <1>6, <1>7, <1>8, <1>11 DEF DInv

LEMMA EmitQueue ==
    ASSUME DInv, emit, UNCHANGED <<found, heard>>
    PROVE  DInv'
  <1>1. MDNSInv /\ MDNSInv' /\ main' = main /\ peers' = peers
    BY ZenonT(30), EmitKeeps DEF DInv, emit
  <1>2. CASE dropped'
    BY <1>1, <1>2 DEF DInv
  <1>3. CASE ~dropped'
    <2>1. /\ dropped' = dropped /\ events' = Append(events, Head(pending))
          /\ pending # <<>> /\ pending' = Tail(pending)
      BY SMTT(30), <1>3 DEF emit
    <2>2. PICK s \in Seq(EventsOfOthers), t \in Seq(EventsOfOthers) : s = events /\ t = pending
      BY SMTT(30), <1>1 DEF MDNSInv
    <2>3. Unread = s \o t /\ Unread' = Append(s, Head(t)) \o Tail(t) /\ t # <<>>
      BY <2>1, <2>2 DEF Unread
    <2>4. Len(Unread') = Len(Unread) /\ \A i \in 1 .. Len(Unread) : Unread'[i] = Unread[i]
      BY <2>3, QueueMoves
    <2>5. Agree(heard, Unread) => Agree(heard, Unread')
      BY <1>1, <2>4, UnreadFacts, SameQueue
    <2> QED
      BY <1>1, <2>1, <2>5 DEF DInv
  <1> QED
    BY SMTT(30), <1>2, <1>3

LEMMA LookKeeps ==
    ASSUME DInv, Look
    PROVE  DInv'
  <1>1. /\ MDNSInv /\ main = "receiving" /\ found = <<>> /\ events # <<>>
        /\ events' = Tail(events) /\ heard \in Seq(HeardNodes)
        /\ UNCHANGED <<peers, pending, tick, loop, view, dropped, heard>>
    BY SMTT(30) DEF DInv, Look
  <1>2. PICK s \in Seq(EventsOfOthers), t \in Seq(EventsOfOthers) : s = events /\ t = pending
    BY <1>1 DEF MDNSInv
  <1>3. Unread = s \o t /\ Unread' = Tail(s) \o t /\ s # <<>>
    BY SMTT(30), <1>1, <1>2 DEF Unread
  <1>4. /\ Len(Unread') = Len(Unread) - 1 /\ Head(events) = Unread[1]
        /\ Len(Unread) \in Nat \ {0}
        /\ \A i \in 1 .. Len(Unread') : Unread'[i] = Unread[i + 1]
    <2>1. Len(s) \in Nat \ {0} /\ Len(t) \in Nat
      BY SMTT(30), <1>3
    <2> QED
      BY <1>2, <1>3, <2>1, QueueMoves
  <1>5. MDNSInv'
    <2>1. /\ events' \in Seq(EventsOfOthers) /\ events' \in Seq(Events)
          /\ Len(events') = Len(events) - 1 /\ Len(events) \in Nat
      BY <1>1 DEF MDNSInv, TypeOK
    <2>2. main' \in {"receiving", "stopping", "stopped"} /\ ctxDone' \in BOOLEAN
      BY <1>1 DEF MDNSInv, TypeOK, Look
    <2> QED
      BY <1>1, <2>1, <2>2, MDNSAssumption DEF MDNSInv, TypeOK
  <1>6. CASE Picks(Head(events))
    <2>1. found' = <<Head(events)>> /\ main' = "stopping"
      BY <1>6 DEF Look
    <2>2. found' # <<>> /\ found'[1] = Head(events)
      BY SMTT(30), <2>1
    <2>3. ASSUME ~dropped
          PROVE  FirstNew(heard, Head(events).node)
      <3>1. Agree(heard, Unread)
        BY <1>1, <2>3 DEF DInv
      <3>2. 1 \in 1 .. Len(Unread) /\ Picks(Unread[1])
        BY <1>4, <1>6
      <3>3. \A j \in 1 .. 1 - 1 : ~Picks(Unread[j])
        OBVIOUS
      <3>4. FirstNew(heard, Unread[1].node)
        BY <3>1, <3>2, <3>3 DEF Agree
      <3> QED
        BY <1>4, <3>4
    <2> QED
      BY SMTT(30), <1>1, <1>5, <2>1, <2>2, <2>3 DEF DInv
  <1>7. CASE ~Picks(Head(events))
    <2>1. UNCHANGED <<found, main>>
      BY SMTT(30), <1>7 DEF Look
    <2>2. Agree(heard, Unread) => Agree(heard, Unread')
      BY <1>1, <1>4, <1>7, HeadPassed
    <2> QED
      BY <1>1, <1>5, <2>1, <2>2 DEF DInv
  <1> QED
    BY <1>6, <1>7

\* The steps that leave the queue alone.
LEMMA OthersKeep ==
    ASSUME DInv, loopReturn \/ signal \/ Stop \/ StopReturns \/ UNCHANGED vars,
           UNCHANGED <<found, heard>>
    PROVE  DInv'
  <1>1. /\ MDNSInv /\ MDNSInv' /\ UNCHANGED <<peers, events, pending, dropped>>
        /\ main' = "receiving" => main = "receiving"
    BY RestKeeps DEF DInv, loopReturn, signal, Stop, StopReturns, vars
  <1>2. Unread' = Unread
    BY <1>1 DEF Unread
  <1>3. Agree(heard, Unread) => Agree(heard, Unread')
    BY <1>1, <1>2, UnreadFacts, SameQueue
  <1> QED
    BY SMTT(30), <1>1, <1>3 DEF DInv

\* DInv is inductive.
THEOREM DiscoverInvariance == DiscoverSpec => []DInv
  <1>1. DiscoverInit => DInv
    <2> SUFFICES ASSUME DiscoverInit PROVE DInv
      OBVIOUS
    <2>1. MDNSInv /\ found = <<>> /\ heard = <<>> /\ events = <<>> /\ pending = <<>>
      BY InitMDNS DEF DiscoverInit, Init
    <2>2. Len(Unread) = 0
      BY <2>1, UnreadFacts
    <2>3. Len(heard) = 0 /\ heard \in Seq(HeardNodes) /\ 1 .. 0 = {}
      BY SMTT(30), <2>1
    <2>4. Agree(heard, Unread)
      BY <2>2, <2>3 DEF Agree
    <2> QED
      BY <2>1, <2>3, <2>4 DEF DInv
  <1>2. DInv /\ [DiscoverNext]_discoverVars => DInv'
    BY HearKeeps, EmitQueue, LookKeeps, OthersKeep
    DEF DiscoverNext, Loop, Timeout, GiveUp, Finish, discoverVars
  <1> QED
    BY <1>1, <1>2, PTL DEF DiscoverSpec

\* discoverCoordinator passes over a node that advertises a pairing port in favour of
\* a later one only if it had known the node without the port, for any number of
\* nodes and any interleaving of the loop with the search.
THEOREM FirstNewIsFound == DiscoverSpec => []OnlyLatePassedOver
  <1>1. DInv => OnlyLatePassedOver
    BY DEF DInv, OnlyLatePassedOver
  <1> QED
    BY <1>1, DiscoverInvariance, PTL

\* A search of discoverCoordinator that times out leaves the event of every
\* coordinator heard of unread, but of the nodes it had known without the port: no
\* other was passed over.
THEOREM NobodyPassedOver == DiscoverSpec => []MissExplained
  <1>1. DInv => MissExplained
    <2> SUFFICES ASSUME DInv, found = <<>>, ~dropped, NEW k \in DOMAIN heard, ~heard[k].late
                 PROVE  \E i \in DOMAIN Unread :
                           Unread[i].node = heard[k].node /\ Unread[i].kind = "added"
      BY DEF MissExplained
    <2>1. k \in 1 .. Len(heard)
      BY DEF DInv
    <2>2. PICK i \in 1 .. Len(Unread) : Picks(Unread[i]) /\ Unread[i].node = heard[k].node
      BY <2>1 DEF DInv, Agree
    <2>3. DOMAIN Unread = 1 .. Len(Unread)
      BY SMTT(30), UnreadFacts DEF DInv
    <2> QED
      BY <2>2, <2>3 DEF Picks
  <1> QED
    BY <1>1, DiscoverInvariance, PTL
=============================================================================
