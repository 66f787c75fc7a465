---------------------------- MODULE PairerProofs ----------------------------
(***************************************************************************)
(* Proofs about Pairer, for every number of codes, session ids and         *)
(* goroutines and every value of the limits.                               *)
(***************************************************************************)
EXTENDS Pairer, DataTheorems, FiniteSetTheorems, TLAPS

\* Leaves are for Zenon; one that needs arithmetic, or is too large, names SMT.
USE Zenon

\* The inductive invariant.  TypeOK needs RateLimitSlack: it is what leaves a
\* free slot for the failure that CompleteMismatch records.
IInv ==
    /\ TypeOK
    /\ SingleUse
    /\ OneAttemptPerSession
    /\ SessionsBounded
    /\ RateLimitSlack

-----------------------------------------------------------------------------
\* gcLocked only deletes.
LEMMA GcTypes ==
    ASSUME TypeOK
    PROVE  /\ gcCodes \in PartialFunctions(Codes, CodeTimeLeft)
           /\ DOMAIN gcCodes = {c \in DOMAIN codes : codes[c] >= 0}
           /\ gcSessions \in PartialFunctions(SessionIDs, SessionTimeLeft)
           /\ DOMAIN gcSessions \subseteq DOMAIN sessions
           /\ gcFailures \in PartialFunctions(FailureSlots, Age)
           /\ DOMAIN gcFailures \subseteq DOMAIN failures
  <1>1. /\ gcCodes \in PartialFunctions(Codes, CodeTimeLeft)
        /\ DOMAIN gcCodes = {c \in DOMAIN codes : codes[c] >= 0}
    <2> DEFINE D == {c \in DOMAIN codes : codes[c] >= 0}
    <2>1. D \in SUBSET DOMAIN codes /\ codes \in PartialFunctions(Codes, CodeTimeLeft)
      BY DEF TypeOK
    <2> HIDE DEF D
    <2>2. /\ Restrict(codes, D) \in PartialFunctions(Codes, CodeTimeLeft)
          /\ DOMAIN Restrict(codes, D) = D
      BY SMTT(30), <2>1, RestrictType
    <2>3. QED
      BY <2>2 DEF gcCodes, D
  <1>2. /\ gcSessions \in PartialFunctions(SessionIDs, SessionTimeLeft)
        /\ DOMAIN gcSessions \subseteq DOMAIN sessions
    <2> DEFINE D == {s \in DOMAIN sessions : sessions[s] >= 0}
    <2>1. D \in SUBSET DOMAIN sessions
      OBVIOUS
    <2>2. sessions \in PartialFunctions(SessionIDs, SessionTimeLeft)
      BY DEF TypeOK
    <2> HIDE DEF D
    <2>3. /\ Restrict(sessions, D) \in PartialFunctions(SessionIDs, SessionTimeLeft)
          /\ DOMAIN Restrict(sessions, D) = D
      BY SMTT(30), <2>1, <2>2, RestrictType
    <2>4. QED
      BY <2>1, <2>3 DEF gcSessions, D
  <1>3. /\ gcFailures \in PartialFunctions(FailureSlots, Age)
        /\ DOMAIN gcFailures \subseteq DOMAIN failures
    <2> DEFINE D == {i \in DOMAIN failures : failures[i] < FailureWindow}
    <2>1. D \in SUBSET DOMAIN failures
      OBVIOUS
    <2>2. failures \in PartialFunctions(FailureSlots, Age)
      BY DEF TypeOK
    <2> HIDE DEF D
    <2>3. /\ Restrict(failures, D) \in PartialFunctions(FailureSlots, Age)
          /\ DOMAIN Restrict(failures, D) = D
      BY SMTT(30), <2>1, <2>2, RestrictType
    <2>4. QED
      BY <2>1, <2>3 DEF gcFailures, D
  <1>4. QED
    BY <1>1, <1>2, <1>3

-----------------------------------------------------------------------------
(***************************************************************************)
(* Counting.                                                               *)
(***************************************************************************)

\* Everything that is counted is finite.
LEMMA Finiteness ==
    ASSUME TypeOK
    PROVE  /\ IsFiniteSet(DOMAIN sessions)
           /\ IsFiniteSet(DOMAIN failures)
           /\ IsFiniteSet(Deriving)
           /\ IsFiniteSet(FailureSlots)
           /\ Cardinality(FailureSlots) = MaxFailures + Cardinality(Callers) - 1
           /\ Cardinality(Callers) \in Nat
  <1>1. Cardinality(Callers) \in Nat
    BY FS_CardinalityType, SetsAssumption
  <1>2. MaxFailures + Cardinality(Callers) - 1 \in Nat
    BY SMTT(30), <1>1, LimitsAssumption
  <1>3. /\ IsFiniteSet(FailureSlots)
        /\ Cardinality(FailureSlots) = MaxFailures + Cardinality(Callers) - 1
    BY SMTT(30), <1>2, FS_Interval DEF FailureSlots
  <1>4. DOMAIN sessions \subseteq SessionIDs /\ DOMAIN failures \subseteq FailureSlots
    BY PartialFunctionElim DEF TypeOK
  <1>5. Deriving \subseteq Callers
    BY DEF Deriving
  <1>6. QED
    BY <1>1, <1>2, <1>3, <1>4, <1>5, FS_Subset, SetsAssumption

\* While a Complete is deriving, the failure slice has room for its failure.
LEMMA FreeSlot ==
    ASSUME TypeOK, RateLimitSlack, NEW g \in Callers, call[g].pc = "deriving"
    PROVE  \E i \in FailureSlots : i \notin DOMAIN failures
  <1>1. g \in Deriving
    BY DEF Deriving
  <1>2. Cardinality(Deriving) \in Nat /\ Cardinality(Deriving) # 0
    BY <1>1, Finiteness, FS_CardinalityType, FS_EmptySet
  <1>3. Count(failures) \in Nat
    BY Finiteness, FS_CardinalityType DEF Count
  <1>4. Count(failures) < MaxFailures + Cardinality(Callers) - 1
    BY SMTT(30), <1>2, <1>3, Finiteness, LimitsAssumption DEF RateLimitSlack
  <1>5. DOMAIN failures # FailureSlots
    BY SMTT(30), <1>3, <1>4, Finiteness, LimitsAssumption DEF Count
  <1>6. DOMAIN failures \subseteq FailureSlots
    BY PartialFunctionElim DEF TypeOK
  <1>7. QED
    BY <1>5, <1>6

\* The state of a goroutine is settled by its program counter.
LEMMA CallShape ==
    ASSUME TypeOK, NEW g \in Callers
    PROVE  /\ call[g] \in CallStates
           /\ call[g].pc \in {"idle", "issuing", "deriving", "signing"}
           /\ call[g].pc = "idle" => call[g] = IdleCall
           /\ call[g].pc = "issuing" =>
                 call[g] \in [pc : {"issuing"}, code : Codes, left : CodeTimeLeft]
           /\ call[g].pc = "deriving" =>
                 call[g] \in [pc : {"deriving"}, sid : SessionIDs,
                              matched : Codes \cup {NoCode}]
           /\ call[g].pc = "signing" =>
                 call[g] \in [pc : {"signing"}, sid : SessionIDs, code : Codes]
  BY SMTT(30) DEF TypeOK, CallStates, IdleCall

\* Moving one goroutine to a legal state keeps the type of call.
LEMMA CallUpdate ==
    ASSUME TypeOK, NEW g \in Callers, NEW r \in CallStates
    PROVE  [call EXCEPT ![g] = r] \in [Callers -> CallStates]
  BY DEF TypeOK

-----------------------------------------------------------------------------
(***************************************************************************)
(* Type correctness.                                                       *)
(***************************************************************************)

\* The initial state is well typed.
LEMMA InitType == Init => TypeOK
  <1>1. SUFFICES ASSUME Init PROVE TypeOK
    OBVIOUS
  <1>2. /\ codes \in PartialFunctions(Codes, CodeTimeLeft)
        /\ sessions \in PartialFunctions(SessionIDs, SessionTimeLeft)
        /\ failures \in PartialFunctions(FailureSlots, Age)
    BY <1>1, EmptyType DEF Init
  <1>3. call \in [Callers -> CallStates]
    BY <1>1 DEF Init, CallStates
  <1>4. reply \in Replies /\ uses \in [Codes -> Nat]
    BY <1>1 DEF Init, Replies
  <1>5. QED
    BY <1>2, <1>3, <1>4 DEF TypeOK

\* A request that starts, or is refused, keeps the types.
LEMMA RequestType ==
    ASSUME TypeOK, NEW g \in Callers, Request(g)
    PROVE  TypeOK'
  <1> USE DEF TypeOK
  <1>1. ASSUME NEW ttl \in TTLRequests, CreatePairingCodeRefused(g, ttl)
        PROVE  TypeOK'
    BY <1>1 DEF CreatePairingCodeRefused, Replies
  <1>2. ASSUME NEW ttl \in TTLRequests, NEW c \in Codes, IssueDraw(g, ttl, c)
        PROVE  TypeOK'
    <2>1. TTL(ttl) \in CodeTimeLeft
      BY SMTT(30), <1>2, TTLAssumption DEF IssueDraw, TTL, CodeTimeLeft
    <2>2. [pc |-> "issuing", code |-> c, left |-> TTL(ttl)] \in CallStates
      BY <2>1 DEF CallStates
    <2>3. QED
      BY <1>2, <2>2, CallUpdate DEF IssueDraw, Replies
  <1>3. CASE ActiveCodes(g)
    BY <1>3, GcTypes DEF ActiveCodes, gcLocked, Replies
  <1>4. CASE BeginRefused(g)
    <2>1. reply' \in Replies
      BY <1>4 DEF BeginRefused, BeginRefusal, Replies
    <2>2. QED
      BY <1>4, <2>1, GcTypes DEF BeginRefused, gcLocked
  <1>5. ASSUME NEW s \in SessionIDs, Begin(g, s)
        PROVE  TypeOK'
    <2>1. SessionTTL \in SessionTimeLeft
      BY SMTT(30), TTLAssumption DEF SessionTimeLeft
    <2>2. Put(gcSessions, s, SessionTTL)
             \in PartialFunctions(SessionIDs, SessionTimeLeft)
      BY <2>1, GcTypes, PutType
    <2>3. QED
      BY <1>5, <2>2, GcTypes DEF Begin, Replies
  <1>6. ASSUME NEW s \in SessionIDs
        PROVE  Delete(gcSessions, s)
                  \in PartialFunctions(SessionIDs, SessionTimeLeft)
    BY GcTypes, RestrictType DEF Delete
  <1>7. ASSUME NEW s \in SessionIDs, CompleteRefused(g, s)
        PROVE  TypeOK'
    BY <1>6, <1>7, GcTypes DEF CompleteRefused, Replies
  <1>8. ASSUME NEW s \in SessionIDs, NEW guess \in Codes \cup {NoCode},
               CompleteLookup(g, s, guess)
        PROVE  TypeOK'
    <2> DEFINE m == IF guess \in DOMAIN gcCodes THEN guess ELSE NoCode
    <2>1. [pc |-> "deriving", sid |-> s, matched |-> m] \in CallStates
      BY DEF CallStates
    <2>2. call' \in [Callers -> CallStates]
      BY <1>8, <2>1, CallUpdate DEF CompleteLookup
    <2>3. QED
      BY <1>6, <1>8, <2>2, GcTypes DEF CompleteLookup, Replies
  <1>9. QED
    BY <1>1, <1>2, <1>3, <1>4, <1>5, <1>7, <1>8 DEF Request

\* So does a goroutine that goes on; the recorded failure finds a free slot.
LEMMA AdvanceType ==
    ASSUME TypeOK, RateLimitSlack, NEW g \in Callers, Advance(g)
    PROVE  TypeOK'
  <1>1. IdleCall \in CallStates
    BY DEF CallStates
  <1>2. CASE IssueStore(g)
    <2>1. call[g].code \in Codes /\ call[g].left \in CodeTimeLeft
      BY <1>2, CallShape DEF IssueStore
    <2>2. codes' \in PartialFunctions(Codes, CodeTimeLeft)
      <3>1. Put(gcCodes, call[g].code, call[g].left) \in PartialFunctions(Codes, CodeTimeLeft)
        BY <2>1, GcTypes, PutType
      <3> QED
        BY <1>2, <3>1 DEF IssueStore
    <2>3. uses' \in [Codes -> Nat]
      BY <1>2 DEF IssueStore, TypeOK
    <2>4. QED
      BY <1>1, <1>2, <2>2, <2>3, GcTypes, CallUpdate
         DEF IssueStore, TypeOK, Replies
  <1>3. CASE CompleteMismatch(g)
    <2> DEFINE slot == CHOOSE i \in FailureSlots : i \notin DOMAIN failures
    <2>1. slot \in FailureSlots
      BY <1>3, FreeSlot DEF CompleteMismatch
    <2>2. 0 \in Age
      BY SMTT(30), LimitsAssumption DEF Age
    <2>3. failures' \in PartialFunctions(FailureSlots, Age)
      BY <1>3, <2>1, <2>2, PutType DEF CompleteMismatch, TypeOK
    <2>4. QED
      BY <1>1, <1>3, <2>3, CallUpdate DEF CompleteMismatch, TypeOK, Replies
  <1>4. CASE CompleteRaced(g)
    BY <1>1, <1>4, CallUpdate DEF CompleteRaced, TypeOK, Replies
  <1>5. CASE CompleteConsume(g)
    <2>1. call[g].sid \in SessionIDs
      BY <1>5, CallShape DEF CompleteConsume
    <2>2. call[g].matched \in Codes
      BY SMTT(30), <1>5, PartialFunctionElim DEF CompleteConsume, TypeOK
    <2>3. [pc |-> "signing", sid |-> call[g].sid, code |-> call[g].matched]
             \in CallStates
      BY <2>1, <2>2 DEF CallStates
    <2>4. codes' \in PartialFunctions(Codes, CodeTimeLeft)
      BY SMTT(30), <1>5, RestrictType DEF CompleteConsume, Delete, TypeOK
    <2>5. uses' \in [Codes -> Nat]
      BY SMTT(30), <1>5, <2>2 DEF CompleteConsume, TypeOK
    <2>6. QED
      BY <1>5, <2>3, <2>4, <2>5, CallUpdate
         DEF CompleteConsume, TypeOK, Replies
  <1>6. ASSUME NEW kind \in CSRKinds, CompleteSign(g, kind)
        PROVE  TypeOK'
    <2>1. SignCSR(kind) \in Replies
      BY DEF SignCSR, CSRKinds, Replies
    <2>2. QED
      BY <1>1, <1>6, <2>1, CallUpdate DEF CompleteSign, TypeOK
  <1>7. QED
    BY <1>2, <1>3, <1>4, <1>5, <1>6 DEF Advance

\* Time only moves deadlines and ages within their ranges.
LEMMA TickType ==
    ASSUME TypeOK, Tick
    PROVE  /\ TypeOK'
           /\ DOMAIN codes' = DOMAIN codes
           /\ DOMAIN sessions' = DOMAIN sessions
           /\ DOMAIN failures' = DOMAIN failures
  <1>1. /\ codes' \in PartialFunctions(Codes, CodeTimeLeft)
        /\ DOMAIN codes' = DOMAIN codes
    <2>1. \A c \in DOMAIN codes : Elapse(codes[c]) \in CodeTimeLeft
      BY SMTT(30), PartialFunctionElim, TTLAssumption DEF TypeOK, Elapse, CodeTimeLeft
    <2>2. codes' \in [DOMAIN codes -> CodeTimeLeft]
      BY <2>1 DEF Tick
    <2>3. DOMAIN codes \in SUBSET Codes
      BY PartialFunctionElim DEF TypeOK
    <2>4. QED
      BY <2>2, <2>3, PartialFunctionIntro
  <1>2. /\ sessions' \in PartialFunctions(SessionIDs, SessionTimeLeft)
        /\ DOMAIN sessions' = DOMAIN sessions
    <2>1. \A s \in DOMAIN sessions : Elapse(sessions[s]) \in SessionTimeLeft
      BY SMTT(30), PartialFunctionElim, TTLAssumption DEF TypeOK, Elapse, SessionTimeLeft
    <2>2. sessions' \in [DOMAIN sessions -> SessionTimeLeft]
      BY <2>1 DEF Tick
    <2>3. DOMAIN sessions \in SUBSET SessionIDs
      BY PartialFunctionElim DEF TypeOK
    <2>4. QED
      BY <2>2, <2>3, PartialFunctionIntro
  <1>3. /\ failures' \in PartialFunctions(FailureSlots, Age)
        /\ DOMAIN failures' = DOMAIN failures
    <2>1. \A i \in DOMAIN failures : failures[i] \in Age
      BY PartialFunctionElim DEF TypeOK
    <2>2. failures' \in [DOMAIN failures -> Age]
      BY SMTT(30), <2>1, LimitsAssumption DEF Tick, Age
    <2>3. DOMAIN failures \in SUBSET FailureSlots
      BY PartialFunctionElim DEF TypeOK
    <2>4. QED
      BY <2>2, <2>3, PartialFunctionIntro
  <1>4. call' \in [Callers -> CallStates]
    <2>1. ASSUME NEW g \in Callers, call[g].pc = "issuing"
          PROVE  [call[g] EXCEPT !.left = Elapse(@)] \in CallStates
      BY SMTT(30), <2>1, CallShape, TTLAssumption DEF CallStates, Elapse, CodeTimeLeft
    <2>2. ASSUME NEW g \in Callers
          PROVE  call[g] \in CallStates
      BY <2>2, CallShape
    <2>3. QED
      BY <2>1, <2>2 DEF Tick
  <1>5. reply' \in Replies /\ uses' \in [Codes -> Nat]
    BY DEF Tick, Replies, TypeOK
  <1>6. QED
    BY <1>1, <1>2, <1>3, <1>4, <1>5 DEF TypeOK

\* A new Pairer is empty.
LEMMA RestartType ==
    ASSUME TypeOK, Restart
    PROVE  /\ TypeOK'
           /\ DOMAIN codes' = {}
           /\ DOMAIN sessions' = {}
           /\ DOMAIN failures' = {}
  <1>1. /\ codes' \in PartialFunctions(Codes, CodeTimeLeft)
        /\ sessions' \in PartialFunctions(SessionIDs, SessionTimeLeft)
        /\ failures' \in PartialFunctions(FailureSlots, Age)
    BY EmptyType DEF Restart
  <1>2. call' \in [Callers -> CallStates]
    BY DEF Restart, CallStates
  <1>3. reply' \in Replies /\ uses' \in [Codes -> Nat]
    BY DEF Restart, Replies, TypeOK
  <1>4. QED
    BY <1>1, <1>2, <1>3, EmptyType DEF TypeOK, Restart

\* Every step keeps the types.
LEMMA StepType ==
    ASSUME TypeOK, RateLimitSlack, [Next]_vars
    PROVE  TypeOK'
  <1>1. CASE UNCHANGED vars
    BY <1>1 DEF vars, TypeOK
  <1>2. CASE Next
    BY <1>2, RequestType, AdvanceType, TickType, RestartType DEF Next
  <1>3. QED
    BY <1>1, <1>2

-----------------------------------------------------------------------------
(***************************************************************************)
(* A code is single-use.                                                   *)
(***************************************************************************)

\* Steps that consume no code and issue none can only take codes away.
LEMMA FewerCodes ==
    ASSUME SingleUse, DOMAIN codes' \subseteq DOMAIN codes, uses' = uses,
           uses \in [Codes -> Nat]
    PROVE  SingleUse'
  BY SMTT(30) DEF SingleUse

\* No step makes a code usable twice.
LEMMA StepSingleUse ==
    ASSUME TypeOK, SingleUse, [Next]_vars
    PROVE  SingleUse'
  <1>1. CASE UNCHANGED vars
    BY <1>1 DEF vars, SingleUse
  <1>2. ASSUME NEW g \in Callers, Request(g)
        PROVE  SingleUse'
    <2>1. uses' = uses
      BY <1>2 DEF Request, CreatePairingCodeRefused, IssueDraw, ActiveCodes,
                  BeginRefused, Begin, CompleteRefused, CompleteLookup
    <2>2. codes' = codes \/ codes' = gcCodes
      BY <1>2 DEF Request, CreatePairingCodeRefused, IssueDraw, ActiveCodes,
                  BeginRefused, Begin, CompleteRefused, CompleteLookup, gcLocked
    <2>3. QED
      BY <2>1, <2>2, GcTypes, FewerCodes DEF TypeOK
  <1>3. ASSUME NEW g \in Callers, IssueStore(g)
        PROVE  SingleUse'
    <2>1. call[g].code \in Codes /\ call[g].left \in CodeTimeLeft
      BY <1>3, CallShape DEF IssueStore
    <2>2. DOMAIN codes' = DOMAIN gcCodes \cup {call[g].code}
      BY <1>3 DEF IssueStore, Put
    <2>3. uses' = [uses EXCEPT ![call[g].code] = 0]
      BY <1>3 DEF IssueStore
    <2>4. DOMAIN gcCodes \subseteq DOMAIN codes
      BY GcTypes
    <2>5. QED
      BY SMTT(30), <2>1, <2>2, <2>3, <2>4 DEF SingleUse, TypeOK
  <1>4. ASSUME NEW g \in Callers, CompleteConsume(g)
        PROVE  SingleUse'
    <2>1. call[g].matched \in DOMAIN codes /\ call[g].matched \in Codes
      BY SMTT(30), <1>4, PartialFunctionElim DEF CompleteConsume, TypeOK
    <2>2. DOMAIN codes' = DOMAIN codes \ {call[g].matched}
      BY SMTT(30), <1>4, RestrictType DEF CompleteConsume, Delete, TypeOK
    <2>3. uses' = [uses EXCEPT ![call[g].matched] = @ + 1]
      BY <1>4 DEF CompleteConsume
    <2>4. QED
      BY SMTT(30), <2>1, <2>2, <2>3 DEF SingleUse, TypeOK
  <1>5. ASSUME NEW g \in Callers,
               \/ CompleteMismatch(g)
               \/ CompleteRaced(g)
               \/ \E kind \in CSRKinds : CompleteSign(g, kind)
        PROVE  SingleUse'
    BY <1>5, FewerCodes DEF CompleteMismatch, CompleteRaced, CompleteSign, TypeOK
  <1>6. CASE Tick
    BY <1>6, TickType, FewerCodes DEF Tick, TypeOK
  <1>7. CASE Restart
    BY <1>7, RestartType, FewerCodes DEF Restart, TypeOK
  <1>8. QED
    BY <1>1, <1>2, <1>3, <1>4, <1>5, <1>6, <1>7 DEF Next, Advance

-----------------------------------------------------------------------------
(***************************************************************************)
(* A session gets one attempt, and there are at most MaxSessions of them.  *)
(***************************************************************************)

\* Steps that start no attempt and open no session keep both session
\* invariants.
LEMMA FewerAttempts ==
    ASSUME TypeOK, OneAttemptPerSession, SessionsBounded,
           DOMAIN sessions' \subseteq DOMAIN sessions,
           InFlight' \subseteq InFlight,
           \A g \in InFlight' : call'[g].sid = call[g].sid
    PROVE  OneAttemptPerSession' /\ SessionsBounded'
  <1>1. OneAttemptPerSession'
    BY DEF OneAttemptPerSession
  <1>2. Count(sessions)' <= Count(sessions)
    BY Finiteness, FS_Subset DEF Count
  <1>3. Count(sessions)' \in Nat /\ Count(sessions) \in Nat
    BY Finiteness, FS_Subset, FS_CardinalityType DEF Count
  <1>4. QED
    BY SMTT(30), <1>1, <1>2, <1>3, LimitsAssumption DEF SessionsBounded
  
\* No step gives a session a second attempt or opens one session too many.
LEMMA StepSessions ==
    ASSUME TypeOK, OneAttemptPerSession, SessionsBounded, [Next]_vars
    PROVE  OneAttemptPerSession' /\ SessionsBounded'
  <1>1. CASE UNCHANGED vars
    BY <1>1 DEF vars, OneAttemptPerSession, SessionsBounded, InFlight, Count
  <1>2. ASSUME NEW g \in Callers,
               \/ \E ttl \in TTLRequests : CreatePairingCodeRefused(g, ttl)
               \/ ActiveCodes(g)
               \/ BeginRefused(g)
               \/ \E s \in SessionIDs : CompleteRefused(g, s)
        PROVE  OneAttemptPerSession' /\ SessionsBounded'
    <2>1. call' = call
      BY <1>2 DEF CreatePairingCodeRefused, ActiveCodes, BeginRefused,
                  CompleteRefused
    <2>2. DOMAIN sessions' \subseteq DOMAIN sessions
      <3>1. sessions' = sessions \/ sessions' = gcSessions
               \/ \E s \in SessionIDs : sessions' = Delete(gcSessions, s)
        BY <1>2 DEF CreatePairingCodeRefused, ActiveCodes, BeginRefused,
                    CompleteRefused, gcLocked
      <3>2. QED
        BY <3>1, GcTypes DEF Delete, Restrict
    <2>3. QED
      BY <2>1, <2>2, FewerAttempts DEF InFlight
  <1>3. ASSUME NEW g \in Callers, NEW ttl \in TTLRequests, NEW c \in Codes,
               IssueDraw(g, ttl, c)
        PROVE  OneAttemptPerSession' /\ SessionsBounded'
    <2>1. call' = [call EXCEPT ![g] = [pc |-> "issuing", code |-> c,
                                       left |-> TTL(ttl)]]
      BY <1>3 DEF IssueDraw
    <2>2. InFlight' \subseteq InFlight /\ \A h \in InFlight' : call'[h] = call[h]
      BY <2>1 DEF InFlight, TypeOK
    <2>3. sessions' = sessions
      BY <1>3 DEF IssueDraw
    <2>4. QED
      BY <2>2, <2>3, FewerAttempts
  <1>4. ASSUME NEW g \in Callers, NEW s \in SessionIDs, Begin(g, s)
        PROVE  OneAttemptPerSession' /\ SessionsBounded'
    <2>1. call' = call /\ \A h \in InFlight : call[h].sid # s
      BY <1>4 DEF Begin
    <2>2. DOMAIN sessions' = DOMAIN gcSessions \cup {s}
      BY <1>4 DEF Begin, Put
    <2>3. OneAttemptPerSession'
      BY <2>1, <2>2, GcTypes DEF OneAttemptPerSession, InFlight
    <2>4. Cardinality(DOMAIN gcSessions) < MaxSessions
      <3>1. ~(Count(gcSessions) >= MaxSessions)
        BY <1>4 DEF Begin, BeginRefusal
      <3>2. Cardinality(DOMAIN gcSessions) \in Nat
        BY GcTypes, Finiteness, FS_Subset, FS_CardinalityType
      <3>3. QED
        BY SMTT(30), <3>1, <3>2, LimitsAssumption DEF Count
    <2>5. IsFiniteSet(DOMAIN gcSessions)
      BY GcTypes, Finiteness, FS_Subset
    <2>6. Cardinality(DOMAIN sessions') <= MaxSessions
      <3>1. /\ Cardinality(DOMAIN gcSessions \cup {s})
                  <= Cardinality(DOMAIN gcSessions) + 1
            /\ Cardinality(DOMAIN gcSessions \cup {s}) \in Nat
            /\ Cardinality(DOMAIN gcSessions) \in Nat
        BY <2>5, AddOne
      <3>2. QED
        BY SMTT(30), <2>2, <2>4, <3>1, LimitsAssumption
    <2>7. QED
      BY <2>3, <2>6 DEF SessionsBounded, Count
  <1>5. ASSUME NEW g \in Callers, NEW s \in SessionIDs,
               NEW guess \in Codes \cup {NoCode}, CompleteLookup(g, s, guess)
        PROVE  OneAttemptPerSession' /\ SessionsBounded'
    <2>1. DOMAIN sessions' = DOMAIN gcSessions \ {s}
      BY <1>5 DEF CompleteLookup, Delete, Restrict
    <2>2. s \in DOMAIN sessions /\ s \notin DOMAIN sessions'
      BY <1>5, <2>1, GcTypes DEF CompleteLookup
    <2>3. /\ call'[g].sid = s
          /\ \A h \in Callers \ {g} : call'[h] = call[h]
      BY <1>5 DEF CompleteLookup, TypeOK
    <2>4. InFlight' \subseteq InFlight \cup {g}
      BY <2>3 DEF InFlight
    <2>5. \A h \in InFlight' \ {g} : call'[h].sid # s
      BY <2>2, <2>3, <2>4 DEF OneAttemptPerSession, InFlight
    <2>6. DOMAIN sessions' \subseteq DOMAIN sessions
      BY <2>1, GcTypes
    <2>7. OneAttemptPerSession'
      <3>1. ASSUME NEW h \in InFlight' \ {g}
            PROVE  /\ call'[h].sid \notin DOMAIN sessions'
                   /\ \A k \in InFlight' \ {h} : call'[k].sid # call'[h].sid
        <4>1. h \in InFlight /\ call'[h] = call[h] /\ h # g
          BY <3>1, <2>3, <2>4 DEF InFlight
        <4>2. call'[h].sid \notin DOMAIN sessions'
          BY <4>1, <2>6 DEF OneAttemptPerSession
        <4>3. ASSUME NEW k \in InFlight' \ {h}
              PROVE  call'[k].sid # call'[h].sid
          <5>1. CASE k = g
            BY <5>1, <2>3, <2>5, <3>1
          <5>2. CASE k # g
            BY <5>2, <4>1, <4>3, <2>3, <2>4 DEF OneAttemptPerSession, InFlight
          <5>3. QED
            BY <5>1, <5>2
        <4>4. QED
          BY <4>2, <4>3
      <3>2. QED
        BY <3>1, <2>2, <2>3, <2>5 DEF OneAttemptPerSession
    <2>8. SessionsBounded'
      <3>1. Count(sessions)' <= Count(sessions)
        BY <2>6, Finiteness, FS_Subset DEF Count
      <3>2. Count(sessions)' \in Nat /\ Count(sessions) \in Nat
        BY <2>6, Finiteness, FS_Subset, FS_CardinalityType DEF Count
      <3>3. QED
        BY SMTT(30), <3>1, <3>2, LimitsAssumption DEF SessionsBounded
    <2>9. QED
      BY <2>7, <2>8
  <1>6. ASSUME NEW g \in Callers, Advance(g)
        PROVE  OneAttemptPerSession' /\ SessionsBounded'
    <2>1. DOMAIN sessions' \subseteq DOMAIN sessions
      BY <1>6, GcTypes DEF Advance, IssueStore, CompleteMismatch, CompleteRaced,
                           CompleteConsume, CompleteSign
    <2>2. \A h \in Callers \ {g} : call'[h] = call[h]
      BY <1>6 DEF Advance, IssueStore, CompleteMismatch, CompleteRaced,
                  CompleteConsume, CompleteSign, TypeOK
    <2>3. g \in InFlight' => g \in InFlight /\ call'[g].sid = call[g].sid
      <3>1. call'[g] = IdleCall \/ CompleteConsume(g)
        BY <1>6 DEF Advance, IssueStore, CompleteMismatch, CompleteRaced,
                    CompleteSign, TypeOK
      <3>2. QED
        BY SMTT(30), <3>1 DEF IdleCall, CompleteConsume, InFlight, TypeOK
    <2>4. QED
      BY <2>1, <2>2, <2>3, FewerAttempts DEF InFlight
  <1>7. CASE Tick
    <2>1. \A h \in Callers : call'[h].pc = call[h].pc /\
                             (h \in InFlight => call'[h] = call[h])
      BY <1>7, CallShape DEF Tick, InFlight, CallStates
    <2>2. QED
      BY <1>7, <2>1, TickType, FewerAttempts DEF InFlight
  <1>8. CASE Restart
    <2>1. InFlight' = {}
      BY <1>8 DEF Restart, InFlight, IdleCall
    <2>2. QED
      BY <1>8, <2>1, RestartType, FewerAttempts
  <1>9. QED
    BY <1>1, <1>2, <1>3, <1>4, <1>5, <1>6, <1>7, <1>8 DEF Next, Request

-----------------------------------------------------------------------------
(***************************************************************************)
(* The rate limit.                                                         *)
(***************************************************************************)

\* Steps that record no failure and start no derivation keep the slack.
LEMMA FewerFailures ==
    ASSUME TypeOK, RateLimitSlack,
           DOMAIN failures' \subseteq DOMAIN failures,
           Deriving' \subseteq Deriving
    PROVE  RateLimitSlack'
  <1>1. /\ Cardinality(DOMAIN failures') <= Cardinality(DOMAIN failures)
        /\ Cardinality(DOMAIN failures') \in Nat
        /\ Cardinality(DOMAIN failures) \in Nat
    BY Finiteness, FS_Subset, FS_CardinalityType
  <1>2. /\ Cardinality(Deriving') <= Cardinality(Deriving)
        /\ Cardinality(Deriving') \in Nat
        /\ Cardinality(Deriving) \in Nat
    BY Finiteness, FS_Subset, FS_CardinalityType
  <1>3. QED
    BY SMTT(30), <1>1, <1>2, Finiteness, LimitsAssumption DEF RateLimitSlack, Count

\* Every step keeps the slack: a derivation starts below the limit, and each one
\* that ends adds at most the failure that was allowed for.
LEMMA StepRateLimit ==
    ASSUME TypeOK, RateLimitSlack, [Next]_vars
    PROVE  RateLimitSlack'
  <1>1. CASE UNCHANGED vars
    BY <1>1 DEF vars, RateLimitSlack, Deriving, Count
  <1>2. ASSUME NEW g \in Callers,
               \/ \E ttl \in TTLRequests : CreatePairingCodeRefused(g, ttl)
               \/ ActiveCodes(g)
               \/ BeginRefused(g)
               \/ \E s \in SessionIDs : Begin(g, s)
               \/ \E s \in SessionIDs : CompleteRefused(g, s)
        PROVE  RateLimitSlack'
    <2>1. call' = call
      BY <1>2 DEF CreatePairingCodeRefused, ActiveCodes, BeginRefused, Begin,
                  CompleteRefused
    <2>2. failures' = failures \/ failures' = gcFailures
      BY <1>2 DEF CreatePairingCodeRefused, ActiveCodes, BeginRefused, Begin,
                  CompleteRefused, gcLocked
    <2>3. QED
      BY <2>1, <2>2, GcTypes, FewerFailures DEF Deriving
  <1>3. ASSUME NEW g \in Callers,
               \/ \E ttl \in TTLRequests, c \in Codes : IssueDraw(g, ttl, c)
               \/ IssueStore(g)
               \/ CompleteRaced(g)
               \/ CompleteConsume(g)
               \/ \E kind \in CSRKinds : CompleteSign(g, kind)
        PROVE  RateLimitSlack'
    <2>1. /\ call'[g].pc # "deriving"
          /\ \A h \in Callers \ {g} : call'[h] = call[h]
      BY SMTT(30), <1>3 DEF IssueDraw, IssueStore, CompleteRaced, CompleteConsume,
                  CompleteSign, IdleCall, TypeOK
    <2>2. failures' = failures \/ failures' = gcFailures
      BY <1>3 DEF IssueDraw, IssueStore, CompleteRaced, CompleteConsume,
                  CompleteSign
    <2>3. QED
      BY <2>1, <2>2, GcTypes, FewerFailures DEF Deriving
  <1>4. ASSUME NEW g \in Callers, NEW s \in SessionIDs,
               NEW guess \in Codes \cup {NoCode}, CompleteLookup(g, s, guess)
        PROVE  RateLimitSlack'
    <2>1. /\ Count(failures)' < MaxFailures
          /\ Count(failures)' \in Nat
      BY <1>4, GcTypes, Finiteness, FS_Subset, FS_CardinalityType
         DEF CompleteLookup, Count
    <2>2. /\ Cardinality(Deriving') \in Nat
          /\ Cardinality(Deriving') <= Cardinality(Callers)
      BY FS_Subset, FS_CardinalityType, SetsAssumption DEF Deriving
    <2>3. QED
      BY SMTT(30), <2>1, <2>2, Finiteness, LimitsAssumption DEF RateLimitSlack
  <1>5. ASSUME NEW g \in Callers, CompleteMismatch(g)
        PROVE  RateLimitSlack'
    <2>1. Deriving' = Deriving \ {g} /\ g \in Deriving
      BY <1>5 DEF CompleteMismatch, Deriving, IdleCall, TypeOK
    <2>2. /\ Cardinality(Deriving') = Cardinality(Deriving) - 1
          /\ Cardinality(Deriving) \in Nat
      BY <2>1, Finiteness, FS_RemoveElement, FS_CardinalityType
    <2>3. PICK i : DOMAIN failures' = DOMAIN failures \cup {i}
      BY <1>5 DEF CompleteMismatch, Put
    <2>4. /\ Count(failures)' <= Count(failures) + 1
          /\ Count(failures)' \in Nat
          /\ Count(failures) \in Nat
      <3>1. /\ Cardinality(DOMAIN failures \cup {i})
                  <= Cardinality(DOMAIN failures) + 1
            /\ Cardinality(DOMAIN failures \cup {i}) \in Nat
            /\ Cardinality(DOMAIN failures) \in Nat
        BY Finiteness, AddOne
      <3>2. QED
        BY <2>3, <3>1 DEF Count
    <2>5. QED
      BY SMTT(30), <2>2, <2>4, Finiteness, LimitsAssumption DEF RateLimitSlack
  <1>6. CASE Tick
    <2>1. \A h \in Callers : call'[h].pc = call[h].pc
      BY <1>6, CallShape DEF Tick, CallStates
    <2>2. QED
      BY <1>6, <2>1, TickType, FewerFailures DEF Deriving
  <1>7. CASE Restart
    <2>1. Deriving' = {}
      BY <1>7 DEF Restart, Deriving, IdleCall
    <2>2. QED
      BY <1>7, <2>1, RestartType, FewerFailures
  <1>8. QED
    BY <1>1, <1>2, <1>3, <1>4, <1>5, <1>6, <1>7 DEF Next, Request, Advance

-----------------------------------------------------------------------------
(***************************************************************************)
(* The theorems.                                                           *)
(***************************************************************************)

LEMMA InitIInv == Init => IInv
  <1>1. SUFFICES ASSUME Init PROVE IInv
    OBVIOUS
  <1>2. DOMAIN sessions = {} /\ DOMAIN failures = {}
    BY <1>1, EmptyType DEF Init
  <1>3. InFlight = {} /\ Deriving = {}
    BY <1>1 DEF Init, InFlight, Deriving, IdleCall
  <1>4. Cardinality(Callers) \in Nat
    BY FS_CardinalityType, SetsAssumption
  <1>5. SessionsBounded /\ RateLimitSlack
    BY SMTT(30), <1>2, <1>3, <1>4, FS_EmptySet, LimitsAssumption
       DEF SessionsBounded, RateLimitSlack, Count
  <1>6. SingleUse
    BY SMTT(30), <1>1 DEF Init, SingleUse
  <1>7. OneAttemptPerSession
    BY <1>3 DEF OneAttemptPerSession
  <1>8. QED
    BY <1>1, <1>5, <1>6, <1>7, InitType DEF IInv

LEMMA StepIInv == IInv /\ [Next]_vars => IInv'
  BY StepType, StepSingleUse, StepSessions, StepRateLimit DEF IInv

\* The inductive invariant holds at the start and is kept by every step.
THEOREM Invariance == Spec => []IInv
  BY InitIInv, StepIInv, PTL DEF Spec

\* The Pairer's state keeps its types; in particular the failure slice never
\* holds more than MaxFailures - 1 entries more than there are goroutines.
THEOREM TypeCorrect == Spec => []TypeOK
  BY Invariance, PTL DEF IInv

\* A pairing code is consumed at most once per Issue, whatever the
\* interleaving of Issue, Complete, collection, time and restarts.
THEOREM CodesAreSingleUse == Spec => []SingleUse
  BY Invariance, PTL DEF IInv

\* A session that Begin opened is worked on by at most one Complete.
THEOREM SessionsAreSingleAttempt == Spec => []OneAttemptPerSession
  BY Invariance, PTL DEF IInv

\* Never more than maxSessions sessions are open.
THEOREM SessionsAreBounded == Spec => []SessionsBounded
  BY Invariance, PTL DEF IInv

\* The rate limit is overrun by less than the number of goroutines.
THEOREM RateLimitIsBounded == Spec => []RateLimitSlack
  BY Invariance, PTL DEF IInv

-----------------------------------------------------------------------------
(***************************************************************************)
(* The Pairer implements the ledger.                                       *)
(***************************************************************************)

\* The calls that hold a consumed code: Ledger's granted.
Granted == {g \in Callers : call[g].pc = "signing"}

\* A step that signs nothing, consumes nothing and issues nothing is, to the
\* ledger, the lapse of some codes.
LEMMA LapseStep ==
    ASSUME DOMAIN codes' \subseteq DOMAIN codes, Granted' = Granted,
           reply' # "bundle"
    PROVE  Ledger!Lapse
  BY DEF Ledger!Lapse, Granted

\* Each step of the Pairer is a step of the ledger or changes nothing in it.
LEMMA LedgerStep ==
    ASSUME TypeOK, [Next]_vars
    PROVE  Ledger!Next \/ UNCHANGED Ledger!ledgerVars
  <1>1. CASE UNCHANGED vars
    BY <1>1 DEF vars, Ledger!ledgerVars
  <1>2. ASSUME NEW g \in Callers, Request(g)
        PROVE  Ledger!Next
    <2>1. codes' = codes \/ codes' = gcCodes
      BY <1>2 DEF Request, CreatePairingCodeRefused, IssueDraw, ActiveCodes,
                  BeginRefused, Begin, CompleteRefused, CompleteLookup, gcLocked
    <2>2. reply' # "bundle"
      BY <1>2 DEF Request, CreatePairingCodeRefused, IssueDraw, ActiveCodes,
                  BeginRefused, BeginRefusal, Begin, CompleteRefused,
                  CompleteLookup
    <2>3. /\ call[g].pc # "signing" /\ call'[g].pc # "signing"
          /\ \A h \in Callers \ {g} : call'[h] = call[h]
      BY SMTT(30), <1>2 DEF Request, CreatePairingCodeRefused, IssueDraw, ActiveCodes,
                  BeginRefused, Begin, CompleteRefused, CompleteLookup, Idle,
                  IdleCall, TypeOK
    <2>4. Granted' = Granted
      BY <2>3 DEF Granted
    <2>5. QED
      BY <2>1, <2>2, <2>4, GcTypes, LapseStep DEF Ledger!Next
  <1>3. ASSUME NEW g \in Callers, IssueStore(g)
        PROVE  Ledger!Next
    <2> DEFINE lapsed == DOMAIN codes \ DOMAIN gcCodes
    <2>1. PICK c \in Codes : c = call[g].code
      BY <1>3, CallShape DEF IssueStore
    <2>2. DOMAIN codes' = (DOMAIN codes \ lapsed) \cup {c}
      BY <1>3, <2>1, GcTypes DEF IssueStore, Put
    <2>3. Granted' = Granted /\ reply' # "bundle"
      BY <1>3 DEF IssueStore, Granted, IdleCall, TypeOK
    <2>4. Ledger!Mint(c)
      BY <2>2, <2>3 DEF Ledger!Mint, Granted
    <2>5. QED
      BY <2>4 DEF Ledger!Next
  <1>4. ASSUME NEW g \in Callers, CompleteMismatch(g) \/ CompleteRaced(g)
        PROVE  Ledger!Next
    <2>1. Granted' = Granted /\ reply' # "bundle" /\ codes' = codes
      BY SMTT(30), <1>4 DEF CompleteMismatch, CompleteRaced, Granted, IdleCall, TypeOK
    <2>2. QED
      BY <2>1, LapseStep DEF Ledger!Next
  <1>5. ASSUME NEW g \in Callers, CompleteConsume(g)
        PROVE  Ledger!Next
    <2>1. PICK c \in Codes : c = call[g].matched /\ c \in DOMAIN codes
      BY SMTT(30), <1>5, PartialFunctionElim DEF CompleteConsume, TypeOK
    <2>2. DOMAIN codes' = DOMAIN codes \ {c}
      BY <1>5, <2>1 DEF CompleteConsume, Delete, Restrict
    <2>3. g \notin Granted /\ Granted' = Granted \cup {g} /\ reply' # "bundle"
      BY <1>5 DEF CompleteConsume, Granted, TypeOK
    <2>4. Ledger!Redeem(g, c)
      BY <2>1, <2>2, <2>3 DEF Ledger!Redeem, Granted
    <2>5. QED
      BY <2>4 DEF Ledger!Next
  <1>6. ASSUME NEW g \in Callers, NEW kind \in CSRKinds, CompleteSign(g, kind)
        PROVE  Ledger!Next
    <2>1. g \in Granted /\ Granted' = Granted \ {g} /\ codes' = codes
      BY <1>6 DEF CompleteSign, Granted, IdleCall, TypeOK
    <2>2. Ledger!Serve(g)
      BY <2>1 DEF Ledger!Serve, Granted
    <2>3. QED
      BY <2>2 DEF Ledger!Next
  <1>7. CASE Tick
    <2>1. \A h \in Callers : call'[h].pc = call[h].pc
      BY <1>7, CallShape DEF Tick, CallStates
    <2>2. Granted' = Granted /\ reply' # "bundle"
      BY <1>7, <2>1 DEF Tick, Granted
    <2>3. QED
      BY <1>7, <2>2, TickType, LapseStep DEF Ledger!Next
  <1>8. CASE Restart
    <2>1. Granted' = {} /\ DOMAIN codes' = {} /\ reply' # "bundle"
      BY <1>8, EmptyType DEF Restart, Granted, IdleCall
    <2>2. Ledger!Forget
      BY <2>1 DEF Ledger!Forget, Granted
    <2>3. QED
      BY <2>2 DEF Ledger!Next
  <1>9. QED
    BY <1>1, <1>2, <1>3, <1>4, <1>5, <1>6, <1>7, <1>8 DEF Next, Advance

\* Refinement: seen through its active codes and the calls that hold a consumed
\* one, the concurrent Pairer is the ledger, in which a certificate costs a code.
THEOREM PairerImplementsLedger == Spec => ImplementsLedger
  <1>1. Init => Ledger!Init
    BY SMTT(30), EmptyType DEF Init, Ledger!Init, IdleCall
  <1>2. TypeOK /\ [Next]_vars => [Ledger!Next]_(Ledger!ledgerVars)
    BY LedgerStep
  <1>3. QED
    BY <1>1, <1>2, TypeCorrect, PTL DEF Spec, ImplementsLedger, Ledger!Spec

\* An active code leaves the map only by expiry, by the Complete that matched
\* it, or with the process.
THEOREM NoCodeIsLost == Spec => CodeLossExplained
  <1> DEFINE Explained ==
        \A c \in DOMAIN codes \ DOMAIN codes' :
           \/ codes[c] = -1
           \/ \E g \in Callers : /\ call[g].pc = "deriving"
                                 /\ call[g].matched = c
                                 /\ call'[g].pc = "signing"
           \/ Restart
  <1>1. ASSUME TypeOK, [Next]_vars
        PROVE  Explained \/ UNCHANGED vars
    <2>1. ASSUME NEW c \in DOMAIN codes, c \notin DOMAIN gcCodes
          PROVE  codes[c] = -1
      <3>1. ~(codes[c] >= 0)
        BY <1>1, <2>1, GcTypes
      <3>2. codes[c] \in CodeTimeLeft
        BY <1>1, PartialFunctionElim DEF TypeOK
      <3>3. QED
        BY SMTT(30), <3>1, <3>2, TTLAssumption DEF CodeTimeLeft
    <2>2. ASSUME NEW g \in Callers, Request(g)
          PROVE  Explained
      <3>1. codes' = codes \/ codes' = gcCodes
        BY <2>2 DEF Request, CreatePairingCodeRefused, IssueDraw, ActiveCodes,
                    BeginRefused, Begin, CompleteRefused, CompleteLookup,
                    gcLocked
      <3>2. QED
        BY <2>1, <3>1
    <2>3. ASSUME NEW g \in Callers, IssueStore(g)
          PROVE  Explained
      <3>1. DOMAIN gcCodes \subseteq DOMAIN codes'
        BY <2>3 DEF IssueStore, Put
      <3>2. QED
        BY <2>1, <3>1
    <2>4. ASSUME NEW g \in Callers, CompleteConsume(g)
          PROVE  Explained
      <3>1. DOMAIN codes' = DOMAIN codes \ {call[g].matched}
        BY <2>4 DEF CompleteConsume, Delete, Restrict
      <3>2. call[g].pc = "deriving" /\ call'[g].pc = "signing"
        BY <1>1, <2>4 DEF CompleteConsume, TypeOK
      <3>3. QED
        BY <3>1, <3>2
    <2>5. ASSUME NEW g \in Callers,
                 \/ CompleteMismatch(g)
                 \/ CompleteRaced(g)
                 \/ \E kind \in CSRKinds : CompleteSign(g, kind)
          PROVE  Explained
      BY <2>5 DEF CompleteMismatch, CompleteRaced, CompleteSign
    <2>6. CASE Tick
      BY <1>1, <2>6, TickType
    <2>7. QED
      BY <1>1, <2>2, <2>3, <2>4, <2>5, <2>6 DEF Next, Advance
  <1>2. TypeOK /\ [Next]_vars => [Explained]_vars
    BY <1>1
  <1>3. QED
    BY <1>2, TypeCorrect, PTL DEF Spec, CodeLossExplained

\* The candidates of Complete are what gcLocked left: none of them had expired
\* when the request took the lock.
THEOREM OnlyLiveCodesMatch == Spec => MatchedWasLive
  <1> DEFINE Live ==
        \A g \in Callers :
           (call'[g].pc = "deriving" /\ call[g].pc # "deriving")
               => \/ call'[g].matched = NoCode
                  \/ codes[call'[g].matched] >= 0
  <1>1. ASSUME TypeOK, [Next]_vars
        PROVE  Live \/ UNCHANGED vars
    <2> SUFFICES ASSUME Next, NEW g \in Callers,
                        call'[g].pc = "deriving", call[g].pc # "deriving"
                 PROVE  \/ call'[g].matched = NoCode
                        \/ codes[call'[g].matched] >= 0
      BY <1>1
    <2>0. call \in [Callers -> CallStates]
      BY <1>1 DEF TypeOK
    <2>1. ASSUME NEW h \in Callers, NEW s \in SessionIDs,
                 NEW guess \in Codes \cup {NoCode}, CompleteLookup(h, s, guess)
          PROVE  \/ call'[g].matched = NoCode
                 \/ codes[call'[g].matched] >= 0
      <3>1. g = h
        BY <2>0, <2>1 DEF CompleteLookup
      <3>2. call'[g].matched = IF guess \in DOMAIN gcCodes THEN guess ELSE NoCode
        BY <2>0, <2>1, <3>1 DEF CompleteLookup
      <3>3. guess \in DOMAIN gcCodes => codes[guess] >= 0
        BY <1>1, GcTypes
      <3>4. QED
        BY <3>2, <3>3
    <2>2. ASSUME NEW h \in Callers, Advance(h)
          PROVE  FALSE
      <3>1. call'[g].pc \in {call[g].pc, "idle", "signing"}
        BY SMTT(30), <2>0, <2>2 DEF Advance, IssueStore, CompleteMismatch, CompleteRaced,
                          CompleteConsume, CompleteSign, IdleCall
      <3>2. QED
        BY <3>1
    <2>3. ASSUME NEW h \in Callers,
                 \/ \E ttl \in TTLRequests : CreatePairingCodeRefused(h, ttl)
                 \/ \E ttl \in TTLRequests, c \in Codes : IssueDraw(h, ttl, c)
                 \/ ActiveCodes(h)
                 \/ BeginRefused(h)
                 \/ \E s \in SessionIDs : Begin(h, s)
                 \/ \E s \in SessionIDs : CompleteRefused(h, s)
          PROVE  FALSE
      <3>1. call'[g].pc \in {call[g].pc, "issuing"}
        BY SMTT(30), <2>0, <2>3 DEF CreatePairingCodeRefused, IssueDraw, ActiveCodes,
                          BeginRefused, Begin, CompleteRefused
      <3>2. QED
        BY <3>1
    <2>4. CASE Tick
      <3>1. call'[g] = IF call[g].pc = "issuing"
                       THEN [call[g] EXCEPT !.left = Elapse(call[g].left)]
                       ELSE call[g]
        BY <2>4 DEF Tick
      <3>2. CASE call[g].pc = "issuing"
        <4>1. call[g] \in [pc : {"issuing"}, code : Codes, left : CodeTimeLeft]
          BY SMTT(30), <2>0, <3>2 DEF CallStates, IdleCall
        <4>2. call'[g].pc = "issuing"
          BY <3>1, <3>2, <4>1
        <4>3. QED
          BY <4>2
      <3>3. QED
        BY <3>1, <3>2
    <2>5. CASE Restart
      BY <2>5 DEF Restart, IdleCall
    <2>6. QED
      BY <2>1, <2>2, <2>3, <2>4, <2>5 DEF Next, Request
  <1>2. TypeOK /\ [Next]_vars => [Live]_vars
    BY <1>1
  <1>3. QED
    BY TypeCorrect, <1>2, PTL DEF Spec, MatchedWasLive
=============================================================================
