------------------------------- MODULE Pairer -------------------------------
(***************************************************************************)
(* The coordinator's pairing state machine (internal/pki/pairing.go) as    *)
(* driven by the AdminService (internal/coordinator/admin.go) and the      *)
(* PairingService (internal/pairing/server.go).                            *)
(*                                                                         *)
(* Every RPC runs in a goroutine of its own.  A step is a critical section *)
(* of Pairer.mu, or the code between two of them: Issue reads the clock    *)
(* before it takes the lock, and Complete drops the lock while it runs     *)
(* Argon2 and again before it signs.                                       *)
(*                                                                         *)
(* Instants are relative to the current one: a deadline is the time left   *)
(* until it (-1 once it has passed; the code never asks how long ago), a   *)
(* failure is its age (FailureWindow once it is that old or older).        *)
(***************************************************************************)
EXTENDS Integers, Maps

CONSTANTS Codes,          \* the codes GenerateCode can return
          SessionIDs,     \* the ids Begin can draw
          Callers,        \* the goroutines serving an RPC
          MaxSessions,    \* maxSessions
          MaxFailures,    \* maxFailuresPerMin
          FailureWindow,  \* failureWindowReset
          CodeTTL,        \* DefaultCodeTTL
          SessionTTL,     \* DefaultSessionTTL
          MaxCodeTTL,     \* coordinator.MaxPairingCodeTTL
          TTLRequests,    \* the ttl_seconds an administrator may send
          NoCode          \* not a code: the zero value of "matched"

ASSUME LimitsAssumption ==
    /\ MaxSessions \in Nat \ {0}
    /\ MaxFailures \in Nat \ {0}
    /\ FailureWindow \in Nat \ {0}

ASSUME TTLAssumption ==
    /\ CodeTTL \in Nat \ {0}
    /\ SessionTTL \in Nat \ {0}
    /\ MaxCodeTTL \in Nat /\ CodeTTL <= MaxCodeTTL
    /\ TTLRequests \subseteq Nat

ASSUME SetsAssumption ==
    /\ IsFiniteSet(Callers)
    /\ IsFiniteSet(SessionIDs)
    /\ NoCode \notin Codes

VARIABLES codes,     \* codes[c]: time left of the active code c
          sessions,  \* sessions[s]: time left of the open session s
          failures,  \* failures[i]: age of the i-th recorded failure
          call,      \* call[g]: what goroutine g is doing
          reply,     \* what the last step returned to its client, or "none"
          uses       \* history: Completes that consumed c since its last Issue

vars == <<codes, sessions, failures, call, reply, uses>>

-----------------------------------------------------------------------------
(***************************************************************************)
(* Types.  The code only ever asks for the length of the failure slice and *)
(* for the age of its entries, so an entry needs a name and no position.   *)
(***************************************************************************)

FailureSlots == 1 .. (MaxFailures + Cardinality(Callers) - 1)

CodeTimeLeft == -1 .. MaxCodeTTL

SessionTimeLeft == -1 .. SessionTTL

Age == 0 .. FailureWindow

IdleCall == [pc |-> "idle"]

CallStates ==
         {IdleCall}
    \cup [pc : {"issuing"}, code : Codes, left : CodeTimeLeft]
    \cup [pc : {"deriving"}, sid : SessionIDs, matched : Codes \cup {NoCode}]
    \cup [pc : {"signing"}, sid : SessionIDs, code : Codes]

\* What a CSR is worth to SignCSR: it parses and carries a valid name, it does
\* not parse or its signature is wrong, its common name is no node_id.
CSRKinds == {"wellFormed", "malformed", "badName"}

Replies == {"none", "issued", "session", "bundle", "InvalidArgument",
            "ErrNoActiveCode", "ErrTooManyAttempts", "ErrBusy", "ErrRand",
            "ErrUnknownSession", "ErrBadCode", "ErrBadCSR",
            "ErrInvalidNodeID"}

-----------------------------------------------------------------------------
(***************************************************************************)
(* gcLocked: what is left of the three collections after a collection.     *)
(***************************************************************************)

\* Mutants: the collection keeps expired codes, takes the codes that expire now,
\* or keeps every failure.
gcCodesNever == codes
gcCodesEarly == Restrict(codes, {c \in DOMAIN codes : codes[c] > 0})
gcFailuresNever == failures

gcCodes == Restrict(codes, {c \in DOMAIN codes : codes[c] >= 0})

gcSessions == Restrict(sessions, {s \in DOMAIN sessions : sessions[s] >= 0})

gcFailures ==
    Restrict(failures, {i \in DOMAIN failures : failures[i] < FailureWindow})

gcLocked ==
    /\ codes' = gcCodes
    /\ sessions' = gcSessions
    /\ failures' = gcFailures

Idle(g) == call[g] = IdleCall

Deriving == {g \in Callers : call[g].pc = "deriving"}

InFlight == {g \in Callers : call[g].pc \in {"deriving", "signing"}}

Init ==
    /\ codes = EmptyMap
    /\ sessions = EmptyMap
    /\ failures = EmptyMap
    /\ call = [g \in Callers |-> IdleCall]
    /\ reply = "none"
    /\ uses = [c \in Codes |-> 0]

-----------------------------------------------------------------------------
(***************************************************************************)
(* AdminService.CreatePairingCode and Pairer.Issue.                        *)
(***************************************************************************)

\* A ttl of zero asks for the default.
TTL(ttl) == IF ttl = 0 THEN CodeTTL ELSE ttl

\* A ttl above the maximum is refused before the Pairer is asked.
CreatePairingCodeRefused(g, ttl) ==
    /\ Idle(g)
    /\ ttl > MaxCodeTTL
    /\ reply' = "InvalidArgument"
    /\ UNCHANGED <<codes, sessions, failures, call, uses>>

\* Issue up to p.mu.Lock(): the code is drawn and its expiry fixed.  The draw
\* does not look at the codes that are active.
IssueDraw(g, ttl, c) ==
    /\ Idle(g)
    /\ ttl <= MaxCodeTTL
    /\ call' = [call EXCEPT ![g] =
                   [pc |-> "issuing", code |-> c, left |-> TTL(ttl)]]
    /\ reply' = "none"
    /\ UNCHANGED <<codes, sessions, failures, uses>>

\* Issue's critical section.
IssueStore(g) ==
    /\ call[g].pc = "issuing"
    /\ codes' = Put(gcCodes, call[g].code, call[g].left)
    /\ sessions' = gcSessions
    /\ failures' = gcFailures
    /\ uses' = [uses EXCEPT ![call[g].code] = 0]
    /\ call' = [call EXCEPT ![g] = IdleCall]
    /\ reply' = "issued"

\* ActiveCodes, which so far only tests call: it collects and counts.
ActiveCodes(g) ==
    /\ Idle(g)
    /\ gcLocked
    /\ reply' = "none"
    /\ UNCHANGED <<call, uses>>

-----------------------------------------------------------------------------
(***************************************************************************)
(* PairingService.Begin.                                                   *)
(***************************************************************************)

BeginRefusal ==
    CASE DOMAIN gcCodes = {}               -> "ErrNoActiveCode"
      [] Count(gcFailures) >= MaxFailures -> "ErrTooManyAttempts"
      [] Count(gcSessions) >= MaxSessions -> "ErrBusy"
      [] OTHER                            -> "none"

\* A refused Begin still collects; so does one that the random source fails.
BeginRefused(g) ==
    /\ Idle(g)
    /\ gcLocked
    /\ reply' = IF BeginRefusal = "none" THEN "ErrRand" ELSE BeginRefusal
    /\ UNCHANGED <<call, uses>>

\* An id is 16 random bytes: one that nobody holds.
Begin(g, s) ==
    /\ Idle(g)
    /\ BeginRefusal = "none"
    /\ s \notin DOMAIN gcSessions
    /\ \A h \in InFlight : call[h].sid # s
    /\ codes' = gcCodes
    /\ sessions' = Put(gcSessions, s, SessionTTL)
    /\ failures' = gcFailures
    /\ reply' = "session"
    /\ UNCHANGED <<call, uses>>

-----------------------------------------------------------------------------
(***************************************************************************)
(* PairingService.Complete.  The guess is the code under which the request's *)
(* MAC verifies for this session, CSR and server certificate, NoCode when    *)
(* it verifies under none.                                                   *)
(***************************************************************************)

\* The first critical section when it refuses: the session is gone even so.
CompleteRefused(g, s) ==
    /\ Idle(g)
    /\ \/ s \notin DOMAIN gcSessions
       \/ Count(gcFailures) >= MaxFailures
    /\ codes' = gcCodes
    /\ sessions' = Delete(gcSessions, s)
    /\ failures' = gcFailures
    /\ reply' = IF s \notin DOMAIN gcSessions THEN "ErrUnknownSession"
                                              ELSE "ErrTooManyAttempts"
    /\ UNCHANGED <<call, uses>>

\* Mutant: the rate limit is only tested in Begin.
CompleteLookupUnlimited(g, s, guess) ==
    /\ Idle(g)
    /\ s \in DOMAIN gcSessions
    /\ codes' = gcCodes
    /\ sessions' = Delete(gcSessions, s)
    /\ failures' = gcFailures
    /\ call' = [call EXCEPT ![g] =
                   [pc |-> "deriving", sid |-> s,
                    matched |-> IF guess \in DOMAIN gcCodes THEN guess ELSE NoCode]]
    /\ reply' = "none"
    /\ UNCHANGED uses

\* Mutant: the session is left open.
CompleteLookupKeeping(g, s, guess) ==
    /\ Idle(g)
    /\ s \in DOMAIN gcSessions
    /\ Count(gcFailures) < MaxFailures
    /\ gcLocked
    /\ call' = [call EXCEPT ![g] =
                   [pc |-> "deriving", sid |-> s,
                    matched |-> IF guess \in DOMAIN gcCodes THEN guess ELSE NoCode]]
    /\ reply' = "none"
    /\ UNCHANGED uses

\* The first critical section when it goes on.  The active codes are copied
\* here; which of them the guess will turn out to match is settled by this copy.
CompleteLookup(g, s, guess) ==
    /\ Idle(g)
    /\ s \in DOMAIN gcSessions
    /\ Count(gcFailures) < MaxFailures
    /\ codes' = gcCodes
    /\ sessions' = Delete(gcSessions, s)
    /\ failures' = gcFailures
    /\ call' = [call EXCEPT ![g] =
                   [pc |-> "deriving", sid |-> s,
                    matched |-> IF guess \in DOMAIN gcCodes THEN guess
                                                            ELSE NoCode]]
    /\ reply' = "none"
    /\ UNCHANGED uses

\* The second critical section, no candidate having matched: the failure is
\* recorded.  Nothing is collected here.
CompleteMismatch(g) ==
    /\ call[g].pc = "deriving"
    /\ call[g].matched = NoCode
    /\ failures' = Put(failures,
                       CHOOSE i \in FailureSlots : i \notin DOMAIN failures, 0)
    /\ call' = [call EXCEPT ![g] = IdleCall]
    /\ reply' = "ErrBadCode"
    /\ UNCHANGED <<codes, sessions, uses>>

\* Mutant: a Complete whose code has gone waits for it to come back.
CompleteRacedWaits(g) ==
    /\ call[g].pc = "deriving"
    /\ call[g].matched # NoCode
    /\ call[g].matched \notin DOMAIN codes
    /\ UNCHANGED vars

\* Mutant: a Complete whose code has gone signs all the same.
CompleteRacedSigns(g) ==
    /\ call[g].pc = "deriving"
    /\ call[g].matched # NoCode
    /\ call[g].matched \notin DOMAIN codes
    /\ call' = [call EXCEPT ![g] = [pc |-> "signing", sid |-> call[g].sid,
                                    code |-> call[g].matched]]
    /\ reply' = "none"
    /\ UNCHANGED <<codes, sessions, failures, uses>>

\* The second critical section, the matching code having gone meanwhile: the
\* joiner is refused and no failure is recorded.
CompleteRaced(g) ==
    /\ call[g].pc = "deriving"
    /\ call[g].matched # NoCode
    /\ call[g].matched \notin DOMAIN codes
    /\ call' = [call EXCEPT ![g] = IdleCall]
    /\ reply' = "ErrBadCode"
    /\ UNCHANGED <<codes, sessions, failures, uses>>

\* Mutant: the code is not looked up again.
CompleteConsumeUnchecked(g) ==
    /\ call[g].pc = "deriving"
    /\ call[g].matched # NoCode
    /\ codes' = Delete(codes, call[g].matched)
    /\ uses' = [uses EXCEPT ![call[g].matched] = @ + 1]
    /\ call' = [call EXCEPT ![g] = [pc |-> "signing", sid |-> call[g].sid,
                                    code |-> call[g].matched]]
    /\ reply' = "none"
    /\ UNCHANGED <<sessions, failures>>

\* The second critical section, the code being there: it is consumed.  Its
\* expiry is not looked at.
CompleteConsume(g) ==
    /\ call[g].pc = "deriving"
    /\ call[g].matched \in DOMAIN codes
    /\ codes' = Delete(codes, call[g].matched)
    /\ uses' = [uses EXCEPT ![call[g].matched] = @ + 1]
    /\ call' = [call EXCEPT ![g] = [pc |-> "signing", sid |-> call[g].sid,
                                    code |-> call[g].matched]]
    /\ reply' = "none"
    /\ UNCHANGED <<sessions, failures>>

SignCSR(kind) ==
    CASE kind = "wellFormed" -> "bundle"
      [] kind = "malformed"  -> "ErrBadCSR"
      [] kind = "badName"    -> "ErrInvalidNodeID"

\* The rest of Complete, without the lock: parse and sign the CSR, answer.
CompleteSign(g, kind) ==
    /\ call[g].pc = "signing"
    /\ call' = [call EXCEPT ![g] = IdleCall]
    /\ reply' = SignCSR(kind)
    /\ UNCHANGED <<codes, sessions, failures, uses>>

-----------------------------------------------------------------------------
(***************************************************************************)
(* The environment: time passes, and meshd is stopped and started again    *)
(* with a new Pairer, every call in flight being lost.                     *)
(***************************************************************************)

Elapse(left) == IF left > 0 THEN left - 1 ELSE -1

Tick ==
    /\ codes' = [c \in DOMAIN codes |-> Elapse(codes[c])]
    /\ sessions' = [s \in DOMAIN sessions |-> Elapse(sessions[s])]
    /\ failures' = [i \in DOMAIN failures |->
                       IF failures[i] < FailureWindow THEN failures[i] + 1
                                                      ELSE FailureWindow]
    /\ call' = [g \in Callers |->
                   IF call[g].pc = "issuing"
                   THEN [call[g] EXCEPT !.left = Elapse(@)]
                   ELSE call[g]]
    /\ reply' = "none"
    /\ UNCHANGED uses

Restart ==
    /\ codes' = EmptyMap
    /\ sessions' = EmptyMap
    /\ failures' = EmptyMap
    /\ call' = [g \in Callers |-> IdleCall]
    /\ reply' = "none"
    /\ UNCHANGED uses

\* The steps a goroutine that has started its work takes by itself.
Advance(g) ==
    \/ IssueStore(g)
    \/ CompleteMismatch(g)
    \/ CompleteRaced(g)
    \/ CompleteConsume(g)
    \/ \E kind \in CSRKinds : CompleteSign(g, kind)

Request(g) ==
    \/ \E ttl \in TTLRequests : CreatePairingCodeRefused(g, ttl)
    \/ \E ttl \in TTLRequests, c \in Codes : IssueDraw(g, ttl, c)
    \/ ActiveCodes(g)
    \/ BeginRefused(g)
    \/ \E s \in SessionIDs : Begin(g, s)
    \/ \E s \in SessionIDs : CompleteRefused(g, s)
    \/ \E s \in SessionIDs, guess \in Codes \cup {NoCode} :
          CompleteLookup(g, s, guess)

Next ==
    \/ \E g \in Callers : Request(g) \/ Advance(g)
    \/ Tick
    \/ Restart

\* A goroutine that can run is run, and time passes.
Fairness == WF_vars(Tick) /\ \A g \in Callers : WF_vars(Advance(g))

Spec == Init /\ [][Next]_vars /\ Fairness
-----------------------------------------------------------------------------
(***************************************************************************)
(* Properties.                                                             *)
(***************************************************************************)

\* Every variable has the shape the Go types give it; in particular the failure
\* slice never outgrows FailureSlots, so CompleteMismatch always has room.
TypeOK ==
    /\ codes \in PartialFunctions(Codes, CodeTimeLeft)
    /\ sessions \in PartialFunctions(SessionIDs, SessionTimeLeft)
    /\ failures \in PartialFunctions(FailureSlots, Age)
    /\ call \in [Callers -> CallStates]
    /\ reply \in Replies
    /\ uses \in [Codes -> Nat]

\* A code is single-use: between two Issues of a code at most one Complete
\* consumes it, however many Completes copied it while it was active, and a
\* code that is still active has not been consumed at all.
SingleUse ==
    \A c \in Codes : uses[c] <= IF c \in DOMAIN codes THEN 0 ELSE 1

\* A session gets one attempt: the session of a Complete that is past its first
\* critical section is no longer open and no other Complete works on it.
OneAttemptPerSession ==
    \A g \in InFlight :
        /\ call[g].sid \notin DOMAIN sessions
        /\ \A h \in InFlight \ {g} : call[h].sid # call[g].sid

\* Begin keeps the open sessions within maxSessions.
SessionsBounded == Count(sessions) <= MaxSessions

\* What the rate limit really bounds: the limit is tested before Argon2 and the
\* failure is recorded after it, so the recorded failures may pass the limit,
\* but together with the Completes still deriving by less than one per goroutine.
RateLimitSlack ==
    Count(failures) + Cardinality(Deriving) <=
        MaxFailures + Cardinality(Callers) - 1

\* An active code is lost only by expiring, by a Complete that matched it and
\* goes on to sign, or with the process: no other joiner's attempt and no
\* collection takes it away early.
CodeLossExplained ==
    [][\A c \in DOMAIN codes \ DOMAIN codes' :
          \/ codes[c] = -1
          \/ \E g \in Callers : /\ call[g].pc = "deriving"
                                /\ call[g].matched = c
                                /\ call'[g].pc = "signing"
          \/ Restart]_vars

\* A Complete can only match a code that had not expired when the request
\* arrived, whatever is still in the map.
MatchedWasLive ==
    [][\A g \in Callers :
          (call'[g].pc = "deriving" /\ call[g].pc # "deriving")
              => \/ call'[g].matched = NoCode
                 \/ codes[call'[g].matched] >= 0]_vars

\* Every RPC is answered: no goroutine is left waiting by the two-phase locking.
CallsReturn == \A g \in Callers : ~Idle(g) ~> Idle(g)

\* The rate limit and the session limit are not permanent: a coordinator that
\* refuses joiners for either reason comes to accept them again without help.
RefusalsLift ==
    /\ (Count(gcFailures) >= MaxFailures) ~> (Count(gcFailures) < MaxFailures)
    /\ (Count(gcSessions) >= MaxSessions) ~> (Count(gcSessions) < MaxSessions)

\* The promise of the pairing codes, stated without clocks, locks or sessions.
Ledger == INSTANCE CodeLedger WITH
              live    <- DOMAIN codes,
              granted <- {g \in Callers : call[g].pc = "signing"},
              signed  <- (reply = "bundle")

\* The two-phase Complete implements the ledger: a certificate is signed only by
\* a call that took a code out of the ledger, and one code pays for one call.
ImplementsLedger == Ledger!Spec
-----------------------------------------------------------------------------
(***************************************************************************)
(* What the repository says and the code does not keep.                    *)
(***************************************************************************)

\* "at most (rate limit) guesses per minute online" (pairing.go, argon consts):
\* no more than maxFailuresPerMin wrong guesses fall in one window.
GuessesWithinLimit == Count(gcFailures) <= MaxFailures
=============================================================================
