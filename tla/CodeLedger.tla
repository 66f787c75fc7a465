----------------------------- MODULE CodeLedger -----------------------------
(***************************************************************************)
(* What the coordinator promises about pairing codes                       *)
(* (docs/adr/0002-pairing.md, "single use, single attempt"): a code buys   *)
(* at most one attempt at a certificate, and there is no other way to get  *)
(* one.  Codes may lapse at any time.                                      *)
(***************************************************************************)
CONSTANTS Codes,    \* the pairing codes
          Callers   \* who may present one

VARIABLES live,     \* the codes that can be redeemed
          granted,  \* the callers that redeemed a code and were not served yet
          signed    \* whether the last step signed a certificate

ledgerVars == <<live, granted, signed>>

Init == live = {} /\ granted = {} /\ signed = FALSE

\* A code is minted; codes that ran out are dropped on the occasion.
Mint(c) ==
    /\ \E lapsed \in SUBSET live : live' = (live \ lapsed) \cup {c}
    /\ signed' = FALSE
    /\ UNCHANGED granted

\* Codes run out.
Lapse ==
    /\ live' \in SUBSET live
    /\ signed' = FALSE
    /\ UNCHANGED granted

\* A caller pays with a live code, which nobody can use again.
Redeem(g, c) ==
    /\ c \in live
    /\ g \notin granted
    /\ live' = live \ {c}
    /\ granted' = granted \cup {g}
    /\ signed' = FALSE

\* A caller that paid is served, with a certificate or with a refusal.
Serve(g) ==
    /\ g \in granted
    /\ granted' = granted \ {g}
    /\ signed' \in BOOLEAN
    /\ UNCHANGED live

\* The coordinator forgets everything.
Forget == live' = {} /\ granted' = {} /\ signed' = FALSE

Next ==
    \/ \E c \in Codes : Mint(c)
    \/ Lapse
    \/ \E g \in Callers, c \in Codes : Redeem(g, c)
    \/ \E g \in Callers : Serve(g)
    \/ Forget

Spec == Init /\ [][Next]_ledgerVars
=============================================================================
