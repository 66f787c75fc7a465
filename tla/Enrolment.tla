----------------------------- MODULE Enrolment -----------------------------
(***************************************************************************)
(* What pairing promises end to end (docs/adr/0002-pairing.md): a node     *)
(* becomes a member of the mesh with a code that was live when it was      *)
(* spent, and a code makes at most one member.  A code may lapse, and a    *)
(* node that has paid may be left without its membership.                  *)
(***************************************************************************)
CONSTANTS Codes, Joiners

VARIABLES live,    \* the codes that can be spent
          paid,    \* the joiners that spent one and wait
          members  \* the joiners that are in

enrolmentVars == <<live, paid, members>>

Init == live = {} /\ paid = {} /\ members = {}

Mint(c) ==
    /\ \E lapsed \in SUBSET live : live' = (live \ lapsed) \cup {c}
    /\ UNCHANGED <<paid, members>>

Lapse == live' \in SUBSET live /\ UNCHANGED <<paid, members>>

Pay(j, c) ==
    /\ c \in live /\ j \notin paid \cup members
    /\ live' = live \ {c}
    /\ paid' = paid \cup {j}
    /\ UNCHANGED members

Admit(j) ==
    /\ j \in paid
    /\ paid' = paid \ {j}
    /\ members' = members \cup {j}
    /\ UNCHANGED live

\* The membership is lost on the way, or refused by the joiner.
Lose(j) ==
    /\ j \in paid
    /\ paid' = paid \ {j}
    /\ UNCHANGED <<live, members>>

\* The coordinator restarts.
Forget == live' = {} /\ paid' \in SUBSET paid /\ UNCHANGED members

Next ==
    \/ \E c \in Codes : Mint(c)
    \/ \E j \in Joiners : Admit(j) \/ Lose(j) \/ \E c \in Codes : Pay(j, c)
    \/ Lapse
    \/ Forget

Spec == Init /\ [][Next]_enrolmentVars
=============================================================================
