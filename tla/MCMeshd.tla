------------------------------ MODULE MCMeshd ------------------------------
\* Two executions of meshctl beside meshd, every init with the same --mesh-id; and
\* the conversions that the commands rest on, each on every input up to its bound
\* while the rest is where it began.
EXTENDS Meshd, Labels, Formats, Advert, Interfaces

OneMesh == [ca \in Runs \cup {MeshCA} |-> "home"]

\* Pairing codes are of ternary digits.
MCDigits == <<"0", "1", "2">>

\* Interfaces of every kind with no address, one or two, of either family.
MCFlags == {{"up", "multicast"}, {"up", "multicast", "loopback"},
            {"up", "multicast", "pointToPoint"}, {"multicast"}}

A4 == [host |-> "192.168.1.7", v4 |-> TRUE]

B4 == [host |-> "10.0.0.7", v4 |-> TRUE]

A6 == [host |-> "fe80::7", v4 |-> FALSE]

MCAddrs == {<<>>, <<A4>>, <<A6>>, <<A6, B4>>}

inputs == <<label, text, txt, table>>

NoInput == LabelsInit /\ FormatsInit /\ AdvertInit /\ InterfacesInit

MCInit == MeshdInit /\ NoInput

Convert ==
    \/ LabelsExtend /\ UNCHANGED <<text, txt, table>>
                    /\ text = <<>> /\ txt = <<>> /\ table = <<>>
    \/ FormatsExtend /\ UNCHANGED <<label, txt, table>>
                     /\ label = <<>> /\ txt = <<>> /\ table = <<>>
    \/ AdvertExtend /\ UNCHANGED <<label, text, table>>
                    /\ label = <<>> /\ text = <<>> /\ table = <<>>
    \/ InterfacesExtend /\ UNCHANGED <<label, text, txt>>
                        /\ label = <<>> /\ text = <<>> /\ txt = <<>>
    \/ ~NoInput /\ label' = <<>> /\ text' = <<>> /\ txt' = <<>> /\ table' = <<>>

MCNext ==
    \/ NoInput /\ MeshdNext /\ UNCHANGED inputs
    \/ MeshdInit /\ Convert /\ UNCHANGED allVars

MCSpec ==
    MCInit /\ [][MCNext]_<<allVars, inputs>> /\ WF_allVars(Startup) /\ WF_allVars(Shutdown)
=============================================================================
