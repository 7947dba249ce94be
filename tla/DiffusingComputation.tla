------------------------ MODULE DiffusingComputation ------------------------
(* What a diffusing computation of DUAL promises, without neighbours' metrics, *)
(* queues or packets: it starts, is waited for and ends, and while it runs     *)
(* nobody changes what the router settled on (design-spec.md, 11.2).           *)
VARIABLES
    active,    \* a computation is running
    owing,     \* the neighbours a reply is awaited from
    settled    \* what the router reaches the destination with and reports

vars == <<active, owing, settled>>

Init == ~ active /\ owing = {}

\* No computation: routes come and go.
Local == ~ active /\ ~ active'

Start == ~ active /\ active'

\* Neighbours answer, are lost, or are asked again.
Wait == active /\ active' /\ settled' = settled

\* Everybody has answered: the router settles anew.
End == active /\ ~ active' /\ owing' = {}

Next == Local \/ Start \/ Wait \/ End

Spec == Init /\ [][Next]_vars
=============================================================================
