--------------------------- MODULE ReadyContract ----------------------------
(***************************************************************************)
(* What the operator promises the owner of a ControlPlane, with none of    *)
(* how it keeps the promise: "ready" is announced only when every          *)
(* component of the control plane runs exactly what is asked for, and      *)
(* while it stays announced nothing moves in the cluster.                  *)
(***************************************************************************)
CONSTANTS Components,   \* the parts of a control plane
          Values,       \* the specifications an owner can ask for
          Nothing,      \* nothing asked for, nothing deployed
          Mixed         \* a part that is only half rolled out

VARIABLES wanted,       \* what the owner asks for
          deployed,     \* what each component runs
          ready         \* what the owner is told

vars == <<wanted, deployed, ready>>

States == Values \cup {Nothing, Mixed}

Satisfied == \A c \in Components : deployed[c] = wanted

Init == /\ wanted \in Values
        /\ deployed \in [Components -> States]
        /\ ready \in BOOLEAN
        /\ ready => Satisfied

\* The owner edits the ControlPlane: what was announced no longer counts.
Ask == /\ wanted # Nothing
       /\ wanted' \in Values \ {wanted}
       /\ ready' = FALSE
       /\ UNCHANGED deployed

\* The owner deletes it.
Withdraw == /\ wanted' = Nothing
            /\ ready' = FALSE
            /\ UNCHANGED deployed

\* Components move, only while nothing is announced.
Roll == /\ ~ready
        /\ UNCHANGED <<wanted, ready>>
        /\ deployed' \in [Components -> States]

Announce == /\ ~ready
            /\ wanted # Nothing
            /\ Satisfied
            /\ ready' = TRUE
            /\ UNCHANGED <<wanted, deployed>>

\* The announcement may be taken back at any time.
Retract == /\ ready' = FALSE
           /\ UNCHANGED <<wanted, deployed>>

Next == Ask \/ Withdraw \/ Roll \/ Announce \/ Retract

Spec == Init /\ [][Next]_vars
=============================================================================
