------------------------------- MODULE MCEventHub -------------------------------
(***************************************************************************)
(* An instance of EventHub for TLC.                                        *)
(***************************************************************************)
EXTENDS EventHub, TLC

CONSTANTS a1, a2, A

\* Two requests from one address, for the launch stream of season 1.
Addresses == a1 :> A @@ a2 :> A
Season1 == a1 :> {"S1"} @@ a2 :> {"S1"}

\* Every priority, and an event of another season that a HIGH one may shed.
FourKinds ==
    {[priority |-> "HIGH", topic |-> "S1"], [priority |-> "MEDIUM", topic |-> "S1"],
     [priority |-> "LOW", topic |-> "S1"], [priority |-> "LOW", topic |-> "S2"]}

==============================================================================
