----------------------------- MODULE SingleFlight -----------------------------
(***************************************************************************)
(* What the artist metadata service promises about lookups: a key is       *)
(* claimed before it is worked on, nobody claims it again meanwhile, one   *)
(* lookup runs at a time, and only for a claimed key, which it keeps       *)
(* claimed until it ends.                                                  *)
(***************************************************************************)
CONSTANT Keys

VARIABLES
    claimed,  \* keys somebody has asked the worker for
    active    \* the key being looked up, as a set of at most one

Init == claimed = {} /\ active = {}

Claim(k) ==
    /\ k \notin claimed
    /\ claimed' = claimed \cup {k}
    /\ UNCHANGED active

Start(k) ==
    /\ k \in claimed /\ active = {}
    /\ active' = {k}
    /\ UNCHANGED claimed

(* The lookup of k is over, or its claim is withdrawn before it starts.    *)
End(k) ==
    /\ k \in claimed
    /\ claimed' = claimed \ {k}
    /\ active' = active \ {k}

Restart == claimed' = {} /\ active' = {}

Next == Restart \/ \E k \in Keys : Claim(k) \/ Start(k) \/ End(k)

Spec == Init /\ [][Next]_<<claimed, active>>
=============================================================================
