-------------------------- MODULE AddressAllocator --------------------------
(***************************************************************************)
(* What an address allocator promises its callers, with no bitmap and no   *)
(* hint: an address is given to one holder at a time, and a request is     *)
(* refused only when every address is held or the allocator is closed.     *)
(***************************************************************************)
CONSTANTS Addr, None

VARIABLES held, ret, open

Init == held = {} /\ ret = None /\ open = TRUE

Grant ==
    \E a \in Addr \ held :
        /\ open
        /\ held' = held \cup {a}
        /\ ret' = a
        /\ UNCHANGED open

Refuse ==
    /\ open => held = Addr
    /\ ret' = None
    /\ UNCHANGED <<held, open>>

Release ==
    \E a \in held :
        /\ held' = held \ {a}
        /\ UNCHANGED <<ret, open>>

Close ==
    /\ open' = FALSE
    /\ UNCHANGED <<held, ret>>

Next == Grant \/ Refuse \/ Release \/ Close

Spec == Init /\ [][Next]_<<held, ret, open>>
=============================================================================
