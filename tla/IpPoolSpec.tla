----------------------------- MODULE IpPoolSpec -----------------------------
(***************************************************************************)
(* The address pool with its callers.  held is the set of addresses the    *)
(* callers own: vf_ip_pool_alloc returned them (ret is its last result)    *)
(* and vf_ip_pool_free has not been called on them since.  The two call    *)
(* sites of vf_ip_pool_free (the error path of vfast_handle_auth and       *)
(* vfast_server_maintenance) free an address that an allocation returned.  *)
(***************************************************************************)
EXTENDS IpPool

VARIABLES held, ret

callVars == <<bitmap, next_hint, open, held, ret>>

CallsInit == PoolInit /\ held = {} /\ ret = NoIp

Acquire ==
    \E ip \in {IpOf(pos) : pos \in Pos} \cup {NoIp} :
        /\ vf_ip_pool_alloc(ip)
        /\ ret' = ip
        /\ held' = held \cup ({ip} \ {NoIp})

Release ==
    \E ip \in held :
        /\ vf_ip_pool_free(ip)
        /\ held' = held \ {ip}
        /\ UNCHANGED ret

Destroy ==
    /\ open
    /\ vf_ip_pool_destroy
    /\ UNCHANGED <<held, ret>>

CallsNext == Acquire \/ Release \/ Destroy

CallsSpec == CallsInit /\ [][CallsNext]_callVars

-----------------------------------------------------------------------------
PoolTypeOK ==
    /\ bitmap \subseteq Pos
    /\ next_hint \in Pos
    /\ open \in BOOLEAN
    /\ held \subseteq Assignable
    /\ ret \in Assignable \cup {NoIp}

(* While the pool lives the bitmap is exactly the reserved positions and   *)
(* the positions of the addresses callers hold: no address is lost by a    *)
(* release and none is free while somebody still uses it.                  *)
ExactAccounting ==
    open => bitmap = Reserved \cup {PosOf(ip) : ip \in held}

(* The bitmap, hint and wrap-around scan implement the plain allocator:    *)
(* every address given out is unreserved and unheld, and 0 is returned     *)
(* only when every unreserved address is held ("0 if pool is exhausted").  *)
Abstract == INSTANCE AddressAllocator WITH Addr <- Assignable, None <- NoIp
RefinesAllocator == Abstract!Spec

\* Positions the next scan looks at before that of ip.
Distance(ip) ==
    IF PosOf(ip) >= next_hint THEN PosOf(ip) - next_hint
    ELSE PosOf(ip) - next_hint + PoolSize

(* The rotating hint starves no address: whenever another one is given     *)
(* out, the hint comes nearer to each address that stays free, and nothing *)
(* else moves it.  So a free address is given out by one of the next       *)
(* pool_size allocations, whatever callers give back meanwhile.            *)
HintNears ==
    [][\A ip \in Assignable \ (held \cup held') :
        IF held' \subseteq held THEN Distance(ip)' = Distance(ip)
        ELSE Distance(ip)' < Distance(ip)]_callVars
=============================================================================
