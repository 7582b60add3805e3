----------------------------- MODULE TokenStore -----------------------------
(***************************************************************************)
(* What the user component promises about tokens, without the hash table:  *)
(* a partial function from the tokens that are logged in to the time they  *)
(* have left, and the answer of the last call.                             *)
(***************************************************************************)
EXTENDS Integers, Functions

CONSTANTS
    Tokens,
    Interval,           \* a login or a renewal is good for this long
    Renewal             \* a token with less than this left is renewed

VARIABLES live, answer

Init == live = <<>> /\ answer = "none"

Without(S) == Restrict(live, DOMAIN live \ S)

Login(k) ==
    /\ k \notin DOMAIN live
    /\ live' = [x \in DOMAIN live \cup {k} |->
                    IF x = k THEN Interval ELSE live[x]]
    /\ answer' = "token"

Refuse == answer' = "refused" /\ UNCHANGED live

Valid(k) == k \in DOMAIN live /\ live[k] >= 0

Verify(k) ==
    /\ answer' = IF Valid(k) THEN "valid" ELSE "invalid"
    /\ live' = IF Valid(k) /\ live[k] < Renewal
               THEN [live EXCEPT ![k] = Interval] ELSE live

Logout(k) ==
    /\ answer' = IF k \in DOMAIN live THEN "token" ELSE "unknown"
    /\ live' = Without({k})

Clean == live' = Without({k \in DOMAIN live : live[k] < 0}) /\ UNCHANGED answer

Stop == live' = <<>> /\ answer' = "none"

Second ==
    /\ live' = [k \in DOMAIN live |-> IF live[k] < 0 THEN -1 ELSE live[k] - 1]
    /\ UNCHANGED answer

Next ==
    \/ \E k \in Tokens : Login(k) \/ Verify(k) \/ Logout(k)
    \/ Refuse \/ Clean \/ Stop \/ Second

Spec == Init /\ [][Next]_<<live, answer>>
=============================================================================
