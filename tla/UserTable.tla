------------------------------ MODULE UserTable -----------------------------
(***************************************************************************)
(* The users that are logged in (user.c): vf_user_login asks the RADIUS    *)
(* server and files a random token in the hash table of UtHash, the other  *)
(* operations look tokens up, renew them, and take them out.  A token is   *)
(* the key and stands for its node; expire is kept as the time left, which *)
(* stays at -1 once it has passed.  urandom gives a token nobody holds.    *)
(* The operations hold the rwlock and run in one step.                     *)
(***************************************************************************)
EXTENDS UtHash

CONSTANTS
    VF_USER_TOKEN_INTER,
    VF_USER_TOKEN_MIN,
    MaxBuckets          \* no login once the table has more buckets

VARIABLES
    phase,          \* "down", "up", or "failed" after a failed vf_user_init
    user_node,      \* the hash table
    left,           \* expire - now of every node
    answer          \* what the last call returned

vars == <<phase, user_node, left, answer>>

NoTable == EmptyTable([e \in Elems |-> NoHandle])

Init ==
    /\ phase = "down" /\ answer = "none"
    /\ user_node = NoTable
    /\ left = [e \in Elems |-> 0]

\* The lock, the RADIUS configuration, the dictionary and /dev/urandom.
vf_user_init ==
    /\ phase = "down"
    /\ phase' \in {"up", "failed"}
    /\ UNCHANGED <<user_node, left, answer>>

-----------------------------------------------------------------------------
RadiusResults == {"OK_RC", "BADRESP_RC", "REJECT_RC", "TIMEOUT_RC", "ERROR_RC"}

\* The answers vf_radius_authenticate may give for a result of rc_auth.
vf_radius_authenticate(result) ==
    CASE result = "OK_RC" -> "VF_OK"
      [] result \in {"BADRESP_RC", "REJECT_RC"} -> "VF_ERR_AUTH_DENIED"
      [] result = "TIMEOUT_RC" -> "VF_ERR_AUTH_TIMEOUT"
      [] OTHER -> "VF_ERR_GENERIC"

\* No token is made unless the server accepted and urandom delivered.
vf_user_login(result, k) ==
    /\ phase = "up"
    /\ user_node.num_buckets <= MaxBuckets
    /\ HASH_FIND(user_node, k) = NULL
    /\ \/ /\ vf_radius_authenticate(result) = "VF_OK"
          /\ user_node' = HASH_ADD(user_node, k)
          /\ left' = [left EXCEPT ![k] = VF_USER_TOKEN_INTER]
          /\ answer' = "token"
       \/ answer' = "refused" /\ UNCHANGED <<user_node, left>>
    /\ UNCHANGED phase

\* The time left is not compared.
MutVerify(k) ==
    LET session == HASH_FIND(user_node, k)
    IN  /\ phase = "up"
        /\ answer' = IF session # NULL THEN "valid" ELSE "invalid"
        /\ left' = IF session # NULL /\ left[k] < VF_USER_TOKEN_MIN
                   THEN [left EXCEPT ![k] = VF_USER_TOKEN_INTER] ELSE left
        /\ UNCHANGED <<phase, user_node>>

vf_user_verify_pkt(k) ==
    LET session == HASH_FIND(user_node, k)
        valid == session # NULL /\ left[k] >= 0
    IN  /\ phase = "up"
        /\ answer' = IF valid THEN "valid" ELSE "invalid"
        /\ left' = IF valid /\ left[k] < VF_USER_TOKEN_MIN
                   THEN [left EXCEPT ![k] = VF_USER_TOKEN_INTER] ELSE left
        /\ UNCHANGED <<phase, user_node>>

\* Times of nodes that are gone carry no information.
Forget(S) == left' = [e \in Elems |-> IF e \in S THEN 0 ELSE left[e]]

vf_user_logout(k) ==
    LET session == HASH_FIND(user_node, k)
    IN  /\ phase = "up"
        /\ IF session = NULL
           THEN answer' = "unknown" /\ UNCHANGED <<user_node, left>>
           ELSE /\ user_node' = Freed(HASH_DELETE(user_node, k), k)
                /\ Forget({k})
                /\ answer' = "token"
        /\ UNCHANGED phase

vf_user_clean_expired ==
    LET Dead == {e \in Elems : left[e] < 0}
    IN  /\ phase = "up"
        /\ user_node' = HASH_ITER_DELETE(user_node, Dead)
        /\ Forget(Dead)
        /\ UNCHANGED <<phase, answer>>

vf_user_uninit ==
    /\ phase = "up"
    /\ user_node' = HASH_ITER_DELETE(user_node, Elems)
    /\ Forget(Elems)
    /\ phase' = "down" /\ answer' = "none"

Stored == {k \in Elems : HASH_FIND(user_node, k) = k}

Tick ==
    /\ phase = "up"
    /\ left' = [e \in Elems |-> IF e \notin Stored \/ left[e] < 0
                                THEN left[e] ELSE left[e] - 1]
    /\ UNCHANGED <<phase, user_node, answer>>

Next ==
    \/ vf_user_init \/ vf_user_clean_expired \/ vf_user_uninit \/ Tick
    \/ \E k \in Elems : \/ \E result \in RadiusResults : vf_user_login(result, k)
                        \/ vf_user_verify_pkt(k) \/ vf_user_logout(k)

Spec == Init /\ [][Next]_vars

-----------------------------------------------------------------------------
(***************************************************************************)
(* The self-check of uthash.h never fires: whatever logins, logouts and    *)
(* clean-ups have happened, also across bucket expansions, chains and list *)
(* are well linked and every count is exact (HASH_FSCK, HASH_DELETE_HH).   *)
(***************************************************************************)
TableSound == HASH_FSCK(user_node)

(***************************************************************************)
(* The component keeps the promises of TokenStore: what its lookups find   *)
(* through buckets and chains is exactly what was logged in and neither    *)
(* logged out nor cleaned, and a token is valid until its time has passed  *)
(* (vf_user_login, vf_user_verify_pkt, vf_user_logout).                    *)
(***************************************************************************)
Store == INSTANCE TokenStore WITH
            Tokens <- Elems, Interval <- VF_USER_TOKEN_INTER,
            Renewal <- VF_USER_TOKEN_MIN,
            live <- [k \in Stored |-> left[k]]

KeepsTokens == Store!Spec
=============================================================================
