------------------------------- MODULE UtHash -------------------------------
(***************************************************************************)
(* The hash table macros of uthash.h that session.c and user.c use, at the *)
(* level of their pointers.  A table is a record: head and tail of the     *)
(* list in application order, the buckets, and for every element the       *)
(* UT_hash_handle embedded in it.  The key of an element is the element    *)
(* itself and Hash gives its hash value.  The macros run in one step:      *)
(* their callers hold a lock.  Out of memory is uthash_fatal, which ends   *)
(* the process.                                                            *)
(***************************************************************************)
EXTENDS Integers, FiniteSets

CONSTANTS
    Elems,                          \* the elements that may be in a table
    Hash,                           \* HASH_VALUE of every element's key
    NULL,
    HASH_INITIAL_NUM_BUCKETS,       \* a power of two
    HASH_BKT_CAPACITY_THRESH

NoBucket == [hh_head |-> NULL, count |-> 0, expand_mult |-> 0]
NoHandle == [next |-> NULL, prev |-> NULL, hh_next |-> NULL, hh_prev |-> NULL]
Buckets(n) == [b \in 0 .. n - 1 |-> NoBucket]

\* The table of a NULL head; hh holds the handles of all elements.
EmptyTable(hh) ==
    [head |-> NULL, tail |-> NULL, num_items |-> 0, num_buckets |-> 0,
     buckets |-> <<>>, ineff_expands |-> 0, noexpand |-> FALSE, hh |-> hh]

\* e->field = v, when there is an e.
Put(t, e, field, v) ==
    IF e = NULL THEN t ELSE [t EXCEPT !.hh[e][field] = v]

HASH_TO_BKT(e, num_bkts) == Hash[e] % num_bkts

HASH_MAKE_TABLE(t, e) ==
    [EmptyTable(t.hh) EXCEPT !.head = e, !.tail = e, !.hh[e] = NoHandle,
        !.num_buckets = HASH_INITIAL_NUM_BUCKETS,
        !.buckets = Buckets(HASH_INITIAL_NUM_BUCKETS)]

HASH_APPEND_LIST(t, e) ==
    [Put([t EXCEPT !.hh[e].next = NULL, !.hh[e].prev = t.tail],
         t.tail, "next", e) EXCEPT !.tail = e]

\* The links of a bucket's chain when e becomes its first element.
LinkFirst(t, e, first) ==
    Put([t EXCEPT !.hh[e].hh_prev = NULL, !.hh[e].hh_next = first],
        first, "hh_prev", e)

-----------------------------------------------------------------------------
(***************************************************************************)
(* HASH_EXPAND_BUCKETS: twice as many buckets, into which the chains are   *)
(* emptied one after the other, each from its first element on.            *)
(***************************************************************************)
RECURSIVE Moved(_, _, _, _)

Moved(t, new, nonideal, ideal) ==       \* one element, then the others
    LET full == {b \in DOMAIN t.buckets : t.buckets[b].hh_head # NULL}
        b == CHOOSE x \in full : \A y \in full : x <= y
        e == t.buckets[b].hh_head
        k == HASH_TO_BKT(e, t.num_buckets * 2)
        n == new[k].count + 1
        over == n > ideal
        mult == new[k].expand_mult
    IN  IF full = {} THEN [tbl |-> t, new |-> new, nonideal |-> nonideal]
        ELSE Moved(LinkFirst([t EXCEPT !.buckets[b].hh_head = t.hh[e].hh_next],
                             e, new[k].hh_head),
                   [new EXCEPT ![k] =
                       [hh_head |-> e, count |-> n,
                        expand_mult |-> IF over /\ n > mult * ideal
                                        THEN mult + 1 ELSE mult]],
                   IF over THEN nonideal + 1 ELSE nonideal, ideal)

\* ceil(items / buckets) for the new number of buckets.
IdealChainMaxlen(items, nb) ==
    (items \div nb) + (IF items % nb # 0 THEN 1 ELSE 0)

HASH_EXPAND_BUCKETS(t) ==
    LET m == Moved(t, Buckets(t.num_buckets * 2), 0,
                   IdealChainMaxlen(t.num_items, t.num_buckets * 2))
        ineff == IF m.nonideal > t.num_items \div 2
                 THEN t.ineff_expands + 1 ELSE 0
    IN  [m.tbl EXCEPT !.num_buckets = t.num_buckets * 2, !.buckets = m.new,
                      !.ineff_expands = ineff,
                      !.noexpand = @ \/ ineff > 1]

HASH_ADD_TO_BKT(t, b, e) ==
    LET u == [LinkFirst(t, e, t.buckets[b].hh_head)
                EXCEPT !.buckets[b].hh_head = e, !.buckets[b].count = @ + 1]
        bkt == u.buckets[b]
    IN  IF /\ bkt.count >= (bkt.expand_mult + 1) * HASH_BKT_CAPACITY_THRESH
           /\ ~ u.noexpand
        THEN HASH_EXPAND_BUCKETS(u) ELSE u

HASH_ADD_TO_TABLE(t, e) ==
    HASH_ADD_TO_BKT([t EXCEPT !.num_items = @ + 1],
                    HASH_TO_BKT(e, t.num_buckets), e)

HASH_ADD(t, e) ==
    HASH_ADD_TO_TABLE(IF t.head = NULL THEN HASH_MAKE_TABLE(t, e)
                      ELSE HASH_APPEND_LIST(t, e), e)

-----------------------------------------------------------------------------
\* The element of key e along the chain from el on, or NULL.
RECURSIVE HASH_FIND_IN_BKT(_, _, _)

HASH_FIND_IN_BKT(t, el, e) ==
    IF el = NULL \/ el = e THEN el
    ELSE HASH_FIND_IN_BKT(t, t.hh[el].hh_next, e)

HASH_FIND(t, e) ==
    IF t.head = NULL THEN NULL
    ELSE HASH_FIND_IN_BKT(t, t.buckets[HASH_TO_BKT(e, t.num_buckets)].hh_head, e)

HASH_DEL_IN_BKT(t, b, e) ==
    LET h == t.hh[e]
        u == [t EXCEPT !.buckets[b].count = @ - 1,
                       !.buckets[b].hh_head = IF @ = e THEN h.hh_next ELSE @]
    IN  Put(Put(u, h.hh_prev, "hh_next", h.hh_next),
            h.hh_next, "hh_prev", h.hh_prev)

\* The tail is left where it was.
MutDelete(t, e) ==
    LET h == t.hh[e]
        u == [t EXCEPT !.head = IF h.prev = NULL THEN h.next ELSE @]
        v == Put(Put(u, h.prev, "next", h.next), h.next, "prev", h.prev)
        w == HASH_DEL_IN_BKT(v, HASH_TO_BKT(e, v.num_buckets), e)
    IN  IF h.prev = NULL /\ h.next = NULL THEN EmptyTable(t.hh)
        ELSE [w EXCEPT !.num_items = @ - 1]

\* The last element takes the table with it.
HASH_DELETE(t, e) ==
    LET h == t.hh[e]
        u == [t EXCEPT !.tail = IF @ = e THEN h.prev ELSE @,
                       !.head = IF h.prev = NULL THEN h.next ELSE @]
        v == Put(Put(u, h.prev, "next", h.next), h.next, "prev", h.prev)
        w == HASH_DEL_IN_BKT(v, HASH_TO_BKT(e, v.num_buckets), e)
    IN  IF h.prev = NULL /\ h.next = NULL THEN EmptyTable(t.hh)
        ELSE [w EXCEPT !.num_items = @ - 1]

(***************************************************************************)
(* HASH_ITER over the list with a body that deletes and frees the elements *)
(* of Dead: the successor is fetched before the body runs.                 *)
(***************************************************************************)
Freed(t, e) == [t EXCEPT !.hh[e] = NoHandle]

RECURSIVE DeletedFrom(_, _, _, _)

DeletedFrom(t, el, tmp, Dead) ==
    LET u == IF el \in Dead THEN Freed(HASH_DELETE(t, el), el) ELSE t
    IN  IF el = NULL THEN t
        ELSE DeletedFrom(u, tmp, IF tmp = NULL THEN NULL ELSE u.hh[tmp].next,
                         Dead)

HASH_ITER_DELETE(t, Dead) ==
    DeletedFrom(t, t.head, IF t.head = NULL THEN NULL ELSE t.hh[t.head].next,
                Dead)

-----------------------------------------------------------------------------
(***************************************************************************)
(* HASH_FSCK, the self-check of uthash.h (compiled in with HASH_DEBUG):    *)
(* along every chain the back links are right and the count is exact, the  *)
(* same along the list in application order, and the items add up.  -1     *)
(* reports a wrong back link; a walk is no longer than there are elements. *)
(***************************************************************************)
RECURSIVE Walk(_, _, _, _, _)

Walk(t, el, from, fwd, steps) ==
    IF el = NULL THEN steps
    ELSE IF \/ t.hh[el][IF fwd = "next" THEN "prev" ELSE "hh_prev"] # from
            \/ steps > Cardinality(Elems)
    THEN -1
    ELSE Walk(t, t.hh[el][fwd], el, fwd, steps + 1)

HASH_FSCK(t) ==
    LET chain == [b \in DOMAIN t.buckets |->
                    Walk(t, t.buckets[b].hh_head, NULL, "hh_next", 0)]
        total[b \in -1 .. t.num_buckets - 1] ==
            IF b = -1 THEN 0 ELSE total[b - 1] + chain[b]
    IN  t.head # NULL =>
            /\ \A b \in DOMAIN t.buckets : chain[b] = t.buckets[b].count
            /\ total[t.num_buckets - 1] = t.num_items
            /\ Walk(t, t.head, NULL, "next", 0) = t.num_items
=============================================================================
