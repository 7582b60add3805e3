------------------------------ MODULE IoProofs ------------------------------
(***************************************************************************)
(* Proofs about the I/O engine: no task is lost, a task has one owner, and *)
(* the read pipeline never runs dry.                                       *)
(***************************************************************************)
EXTENDS IoEngine, FiniteSetTheorems, WellFoundedInduction, TLAPS

-----------------------------------------------------------------------------
(***************************************************************************)
(* Between two calls of an iteration the loop itself may own a task, the   *)
(* one whose completion it handles or one it has just taken from the pool: *)
(* the tasks in held.                                                      *)
(***************************************************************************)
EngineType == [in_use : SUBSET Tasks, pool_idx : Tasks, sq : SUBSET Request,
               kernel : SUBSET Request, pending : 0 .. Threshold - 1]

Formed(e) ==
    /\ e \in EngineType
    /\ IsFiniteSet(e.sq) /\ IsFiniteSet(e.kernel)
    /\ e.sq \cap e.kernel = {}
    /\ Cardinality(e.sq) <= conf.ring_depth
    /\ \A r \in Outstanding(e) : r.op \in Reads => r.aligned

Bufs(e) == {r.buf : r \in Owners(e)}

\* A task in use is owned by a request or by the loop.
Tracked(e, held) == held \subseteq Tasks /\ e.in_use \subseteq held \cup Bufs(e)

\* And a task that is owned is in use, with one owner.
Exact(e, held) ==
    /\ \A r, s \in Owners(e) : r.buf = s.buf => r = s
    /\ \A r \in Owners(e) : r.buf \notin held
    /\ e.in_use = held \cup Bufs(e)

\* No callback of the configuration sends a buffer, owned by the request,
\* that it does not keep.
Keeps == "ack" \notin conf.outcomes

Owned(e, held) == Formed(e) /\ Tracked(e, held) /\ (Keeps => Exact(e, held))

LEMMA Sizes ==
    ASSUME conf \in Configs
    PROVE  /\ PoolSize \in Nat \ {0} /\ conf.ring_depth \in Nat \ {0}
           /\ WarmUp \in Nat \ {0} /\ Threshold \in Nat \ {0} /\ MaxBacklog \in Nat
  BY EngineAssumption, Zenon DEF PoolSize

LEMMA LeastNat ==
    ASSUME NEW T, T \subseteq Nat, T # {}
    PROVE  \E n \in T : \A m \in T : n <= m
<1> DEFINE R == OpToRel(<, Nat)
<1>1. \E n \in T : \A m \in T : ~(<<m, n>> \in R)
  BY NatLessThanWellFounded, WFMin, Zenon
<1>2. \A m, n \in Nat : <<m, n>> \in R <=> m < n
  BY Zenon DEF OpToRel
<1> HIDE DEF R
<1>3. PICK n \in T : \A m \in T : ~(<<m, n>> \in R)
  BY <1>1, Zenon
<1>4. \A m \in T : ~(m < n)
  BY <1>2, <1>3, Zenon
<1> QED
  BY <1>4

LEMMA AdvanceRange ==
    ASSUME conf \in Configs, NEW i \in Tasks, NEW n \in Nat
    PROVE  Advance(i, n) \in Tasks
<1>1. ASSUME NEW m \in Nat \ {0}, NEW x \in Nat
      PROVE  x % m \in 0 .. m - 1
  OBVIOUS
<1>2. PoolSize \in Nat \ {0} /\ i + n \in Nat
  BY Sizes DEF Tasks
<1>3. (i + n) % PoolSize \in 0 .. PoolSize - 1
  BY <1>1, <1>2, Zenon
<1> QED
  BY <1>3, Zenon DEF Advance, Tasks

\* get_task_from_instance takes a task that nobody owns, or none.
LEMMA TaskTaken ==
    ASSUME conf \in Configs, NEW e \in EngineType, HasTask(e)
    PROVE  /\ TaskFrom(e) \in Tasks /\ TaskFrom(e) \notin e.in_use
           /\ get_task_from_instance(e) \in EngineType
           /\ get_task_from_instance(e).in_use = e.in_use \cup {TaskFrom(e)}
           /\ get_task_from_instance(e).sq = e.sq
           /\ get_task_from_instance(e).kernel = e.kernel
           /\ get_task_from_instance(e).pending = e.pending
<1>1. Misses(e) \in Hits(e)
  <2>1. Hits(e) \subseteq Nat
    BY Sizes DEF Hits, Tasks
  <2>2. \E n \in Hits(e) : \A m \in Hits(e) : n <= m
    BY <2>1, LeastNat, Zenon DEF HasTask
  <2> QED
    BY <2>2, Zenon DEF Misses
<1>2. Misses(e) \in Nat /\ TaskFrom(e) \notin e.in_use
  BY <1>1, Sizes DEF Hits, Tasks, TaskFrom
<1>3. e.pool_idx \in Tasks
  BY Zenon DEF EngineType
<1>4. TaskFrom(e) \in Tasks /\ Advance(e.pool_idx, Misses(e) + 1) \in Tasks
  BY <1>2, <1>3, AdvanceRange DEF TaskFrom
<1> QED
  BY <1>2, <1>4, Zenon DEF get_task_from_instance, EngineType

LEMMA NoneTaken ==
    ASSUME conf \in Configs, NEW e \in EngineType, ~HasTask(e)
    PROVE  /\ get_task_from_instance(e) \in EngineType
           /\ get_task_from_instance(e).in_use = e.in_use
           /\ get_task_from_instance(e).sq = e.sq
           /\ get_task_from_instance(e).kernel = e.kernel
           /\ get_task_from_instance(e).pending = e.pending
<1>1. Advance(e.pool_idx, PoolSize) \in Tasks
  BY Sizes, AdvanceRange, Zenon DEF EngineType
<1> QED
  BY <1>1, Zenon DEF get_task_from_instance, EngineType

LEMMA Released ==
    ASSUME NEW e \in EngineType, NEW t
    PROVE  /\ Release(e, t) \in EngineType
           /\ Release(e, t).in_use = e.in_use \ {t}
           /\ Release(e, t).sq = e.sq
           /\ Release(e, t).kernel = e.kernel
           /\ Release(e, t).pending = e.pending
  BY Zenon DEF Release, EngineType

LEMMA Submitted ==
    ASSUME NEW e \in EngineType
    PROVE  /\ io_uring_submit(e) \in EngineType
           /\ io_uring_submit(e).in_use = e.in_use
           /\ io_uring_submit(e).sq = {}
           /\ io_uring_submit(e).kernel = e.kernel \cup e.sq
           /\ io_uring_submit(e).pending = e.pending
  BY Zenon DEF io_uring_submit, EngineType

LEMMA ReapedFields ==
    ASSUME NEW e \in EngineType, NEW r
    PROVE  /\ Reaped(e, r) \in EngineType
           /\ Reaped(e, r).in_use = e.in_use
           /\ Reaped(e, r).sq = e.sq
           /\ Reaped(e, r).kernel = e.kernel \ {r}
           /\ Reaped(e, r).pending = e.pending
  BY Zenon DEF Reaped, EngineType

\* A queued request is a new one, whatever is outstanding.
LEMMA NumberedNew ==
    ASSUME NEW e, IsFiniteSet(Outstanding(e)),
           NEW op \in Ops, NEW t \in Tasks, NEW al \in BOOLEAN
    PROVE  /\ Numbered(e, op, t, al) \in Request
           /\ Numbered(e, op, t, al) \notin Outstanding(e)
           /\ Numbered(e, op, t, al).op = op
           /\ Numbered(e, op, t, al).buf = t
           /\ Numbered(e, op, t, al).aligned = al
<1> DEFINE equals == {r \in Outstanding(e) : r.op = op /\ r.buf = t /\ r.aligned = al}
           used == {r.copy : r \in equals}
           n == Cardinality(used)
           c == CHOOSE m \in 0 .. n : m \notin used
<1>1. IsFiniteSet(used) /\ n \in Nat
  <2> DEFINE f == [r \in equals |-> r.copy]
  <2>1. IsFiniteSet(equals)
    BY FS_Subset, Zenon
  <2> HIDE DEF equals
  <2>2. f \in Surjection(equals, used)
    BY Zenon DEF Surjection
  <2> QED
    BY <2>1, <2>2, FS_Surjection, FS_CardinalityType, Zenon
<1>2. \E m \in 0 .. n : m \notin used
  <2> SUFFICES ASSUME 0 .. n \subseteq used PROVE FALSE
    BY Zenon
  <2> HIDE DEF used
  <2>1. Cardinality(0 .. n) = n + 1
    BY <1>1, FS_Interval
  <2>2. Cardinality(0 .. n) <= n
    BY <1>1, FS_Subset, Zenon
  <2> QED
    BY <1>1, <2>1, <2>2
<1>3. c \in 0 .. n /\ c \notin used
  BY <1>2, Zenon
<1>4. c \in Nat
  BY <1>1, <1>3
<1>5. Numbered(e, op, t, al) = [op |-> op, buf |-> t, aligned |-> al, copy |-> c]
  BY Zenon DEF Numbered
<1> HIDE DEF c
<1> DEFINE r == [op |-> op, buf |-> t, aligned |-> al, copy |-> c]
<1>6. r \in Request /\ r.op = op /\ r.buf = t /\ r.aligned = al /\ r.copy = c
  BY <1>4, Zenon DEF Request
<1> HIDE DEF r
<1>7. r \notin Outstanding(e)
  BY <1>3, <1>6, Zenon
<1> QED
  BY <1>5, <1>6, <1>7, Zenon DEF r

LEMMA OutstandingFinite ==
    ASSUME NEW e, NEW held, Owned(e, held)
    PROVE  IsFiniteSet(Outstanding(e)) /\ Outstanding(e) \in SUBSET Request
<1>1. IsFiniteSet(e.sq) /\ IsFiniteSet(e.kernel) /\ e \in EngineType
  BY Zenon DEF Owned, Formed
<1>2. IsFiniteSet(e.sq \cup e.kernel)
  BY <1>1, FS_Union, Zenon
<1> QED
  BY <1>1, <1>2, Zenon DEF Outstanding, EngineType

-----------------------------------------------------------------------------
\* Who owns what after each call.

\* Ownership depends on the flags and the outstanding requests.
LEMMA SameOwned ==
    ASSUME NEW e, NEW held, Owned(e, held), NEW f, Formed(f),
           f.in_use = e.in_use, Outstanding(f) = Outstanding(e)
    PROVE  Owned(f, held)
<1>1. Owners(f) = Owners(e) /\ Bufs(f) = Bufs(e)
  BY Zenon DEF Owners, Bufs
<1> QED
  BY <1>1, Zenon DEF Owned, Tracked, Exact

\* So does the shape of the requests.
LEMMA SameFormed ==
    ASSUME NEW e, Formed(e), NEW f \in EngineType, f.sq = e.sq, f.kernel = e.kernel
    PROVE  Formed(f) /\ Outstanding(f) = Outstanding(e)
<1>1. Outstanding(f) = Outstanding(e)
  BY Zenon DEF Outstanding
<1> QED
  BY <1>1, Zenon DEF Formed

LEMMA SubmitOwned ==
    ASSUME conf \in Configs, NEW e, NEW held, Owned(e, held)
    PROVE  Owned(io_uring_submit(e), held)
<1> DEFINE f == io_uring_submit(e)
<1>1. e \in EngineType
  BY Zenon DEF Owned, Formed
<1>2. f \in EngineType /\ f.in_use = e.in_use /\ f.sq = {} /\ f.kernel = e.kernel \cup e.sq
  BY <1>1, Submitted, Zenon
<1> HIDE DEF f
<1>3. Outstanding(f) = Outstanding(e)
  BY <1>2, Zenon DEF Outstanding
<1>4. IsFiniteSet(f.sq) /\ Cardinality(f.sq) = 0 /\ IsFiniteSet(f.kernel)
  <2>1. IsFiniteSet(e.sq) /\ IsFiniteSet(e.kernel)
    BY Zenon DEF Owned, Formed
  <2>2. IsFiniteSet(e.kernel \cup e.sq)
    BY <2>1, FS_Union, Zenon
  <2> QED
    BY <1>2, <2>2, FS_EmptySet, Zenon
<1>5. Cardinality(f.sq) <= conf.ring_depth
  BY <1>4, Sizes
<1>6. Formed(f)
  BY <1>2, <1>3, <1>4, <1>5, Zenon DEF Owned, Formed
<1> QED
  BY <1>2, <1>3, <1>6, SameOwned, Zenon DEF f

LEMMA ReleaseHeld ==
    ASSUME NEW e, NEW held, Owned(e, held), NEW t \in held
    PROVE  Owned(Release(e, t), held \ {t})
<1> DEFINE f == Release(e, t)
<1>1. Formed(e) /\ e \in EngineType
  BY Zenon DEF Owned, Formed
<1>2. f \in EngineType /\ f.in_use = e.in_use \ {t} /\ f.sq = e.sq /\ f.kernel = e.kernel
  BY <1>1, Released, Zenon
<1> HIDE DEF f
<1>3. Formed(f) /\ Owners(f) = Owners(e) /\ Bufs(f) = Bufs(e)
  BY <1>1, <1>2, SameFormed, Zenon DEF Owners, Bufs
<1>4. Tracked(f, held \ {t})
  BY <1>2, <1>3, Zenon DEF Owned, Tracked
<1>5. ASSUME Exact(e, held)
      PROVE  Exact(f, held \ {t})
  <2>1. t \notin Bufs(e)
    BY <1>5, Zenon DEF Exact, Bufs
  <2>2. f.in_use = (held \ {t}) \cup Bufs(f)
    BY <1>2, <1>3, <1>5, <2>1, Zenon DEF Exact
  <2> QED
    BY <1>3, <1>5, <2>2, Zenon DEF Exact
<1> QED
  BY <1>3, <1>4, <1>5, Zenon DEF Owned, f

\* Releasing a task twice loses track of no other.
LEMMA ReleaseAgain ==
    ASSUME NEW e, NEW held, Owned(e, held), NEW t, ~Keeps
    PROVE  Owned(Release(e, t), held)
<1> DEFINE f == Release(e, t)
<1>1. Formed(e) /\ e \in EngineType
  BY Zenon DEF Owned, Formed
<1>2. f \in EngineType /\ f.in_use = e.in_use \ {t} /\ f.sq = e.sq /\ f.kernel = e.kernel
  BY <1>1, Released, Zenon
<1> HIDE DEF f
<1>3. Formed(f) /\ Bufs(f) = Bufs(e)
  BY <1>1, <1>2, SameFormed, Zenon DEF Owners, Bufs
<1>4. Tracked(f, held)
  BY <1>2, <1>3, Zenon DEF Owned, Tracked
<1> QED
  BY <1>3, <1>4, Zenon DEF Owned, f

LEMMA TakeHeld ==
    ASSUME conf \in Configs, NEW e, NEW held, Owned(e, held), HasTask(e)
    PROVE  /\ TaskFrom(e) \in Tasks
           /\ Keeps => TaskFrom(e) \notin held
           /\ Owned(get_task_from_instance(e), held \cup {TaskFrom(e)})
<1> DEFINE f == get_task_from_instance(e)
           t == TaskFrom(e)
<1>1. Formed(e) /\ e \in EngineType
  BY Zenon DEF Owned, Formed
<1>2. /\ t \in Tasks /\ t \notin e.in_use /\ f \in EngineType
      /\ f.in_use = e.in_use \cup {t} /\ f.sq = e.sq /\ f.kernel = e.kernel
  BY <1>1, TaskTaken, Zenon
<1> HIDE DEF f, t
<1>3. Formed(f) /\ Owners(f) = Owners(e) /\ Bufs(f) = Bufs(e)
  BY <1>1, <1>2, SameFormed, Zenon DEF Owners, Bufs
<1>4. Tracked(f, held \cup {t})
  BY <1>2, <1>3, Zenon DEF Owned, Tracked
<1>5. ASSUME Exact(e, held)
      PROVE  t \notin held /\ Exact(f, held \cup {t})
  <2>1. t \notin held /\ t \notin Bufs(e)
    BY <1>2, <1>5, Zenon DEF Exact
  <2>2. \A r \in Owners(f) : r.buf # t
    BY <1>3, <2>1, Zenon DEF Bufs
  <2>3. f.in_use = (held \cup {t}) \cup Bufs(f)
    BY <1>2, <1>3, <1>5, Zenon DEF Exact
  <2> QED
    BY <1>3, <1>5, <2>1, <2>2, <2>3, Zenon DEF Exact
<1> QED
  BY <1>2, <1>3, <1>4, <1>5, Zenon DEF Owned, f, t

LEMMA NoneHeld ==
    ASSUME conf \in Configs, NEW e, NEW held, Owned(e, held), ~HasTask(e)
    PROVE  Owned(get_task_from_instance(e), held)
<1> DEFINE f == get_task_from_instance(e)
<1>1. Formed(e) /\ e \in EngineType
  BY Zenon DEF Owned, Formed
<1>2. f \in EngineType /\ f.in_use = e.in_use /\ f.sq = e.sq /\ f.kernel = e.kernel
  BY <1>1, NoneTaken, Zenon
<1> HIDE DEF f
<1>3. Formed(f) /\ Outstanding(f) = Outstanding(e)
  BY <1>1, <1>2, SameFormed, Zenon
<1> QED
  BY <1>2, <1>3, SameOwned, Zenon DEF f

\* e and f differ in the new request r that f has queued.
Adds(e, f, r) ==
    /\ r \in Request /\ r \notin Outstanding(e)
    /\ f \in EngineType /\ f.in_use = e.in_use
    /\ f.sq = e.sq \cup {r} /\ f.kernel = e.kernel /\ f.pending = e.pending

WorksOn(r, op, t, al) == r.op = op /\ r.buf = t /\ r.aligned = al

LEMMA QueueAdds ==
    ASSUME NEW e, NEW held, Owned(e, held), NEW t \in Tasks, NEW op \in Ops,
           NEW al \in BOOLEAN
    PROVE  \E r : Adds(e, Queue(e, op, t, al), r) /\ WorksOn(r, op, t, al)
<1> DEFINE r == Numbered(e, op, t, al)
           f == Queue(e, op, t, al)
<1>1. e \in EngineType /\ IsFiniteSet(Outstanding(e))
  BY OutstandingFinite, Zenon DEF Owned, Formed
<1>2. r \in Request /\ r \notin Outstanding(e) /\ r.op = op /\ r.buf = t /\ r.aligned = al
  <2> HIDE DEF r
  <2>1. /\ Numbered(e, op, t, al) \in Request
        /\ Numbered(e, op, t, al) \notin Outstanding(e)
        /\ Numbered(e, op, t, al).op = op
        /\ Numbered(e, op, t, al).buf = t
        /\ Numbered(e, op, t, al).aligned = al
    BY <1>1, NumberedNew
  <2> QED
    BY <2>1, Zenon DEF r
<1> HIDE DEF r
<1>3. /\ f \in EngineType /\ f.in_use = e.in_use /\ f.sq = e.sq \cup {r}
      /\ f.kernel = e.kernel /\ f.pending = e.pending
  BY <1>1, <1>2, Zenon DEF Queue, EngineType, r
<1> HIDE DEF f
<1>4. Adds(e, f, r)
  BY <1>2, <1>3, Zenon DEF Adds
<1> QED
  BY <1>2, <1>4, Zenon DEF f, WorksOn

LEMMA AddsFormed ==
    ASSUME conf \in Configs, NEW e, NEW f, NEW r, Formed(e), Adds(e, f, r),
           ~SqFull(e), r.op \in Reads => r.aligned
    PROVE  Formed(f) /\ Outstanding(f) = Outstanding(e) \cup {r}
<1>1. /\ f \in EngineType /\ r \notin Outstanding(e)
      /\ f.sq = e.sq \cup {r} /\ f.kernel = e.kernel
  BY Zenon DEF Adds
<1>2. Outstanding(f) = Outstanding(e) \cup {r}
  BY <1>1, Zenon DEF Outstanding
<1>3. IsFiniteSet(f.sq) /\ Cardinality(f.sq) = Cardinality(e.sq) + 1
  <2>1. IsFiniteSet(e.sq) /\ r \notin e.sq
    BY <1>1, Zenon DEF Formed, Outstanding
  <2>2. /\ IsFiniteSet(e.sq \cup {r})
        /\ Cardinality(e.sq \cup {r}) = Cardinality(e.sq) + 1
    BY <2>1, FS_AddElement, Zenon
  <2> QED
    BY <1>1, <2>2, Zenon
<1>4. Cardinality(f.sq) <= conf.ring_depth
  BY <1>3, Sizes, FS_CardinalityType DEF Formed, SqFull
<1>5. f.sq \cap f.kernel = {}
  BY <1>1, Zenon DEF Formed, Outstanding
<1>6. \A x \in Outstanding(f) : x.op \in Reads => x.aligned
  BY <1>2, Zenon DEF Formed
<1> QED
  BY <1>1, <1>2, <1>3, <1>4, <1>5, <1>6, Zenon DEF Formed

\* Queueing a request on a task that the loop owns passes the task to it.
LEMMA QueueOwned ==
    ASSUME conf \in Configs, NEW e, NEW held, Owned(e, held), NEW t \in held,
           NEW op \in Ops, ~SqFull(e)
    PROVE  Owned(Queue(e, op, t, TRUE), held \ {t})
<1> DEFINE f == Queue(e, op, t, TRUE)
<1>0. t \in Tasks /\ Formed(e)
  BY Zenon DEF Owned, Tracked
<1>1. PICK r : Adds(e, f, r) /\ WorksOn(r, op, t, TRUE)
  BY <1>0, QueueAdds, Zenon
<1> HIDE DEF f
<1>2. r \notin Outstanding(e) /\ f.in_use = e.in_use /\ r.buf = t /\ r.aligned
  BY <1>1, Zenon DEF Adds, WorksOn
<1>3. Formed(f) /\ Outstanding(f) = Outstanding(e) \cup {r}
  BY <1>0, <1>1, <1>2, AddsFormed, Zenon
<1>4. Owners(f) = Owners(e) \cup {r}
  BY <1>2, <1>3, Zenon DEF Owners
<1>5. Bufs(f) = Bufs(e) \cup {t}
  BY <1>2, <1>4 DEF Bufs
<1>6. Tracked(f, held \ {t})
  BY <1>2, <1>5, Zenon DEF Owned, Tracked
<1>7. ASSUME Exact(e, held)
      PROVE  Exact(f, held \ {t})
  <2>1. \A s \in Owners(e) : s.buf # t
    BY <1>7, Zenon DEF Exact
  <2>2. \A x, y \in Owners(f) : x.buf = y.buf => x = y
    BY <1>2, <1>4, <1>7, <2>1, Zenon DEF Exact
  <2>3. \A x \in Owners(f) : x.buf \notin held \ {t}
    BY <1>2, <1>4, <1>7, Zenon DEF Exact
  <2>4. f.in_use = (held \ {t}) \cup Bufs(f)
    BY <1>2, <1>5, <1>7, Zenon DEF Exact
  <2> QED
    BY <2>2, <2>3, <2>4, Zenon DEF Exact
<1> QED
  BY <1>3, <1>6, <1>7, Zenon DEF Owned, f

\* Queueing the payload of a task passes nothing on: the loop owns the task.
LEMMA QueuePayload ==
    ASSUME conf \in Configs, NEW e, NEW held, Owned(e, held), NEW t \in Tasks,
           ~SqFull(e)
    PROVE  Owned(Queue(e, "TUN_WRITE", t, FALSE), held)
<1> DEFINE f == Queue(e, "TUN_WRITE", t, FALSE)
<1>0. "TUN_WRITE" \in Ops /\ "TUN_WRITE" \notin Reads /\ Formed(e)
  BY Zenon DEF Ops, Reads, Owned
<1>1. PICK r : Adds(e, f, r) /\ WorksOn(r, "TUN_WRITE", t, FALSE)
  BY <1>0, QueueAdds, Zenon
<1> HIDE DEF f
<1>2. f.in_use = e.in_use /\ r.op \notin Reads /\ ~r.aligned
  BY <1>0, <1>1, Zenon DEF Adds, WorksOn
<1>3. Formed(f) /\ Outstanding(f) = Outstanding(e) \cup {r}
  BY <1>0, <1>1, <1>2, AddsFormed, Zenon
<1>4. Owners(f) = Owners(e)
  BY <1>2, <1>3, Zenon DEF Owners
<1>5. Bufs(f) = Bufs(e)
  BY <1>4, Zenon DEF Bufs
<1> QED
  BY <1>2, <1>3, <1>4, <1>5, Zenon DEF Owned, Tracked, Exact, f

LEMMA ThresholdFields ==
    ASSUME conf \in Configs, NEW e \in EngineType
    PROVE  LET f == SubmitAtThreshold(e)
           IN  /\ f \in EngineType /\ f.in_use = e.in_use
               /\ \/ f.sq = {} /\ f.kernel = e.kernel \cup e.sq /\ f.pending = 0
                  \/ f.sq = e.sq /\ f.kernel = e.kernel /\ f.pending = e.pending + 1
<1> DEFINE f == SubmitAtThreshold(e)
           s == io_uring_submit(e)
<1>1. /\ s \in EngineType /\ s.in_use = e.in_use /\ s.sq = {}
      /\ s.kernel = e.kernel \cup e.sq
  BY Submitted, Zenon
<1>2. e.pending \in 0 .. Threshold - 1 /\ Threshold \in Nat \ {0}
  BY Sizes, Zenon DEF EngineType
<1>3. CASE e.pending + 1 >= Threshold
  <2>1. f = [s EXCEPT !.pending = 0]
    BY <1>3, Zenon DEF SubmitAtThreshold
  <2> HIDE DEF f, s
  <2>2. 0 \in 0 .. Threshold - 1
    BY <1>2
  <2>3. /\ f \in EngineType /\ f.in_use = e.in_use
        /\ f.sq = {} /\ f.kernel = e.kernel \cup e.sq /\ f.pending = 0
    BY <1>1, <2>1, <2>2, Zenon DEF EngineType
  <2> QED
    BY <2>3, Zenon DEF f
<1>4. CASE ~(e.pending + 1 >= Threshold)
  <2>1. f = [e EXCEPT !.pending = e.pending + 1]
    BY <1>4, Zenon DEF SubmitAtThreshold
  <2> HIDE DEF f
  <2>2. e.pending + 1 \in 0 .. Threshold - 1
    BY <1>2, <1>4
  <2>3. /\ f \in EngineType /\ f.in_use = e.in_use
        /\ f.sq = e.sq /\ f.kernel = e.kernel /\ f.pending = e.pending + 1
    BY <2>1, <2>2, Zenon DEF EngineType
  <2> QED
    BY <2>3, Zenon DEF f
<1> QED
  BY <1>3, <1>4, Zenon

LEMMA ThresholdOwned ==
    ASSUME conf \in Configs, NEW e, NEW held, Owned(e, held)
    PROVE  Owned(SubmitAtThreshold(e), held)
<1> DEFINE f == SubmitAtThreshold(e)
<1>1. e \in EngineType
  BY Zenon DEF Owned, Formed
<1>2. /\ f \in EngineType /\ f.in_use = e.in_use
      /\ \/ f.sq = {} /\ f.kernel = e.kernel \cup e.sq
         \/ f.sq = e.sq /\ f.kernel = e.kernel
  BY <1>1, ThresholdFields, Zenon
<1> HIDE DEF f
<1>3. Outstanding(f) = Outstanding(e)
  BY <1>2, Zenon DEF Outstanding
<1>4. IsFiniteSet(f.sq) /\ IsFiniteSet(f.kernel) /\ f.sq \cap f.kernel = {}
  <2>1. IsFiniteSet(e.sq) /\ IsFiniteSet(e.kernel) /\ e.sq \cap e.kernel = {}
    BY Zenon DEF Owned, Formed
  <2>2. IsFiniteSet(e.kernel \cup e.sq)
    BY <2>1, FS_Union, Zenon
  <2> QED
    BY <1>2, <2>1, <2>2, FS_EmptySet, Zenon
<1>5. Cardinality(f.sq) <= conf.ring_depth
  BY <1>2, Sizes, FS_EmptySet DEF Owned, Formed
<1>6. Formed(f)
  BY <1>2, <1>3, <1>4, <1>5, Zenon DEF Owned, Formed
<1> QED
  BY <1>2, <1>3, <1>6, SameOwned, Zenon DEF f

\* A full queue releases the task; otherwise the request owns it.
LEMMA WriteOwned ==
    ASSUME conf \in Configs, NEW e, NEW held, Owned(e, held), NEW t \in held,
           NEW op \in Ops
    PROVE  Owned(vf_io_write(e, op, t, TRUE), held \ {t})
<1>1. CASE SqFull(e)
  BY <1>1, ReleaseHeld, Zenon DEF vf_io_write, ReleaseOwner
<1>2. CASE ~SqFull(e)
  BY <1>2, QueueOwned, ThresholdOwned, Zenon DEF vf_io_write
<1> QED
  BY <1>1, <1>2, Zenon

LEMMA PayloadOwned ==
    ASSUME conf \in Configs, NEW e, NEW held, Owned(e, held), NEW t \in Tasks
    PROVE  Owned(vf_io_write(e, "TUN_WRITE", t, FALSE), held)
<1>1. CASE SqFull(e)
  BY <1>1, Zenon DEF vf_io_write, ReleaseOwner
<1>2. CASE ~SqFull(e)
  BY <1>2, QueuePayload, ThresholdOwned, Zenon DEF vf_io_write
<1> QED
  BY <1>1, <1>2, Zenon

\* The loop still owns what it owned before it took and passed on a task.
LEMMA StillHeld ==
    ASSUME NEW e, NEW held, held \subseteq Tasks, NEW t, Keeps => t \notin held,
           Owned(e, (held \cup {t}) \ {t})
    PROVE  Owned(e, held)
<1>1. CASE Keeps
  <2>1. (held \cup {t}) \ {t} = held
    BY <1>1, Zenon
  <2> QED
    BY <2>1, Zenon
<1>2. CASE ~Keeps
  BY <1>2, Zenon DEF Owned, Tracked
<1> QED
  BY <1>1, <1>2, Zenon

LEMMA ReadOwned ==
    ASSUME conf \in Configs, NEW e, NEW held, Owned(e, held), NEW op \in Ops
    PROVE  Owned(vf_io_read(e, op), held)
<1> DEFINE t == TaskFrom(e)
           g == get_task_from_instance(e)
<1>0. held \subseteq Tasks /\ e \in EngineType
  BY Zenon DEF Owned, Formed, Tracked
<1>1. CASE ~HasTask(e)
  BY <1>1, NoneHeld, Zenon DEF vf_io_read
<1>2. CASE HasTask(e)
  <2>1. (Keeps => t \notin held) /\ Owned(g, held \cup {t})
    BY <1>2, TakeHeld, Zenon
  <2>2. g.sq = e.sq
    BY <1>0, <1>2, TaskTaken, Zenon
  <2>3. CASE SqFull(e)
    <3>1. vf_io_read(e, op) = Release(g, t)
      BY <1>2, <2>3, Zenon DEF vf_io_read
    <3> HIDE DEF g, t
    <3>2. Owned(Release(g, t), (held \cup {t}) \ {t})
      BY <2>1, ReleaseHeld, Zenon
    <3> QED
      BY <1>0, <2>1, <3>1, <3>2, StillHeld, Zenon
  <2>4. CASE ~SqFull(e)
    <3>1. vf_io_read(e, op) = Queue(g, op, t, TRUE)
      BY <1>2, <2>4, Zenon DEF vf_io_read
    <3>2. ~SqFull(g)
      BY <2>2, <2>4, Zenon DEF SqFull
    <3> HIDE DEF g, t
    <3>3. Owned(Queue(g, op, t, TRUE), (held \cup {t}) \ {t})
      BY <2>1, <3>2, QueueOwned, Zenon
    <3> QED
      BY <1>0, <2>1, <3>1, <3>3, StillHeld, Zenon
  <2> QED
    BY <2>3, <2>4, Zenon
<1> QED
  BY <1>1, <1>2, Zenon

LEMMA ReapFormed ==
    ASSUME NEW e, Formed(e), NEW r \in e.kernel
    PROVE  /\ Formed(Reaped(e, r)) /\ Reaped(e, r).in_use = e.in_use
           /\ Outstanding(Reaped(e, r)) = Outstanding(e) \ {r}
           /\ r \in Outstanding(e) /\ r \in Request
<1> DEFINE f == Reaped(e, r)
<1>1. e \in EngineType /\ e.sq \cap e.kernel = {}
  BY Zenon DEF Formed
<1>2. f \in EngineType /\ f.in_use = e.in_use /\ f.sq = e.sq /\ f.kernel = e.kernel \ {r}
  BY <1>1, ReapedFields, Zenon
<1>3. r \in Outstanding(e) /\ r \in Request
  BY <1>1, Zenon DEF Outstanding, EngineType
<1> HIDE DEF f
<1>4. Outstanding(f) = Outstanding(e) \ {r}
  BY <1>1, <1>2, Zenon DEF Outstanding
<1>5. IsFiniteSet(f.kernel)
  BY <1>2, FS_RemoveElement, Zenon DEF Formed
<1>6. f.sq \cap f.kernel = {}
  BY <1>1, <1>2, Zenon
<1>7. Formed(f)
  BY <1>2, <1>4, <1>5, <1>6, Zenon DEF Formed
<1> QED
  BY <1>2, <1>3, <1>4, <1>7, Zenon DEF f

\* A request that completes leaves its task to the loop,
LEMMA ReapOwned ==
    ASSUME NEW e, Owned(e, {}), NEW r \in e.kernel, r.aligned
    PROVE  Owned(Reaped(e, r), {r.buf})
<1> DEFINE f == Reaped(e, r)
<1>1. Formed(e)
  BY Zenon DEF Owned
<1>2. /\ Formed(f) /\ f.in_use = e.in_use /\ Outstanding(f) = Outstanding(e) \ {r}
      /\ r \in Outstanding(e) /\ r \in Request
  BY <1>1, ReapFormed, Zenon
<1> HIDE DEF f
<1>3. Owners(f) = Owners(e) \ {r} /\ r \in Owners(e) /\ r.buf \in Tasks
  BY <1>2, Zenon DEF Owners, Request
<1>4. Bufs(e) = Bufs(f) \cup {r.buf}
  BY <1>3 DEF Bufs
<1>5. Tracked(f, {r.buf})
  BY <1>2, <1>3, <1>4, Zenon DEF Owned, Tracked
<1>6. ASSUME Exact(e, {})
      PROVE  Exact(f, {r.buf})
  <2>1. \A s \in Owners(f) : s.buf # r.buf
    BY <1>3, <1>6, Zenon DEF Exact
  <2>2. f.in_use = {r.buf} \cup Bufs(f)
    BY <1>2, <1>4, <1>6, Zenon DEF Exact
  <2> QED
    BY <1>3, <1>6, <2>1, <2>2, Zenon DEF Exact
<1> QED
  BY <1>2, <1>5, <1>6, Zenon DEF Owned, f

\* unless it wrote the payload of a task it does not own.
LEMMA ReapPayload ==
    ASSUME NEW e, Owned(e, {}), NEW r \in e.kernel, ~r.aligned
    PROVE  Owned(Reaped(e, r), {})
<1> DEFINE f == Reaped(e, r)
<1>1. Formed(e)
  BY Zenon DEF Owned
<1>2. Formed(f) /\ f.in_use = e.in_use /\ Outstanding(f) = Outstanding(e) \ {r}
  BY <1>1, ReapFormed, Zenon
<1> HIDE DEF f
<1>3. Owners(f) = Owners(e)
  BY <1>2, Zenon DEF Owners
<1>4. Bufs(f) = Bufs(e)
  BY <1>3, Zenon DEF Bufs
<1> QED
  BY <1>2, <1>3, <1>4, Zenon DEF Owned, Tracked, Exact, f

LEMMA ProbeOwned ==
    ASSUME conf \in Configs, NEW e, Owned(e, {})
    PROVE  Owned(Probe(e), {})
<1> DEFINE t == TaskFrom(e)
           g == get_task_from_instance(e)
<1>1. CASE ~HasTask(e)
  BY <1>1, NoneHeld, Zenon DEF Probe
<1>2. CASE HasTask(e)
  <2>1. Owned(g, {} \cup {t})
    BY <1>2, TakeHeld, Zenon
  <2>2. Probe(e) = vf_io_write(g, "UDP_SEND", t, TRUE)
    BY <1>2, Zenon DEF Probe
  <2> HIDE DEF g, t
  <2>3. Owned(vf_io_write(g, "UDP_SEND", t, TRUE), ({} \cup {t}) \ {t})
    BY <2>1, WriteOwned, Zenon DEF Ops
  <2>4. ({} \cup {t}) \ {t} = {}
    OBVIOUS
  <2> QED
    BY <2>2, <2>3, <2>4, Zenon
<1> QED
  BY <1>1, <1>2, Zenon

LEMMA NothingLeft ==
    ASSUME NEW t
    PROVE  {t} \ {t} = {}
  OBVIOUS

\* Whatever the callback does, the task is released, or kept by the request
\* that sends it.
LEMMA FinishOwned ==
    ASSUME conf \in Configs, NEW e, NEW r, r.op \in Reads, Owned(e, {r.buf}),
           NEW outcome \in conf.outcomes
    PROVE  Owned(Finish(Callback(e, r.buf, outcome), r, outcome), {})
<1> DEFINE t == r.buf
           w == vf_io_write(e, "UDP_SEND", t, TRUE)
           p == vf_io_write(e, "TUN_WRITE", t, FALSE)
           c == Callback(e, t, outcome)
<1>1. Owned(w, {})
  <2>1. Owned(w, {t} \ {t})
    BY WriteOwned, Zenon DEF Ops
  <2> QED
    BY <2>1, NothingLeft, Zenon
<1>2. r.op \in Ops /\ t \in Tasks /\ outcome \in AllOutcomes
  BY EngineAssumption, Zenon DEF Reads, Ops, Owned, Tracked
<1>3. ASSUME NEW x, Owned(x, {t})
      PROVE  Owned(Release(vf_io_read(x, r.op), t), {})
  <2>1. Owned(vf_io_read(x, r.op), {t})
    BY <1>2, <1>3, ReadOwned, Zenon
  <2>2. Owned(Release(vf_io_read(x, r.op), t), {t} \ {t})
    BY <2>1, ReleaseHeld, Zenon
  <2> QED
    BY <2>2, NothingLeft, Zenon
<1>4. CASE outcome = "drop"
  <2>1. Finish(c, r, outcome) = Release(vf_io_read(e, r.op), t)
    BY <1>4, Zenon DEF Finish, Callback, IO_TASK_USE
  <2> QED
    BY <2>1, <1>3, Zenon
<1>5. CASE outcome = "reply"
  <2>1. Finish(c, r, outcome) = vf_io_read(w, r.op)
    BY <1>5, Zenon DEF Finish, Callback, IO_TASK_USE
  <2> QED
    BY <2>1, <1>1, <1>2, ReadOwned, Zenon
<1>6. CASE outcome = "answer"
  <2>1. Finish(c, r, outcome) = vf_io_read(io_uring_submit(w), r.op)
    BY <1>6, Zenon DEF Finish, Callback, IO_TASK_USE
  <2> HIDE DEF w
  <2>2. Owned(io_uring_submit(w), {})
    BY <1>1, SubmitOwned, Zenon
  <2> QED
    BY <2>1, <2>2, <1>2, ReadOwned, Zenon
<1>7. CASE outcome = "forward"
  <2>1. Finish(c, r, outcome) = Release(vf_io_read(p, r.op), t)
    BY <1>7, Zenon DEF Finish, Callback, IO_TASK_USE
  <2>2. Owned(p, {t})
    BY <1>2, PayloadOwned, Zenon
  <2> HIDE DEF p
  <2> QED
    BY <2>1, <2>2, <1>3, Zenon
<1>8. CASE outcome = "ack"
  <2>1. Finish(c, r, outcome) = Release(vf_io_read(w, r.op), t) /\ ~Keeps
    BY <1>8, Zenon DEF Finish, Callback, IO_TASK_USE, Keeps
  <2> HIDE DEF w
  <2>2. Owned(vf_io_read(w, r.op), {})
    BY <1>1, <1>2, ReadOwned, Zenon
  <2> QED
    BY <2>1, <2>2, ReleaseAgain, Zenon
<1> QED
  BY <1>2, <1>4, <1>5, <1>6, <1>7, <1>8, Zenon DEF AllOutcomes

LEMMA ReapWriteOwned ==
    ASSUME NEW e, NEW r \in e.kernel, Owned(e, {})
    PROVE  Owned(ReleaseOwner(Reaped(e, r), r.buf, r.aligned), {})
<1>1. CASE r.aligned
  <2>1. Owned(Reaped(e, r), {r.buf})
    BY <1>1, ReapOwned, Zenon
  <2>2. ReleaseOwner(Reaped(e, r), r.buf, r.aligned) = Release(Reaped(e, r), r.buf)
    BY <1>1, Zenon DEF ReleaseOwner
  <2>3. Owned(Release(Reaped(e, r), r.buf), {r.buf} \ {r.buf})
    BY <2>1, ReleaseHeld, Zenon
  <2> QED
    BY <2>2, <2>3, NothingLeft, Zenon
<1>2. CASE ~r.aligned
  BY <1>2, ReapPayload, Zenon DEF ReleaseOwner
<1> QED
  BY <1>1, <1>2, Zenon

-----------------------------------------------------------------------------
EngineInv ==
    /\ conf \in Configs
    /\ Owned(engine, {})
    /\ loop \in {"start", "wait", "batch"} /\ posted \in 0 .. WarmUp

LEMMA EngineInit ==
    ASSUME Init
    PROVE  EngineInv
<1>1. /\ conf \in Configs /\ loop = "start" /\ posted = 0
      /\ engine = [in_use |-> {}, pool_idx |-> 0, sq |-> {}, kernel |-> {}, pending |-> 0]
  BY Zenon DEF Init
<1>2. engine \in EngineType
  BY <1>1, Sizes DEF EngineType, Tasks
<1>3. Outstanding(engine) = {} /\ engine.in_use = {} /\ engine.sq = {} /\ engine.kernel = {}
  BY <1>1, Zenon DEF Outstanding
<1>4. Owned(engine, {})
  <2>1. Formed(engine)
    BY <1>1, <1>2, <1>3, FS_EmptySet, Sizes DEF Formed
  <2>2. Owners(engine) = {} /\ Bufs(engine) = {}
    BY <1>3, Zenon DEF Owners, Bufs
  <2> QED
    BY <1>3, <2>1, <2>2, Zenon DEF Owned, Tracked, Exact
<1> QED
  BY <1>1, <1>4, Sizes DEF EngineInv

\* What a step does to the engine, without the guards that bound it.
LEMMA EngineStep ==
    ASSUME EngineInv, [Next]_vars
    PROVE  conf' = conf /\ Owned(engine', {})
<1> USE DEF EngineInv
<1>1. CASE Post
  <2>1. Owned(vf_io_read(engine, "TUN_READ"), {})
    BY ReadOwned, Zenon DEF Ops
  <2>2. Owned(vf_io_read(vf_io_read(engine, "TUN_READ"), "UDP_RECV"), {})
    BY <2>1, ReadOwned, Zenon DEF Ops
  <2> QED
    BY <1>1, <2>2, Zenon DEF Post
<1>2. CASE Start \/ EndBatch \/ Wait
  <2>1. Owned(io_uring_submit(engine), {})
    BY SubmitOwned, Zenon
  <2> QED
    BY <1>2, <2>1, Zenon DEF Start, EndBatch, Wait
<1>3. ASSUME NEW r \in engine.kernel, NEW outcome \in Possible(r.op),
             ReapRead(r, outcome)
      PROVE  conf' = conf /\ Owned(engine', {})
  <2>1. outcome \in conf.outcomes
    BY <1>3, Zenon DEF Possible
  <2>2. Owned(Reaped(engine, r), {r.buf})
    <3>1. r.aligned
      BY <1>3, Zenon DEF ReapRead, Owned, Formed, Outstanding
    <3> QED
      BY <3>1, ReapOwned, Zenon
  <2>3. Owned(Finish(Callback(Reaped(engine, r), r.buf, outcome), r, outcome), {})
    BY <1>3, <2>1, <2>2, FinishOwned, Zenon DEF ReapRead
  <2> QED
    BY <1>3, <2>3, Zenon DEF ReapRead
<1>4. ASSUME NEW r \in engine.kernel, ReapWrite(r)
      PROVE  conf' = conf /\ Owned(engine', {})
  BY <1>4, ReapWriteOwned, Zenon DEF ReapWrite
<1>5. CASE Timer
  BY <1>5, ProbeOwned, Zenon DEF Timer
<1>6. CASE UNCHANGED vars
  BY <1>6, Zenon DEF vars
<1> QED
  BY <1>1, <1>2, <1>3, <1>4, <1>5, <1>6, Zenon DEF Next

LEMMA LoopStep ==
    ASSUME EngineInv, [Next]_vars
    PROVE  loop' \in {"start", "wait", "batch"} /\ posted' \in 0 .. WarmUp
<1>1. ASSUME NEW r, NEW outcome, ReapRead(r, outcome)
      PROVE  loop' = "batch" /\ posted' = posted
  BY <1>1, Zenon DEF ReapRead
<1>2. ASSUME NEW r, ReapWrite(r)
      PROVE  loop' = "batch" /\ posted' = posted
  BY <1>2, Zenon DEF ReapWrite
<1>3. CASE Post \/ Start \/ EndBatch \/ Timer \/ Wait \/ UNCHANGED vars
  BY <1>3, Sizes DEF EngineInv, Post, Start, EndBatch, Timer, Wait, vars
<1> QED
  BY <1>1, <1>2, <1>3, Zenon DEF Next, EngineInv

LEMMA OwnedNext ==
    ASSUME conf' = conf, Owned(engine', {})
    PROVE  (Owned(engine, {}))'
  BY Zenon DEF Owned, Formed, Tracked, Exact, Keeps, Bufs, Owners, EngineType,
               Tasks, PoolSize, Request, Outstanding, Ops, Reads

(***************************************************************************)
(* For every pool and ring, every number of reads in flight, every order   *)
(* of completions and everything the callbacks of the two programs do with *)
(* a buffer: no task of io.c is lost, and unless a callback sends a buffer *)
(* without keeping it (REKEY_REQ), a task is in use exactly when one       *)
(* request will release it.                                                *)
(***************************************************************************)
THEOREM TaskAccountingAlways == Spec => []TaskAccounting
<1>1. Init => EngineInv
  BY EngineInit, Zenon
<1>2. EngineInv /\ [Next]_vars => EngineInv'
  BY EngineStep, LoopStep, OwnedNext, Zenon DEF EngineInv
<1>3. EngineInv => TaskAccounting
  <2> SUFFICES ASSUME EngineInv PROVE TaskAccounting
    OBVIOUS
  <2>1. TypeOK
    BY Zenon DEF EngineInv, Owned, Formed, TypeOK, EngineType
  <2>2. engine.in_use \subseteq Bufs(engine)
    BY Zenon DEF EngineInv, Owned, Tracked
  <2>3. "ack" \notin conf.outcomes =>
          /\ engine.in_use = Bufs(engine)
          /\ \A r, s \in Owners(engine) : r.buf = s.buf => r = s
    BY Zenon DEF EngineInv, Owned, Exact, Keeps
  <2> QED
    BY <2>1, <2>2, <2>3, Zenon DEF TaskAccounting, Bufs
<1> QED
  BY <1>1, <1>2, <1>3, PTL DEF Spec

-----------------------------------------------------------------------------
\* How many requests there are.

Of(S, ops) == {r \in S : r.op \in ops}
Writes == Ops \ Reads

\* a reads of the TUN device, b of the socket, and at most w writes are
\* outstanding; the writes still in the queue have been counted in pending.
Counted(e, a, b, w) ==
    /\ Count(e, {"TUN_READ"}) = a /\ Count(e, {"UDP_RECV"}) = b
    /\ Backlog(e) <= w
    /\ Cardinality(Of(e.sq, Writes)) <= e.pending

LEMMA OfAdd ==
    ASSUME NEW S, IsFiniteSet(S), NEW r, r \notin S,
           NEW T, T = S \cup {r}, NEW ops
    PROVE  Cardinality(Of(T, ops))
             = IF r.op \in ops THEN Cardinality(Of(S, ops)) + 1 ELSE Cardinality(Of(S, ops))
<1>1. IsFiniteSet(Of(S, ops)) /\ r \notin Of(S, ops)
  BY FS_Subset, Zenon DEF Of
<1>2. CASE r.op \in ops
  <2>1. Of(T, ops) = Of(S, ops) \cup {r}
    BY <1>2, Zenon DEF Of
  <2> QED
    BY <1>1, <1>2, <2>1, FS_AddElement, Zenon
<1>3. CASE r.op \notin ops
  <2>1. Of(T, ops) = Of(S, ops)
    BY <1>3, Zenon DEF Of
  <2> QED
    BY <1>3, <2>1, Zenon
<1> QED
  BY <1>2, <1>3, Zenon

LEMMA OfRemove ==
    ASSUME NEW S, IsFiniteSet(S), NEW r \in S,
           NEW T, T = S \ {r}, NEW ops
    PROVE  Cardinality(Of(T, ops))
             = IF r.op \in ops THEN Cardinality(Of(S, ops)) - 1 ELSE Cardinality(Of(S, ops))
<1>1. IsFiniteSet(Of(S, ops))
  BY FS_Subset, Zenon DEF Of
<1>2. CASE r.op \in ops
  <2>1. Of(T, ops) = Of(S, ops) \ {r} /\ r \in Of(S, ops)
    BY <1>2, Zenon DEF Of
  <2> QED
    BY <1>1, <1>2, <2>1, FS_RemoveElement, Zenon
<1>3. CASE r.op \notin ops
  <2>1. Of(T, ops) = Of(S, ops)
    BY <1>3, Zenon DEF Of
  <2> QED
    BY <1>3, <2>1, Zenon
<1> QED
  BY <1>2, <1>3, Zenon

LEMMA OfType ==
    ASSUME NEW S, IsFiniteSet(S), NEW ops
    PROVE  IsFiniteSet(Of(S, ops)) /\ Cardinality(Of(S, ops)) \in Nat
<1>1. Of(S, ops) \in SUBSET S
  BY Zenon DEF Of
<1> QED
  BY <1>1, FS_Subset, FS_CardinalityType, Zenon

LEMMA UnionBound ==
    ASSUME NEW S, IsFiniteSet(S), NEW T, IsFiniteSet(T)
    PROVE  IsFiniteSet(S \cup T) /\ Cardinality(S \cup T) <= Cardinality(S) + Cardinality(T)
<1>1. IsFiniteSet(S \cap T)
  BY FS_Intersection, Zenon
<1>2. Cardinality(S) \in Nat /\ Cardinality(T) \in Nat /\ Cardinality(S \cap T) \in Nat
  BY <1>1, FS_CardinalityType, Zenon
<1>3. /\ IsFiniteSet(S \cup T)
      /\ Cardinality(S \cup T) = Cardinality(S) + Cardinality(T) - Cardinality(S \cap T)
  BY FS_Union, Zenon
<1> QED
  BY <1>2, <1>3

\* Every request is a read of one of the two devices or a write.
LEMMA SplitBound ==
    ASSUME NEW S \in SUBSET Request, IsFiniteSet(S)
    PROVE  Cardinality(S) <= Cardinality(Of(S, {"TUN_READ"}))
                             + Cardinality(Of(S, {"UDP_RECV"})) + Cardinality(Of(S, Writes))
<1> DEFINE A == Of(S, {"TUN_READ"})
           B == Of(S, {"UDP_RECV"})
           C == Of(S, Writes)
<1>1. S = (A \cup B) \cup C
  BY Zenon DEF Of, Writes, Reads, Ops, Request
<1>2. /\ IsFiniteSet(A) /\ IsFiniteSet(B) /\ IsFiniteSet(C)
      /\ Cardinality(A) \in Nat /\ Cardinality(B) \in Nat /\ Cardinality(C) \in Nat
  BY OfType, Zenon
<1> HIDE DEF A, B, C
<1>3. IsFiniteSet(A \cup B) /\ Cardinality(A \cup B) <= Cardinality(A) + Cardinality(B)
  BY <1>2, UnionBound, Zenon
<1>4. Cardinality((A \cup B) \cup C) <= Cardinality(A \cup B) + Cardinality(C)
  BY <1>2, <1>3, UnionBound, Zenon
<1>5. Cardinality(A \cup B) \in Nat /\ Cardinality(S) \in Nat
  BY <1>3, FS_CardinalityType, Zenon
<1>6. Cardinality(S) <= Cardinality(A \cup B) + Cardinality(C)
  BY <1>1, <1>4, Zenon
<1>7. Cardinality(S) <= Cardinality(A) + Cardinality(B) + Cardinality(C)
  BY <1>2, <1>3, <1>5, <1>6
<1> QED
  BY <1>7, Zenon DEF A, B, C

LEMMA CountIs ==
    ASSUME NEW e, NEW ops
    PROVE  Count(e, ops) = Cardinality(Of(Outstanding(e), ops))
  BY Zenon DEF Count, Of

\* Every slot is reached from any index in fewer than pool_size probes.
LEMMA EverySlot ==
    ASSUME conf \in Configs, NEW i \in Tasks, NEW t \in Tasks
    PROVE  \E n \in Tasks : Advance(i, n) = t
<1> DEFINE N == PoolSize
<1>1. N \in Nat \ {0} /\ i \in Nat /\ t \in Nat /\ i < N /\ t < N
  BY Sizes DEF Tasks
<1> HIDE DEF N
<1>2. CASE t >= i
  <2>1. t - i \in 0 .. N - 1 /\ (i + (t - i)) % N = t
    BY <1>1, <1>2
  <2> QED
    BY <2>1, Zenon DEF Tasks, Advance, N
<1>3. CASE t < i
  <2>1. t + N - i \in 0 .. N - 1 /\ i + (t + N - i) = t + N
    BY <1>1, <1>3
  <2>2. (t + N) % N = t
    BY <1>1
  <2>3. (i + (t + N - i)) % N = t
    BY <2>1, <2>2, Zenon
  <2> QED
    BY <2>1, <2>3, Zenon DEF Tasks, Advance, N
<1> QED
  BY <1>1, <1>2, <1>3

LEMMA RoomInPool ==
    ASSUME conf \in Configs, NEW e, NEW held, Owned(e, held),
           IsFiniteSet(held), NEW n \in Nat,
           Cardinality(Outstanding(e)) <= n,
           n + Cardinality(held) < PoolSize
    PROVE  HasTask(e)
<1> DEFINE O == Outstanding(e)
           B == {r.buf : r \in O}
<1>1. IsFiniteSet(O) /\ Cardinality(O) \in Nat
  BY OutstandingFinite, FS_CardinalityType, Zenon
<1>2. IsFiniteSet(B) /\ Cardinality(B) <= Cardinality(O)
  <2> DEFINE f == [r \in O |-> r.buf]
  <2> HIDE DEF O
  <2>1. f \in Surjection(O, B)
    BY Zenon DEF Surjection
  <2> QED
    BY <2>1, <1>1, FS_Surjection, Zenon
<1>3. e.in_use \subseteq held \cup B /\ e.in_use \subseteq Tasks /\ e.pool_idx \in Tasks
  BY Zenon DEF Owned, Formed, Tracked, Bufs, Owners, EngineType
<1> HIDE DEF B, O
<1>4. IsFiniteSet(held \cup B) /\ Cardinality(held \cup B) <= Cardinality(held) + Cardinality(B)
  BY <1>2, UnionBound, Zenon
<1>5. /\ Cardinality(held) \in Nat /\ Cardinality(B) \in Nat
      /\ Cardinality(held \cup B) \in Nat
  BY <1>2, <1>4, FS_CardinalityType, Zenon
<1>6. Cardinality(Tasks) = PoolSize /\ PoolSize \in Nat
  BY Sizes, FS_Interval, SMTT(30) DEF Tasks
<1>7. Cardinality(held \cup B) < PoolSize
  BY <1>1, <1>2, <1>4, <1>5, <1>6 DEF O
<1>8. e.in_use # Tasks
  <2> SUFFICES ASSUME e.in_use = Tasks PROVE FALSE
    OBVIOUS
  <2>1. Tasks \subseteq held \cup B
    BY <1>3, Zenon
  <2>2. Cardinality(Tasks) <= Cardinality(held \cup B)
    BY <1>4, <2>1, FS_Subset, Zenon
  <2> QED
    BY <1>5, <1>6, <1>7, <2>2
<1>9. PICK t \in Tasks : t \notin e.in_use
  BY <1>3, <1>8, Zenon
<1>10. PICK m \in Tasks : Advance(e.pool_idx, m) = t
  BY <1>3, EverySlot, Zenon
<1> QED
  BY <1>9, <1>10, Zenon DEF HasTask, Hits

LEMMA CountedTotal ==
    ASSUME NEW e, NEW held, Owned(e, held), NEW a \in Nat, NEW b \in Nat, NEW w \in Nat,
           Counted(e, a, b, w)
    PROVE  Cardinality(Outstanding(e)) <= a + b + w
<1>1. IsFiniteSet(Outstanding(e)) /\ Outstanding(e) \in SUBSET Request
  BY OutstandingFinite, Zenon
<1>2. Cardinality(Outstanding(e)) \in Nat /\ Cardinality(Of(Outstanding(e), Writes)) \in Nat
  BY <1>1, FS_CardinalityType, OfType, Zenon
<1>3. /\ Cardinality(Of(Outstanding(e), {"TUN_READ"})) = a
      /\ Cardinality(Of(Outstanding(e), {"UDP_RECV"})) = b
      /\ Cardinality(Of(Outstanding(e), Writes)) <= w
  BY CountIs, Zenon DEF Counted, Backlog, Writes
<1>4. Cardinality(Outstanding(e)) <= a + b + Cardinality(Of(Outstanding(e), Writes))
  BY <1>1, <1>3, SplitBound, Zenon
<1> QED
  BY <1>2, <1>3, <1>4

LEMMA RoomInRing ==
    ASSUME conf \in Configs, NEW e, NEW held, Owned(e, held),
           NEW a \in Nat, NEW b \in Nat, NEW w, Counted(e, a, b, w),
           a + b + Threshold - 1 < conf.ring_depth
    PROVE  ~SqFull(e)
<1> DEFINE O == Outstanding(e)
<1>1. IsFiniteSet(O) /\ IsFiniteSet(e.sq) /\ e.sq \in SUBSET O /\ e \in EngineType
  BY OutstandingFinite, Zenon DEF Owned, Formed, Outstanding
<1>2. ASSUME NEW ops
      PROVE  /\ Cardinality(Of(e.sq, ops)) \in Nat /\ Cardinality(Of(O, ops)) \in Nat
             /\ Cardinality(Of(e.sq, ops)) <= Cardinality(Of(O, ops))
  <2>1. Of(e.sq, ops) \in SUBSET Of(O, ops)
    BY <1>1, Zenon DEF Of
  <2> QED
    BY <1>1, <2>1, OfType, FS_Subset, Zenon
<1>3. Cardinality(Of(O, {"TUN_READ"})) = a /\ Cardinality(Of(O, {"UDP_RECV"})) = b
  BY CountIs, Zenon DEF Counted
<1>4. Cardinality(e.sq) <= Cardinality(Of(e.sq, {"TUN_READ"}))
                        + Cardinality(Of(e.sq, {"UDP_RECV"})) + Cardinality(Of(e.sq, Writes))
  <2>1. e.sq \in SUBSET Request
    BY <1>1, Zenon DEF EngineType
  <2> QED
    BY <1>1, <2>1, SplitBound, Zenon
<1>5. /\ Cardinality(Of(e.sq, Writes)) <= e.pending /\ e.pending \in 0 .. Threshold - 1
      /\ Threshold \in Nat /\ conf.ring_depth \in Nat /\ Cardinality(e.sq) \in Nat
  BY <1>1, Sizes, FS_CardinalityType, Zenon DEF Counted, EngineType
<1> HIDE DEF O
<1>6. Cardinality(e.sq) < conf.ring_depth
  <2>1. /\ Cardinality(Of(e.sq, {"TUN_READ"})) \in Nat
        /\ Cardinality(Of(e.sq, {"TUN_READ"})) <= a
    BY <1>2, <1>3, Zenon
  <2>2. /\ Cardinality(Of(e.sq, {"UDP_RECV"})) \in Nat
        /\ Cardinality(Of(e.sq, {"UDP_RECV"})) <= b
    BY <1>2, <1>3, Zenon
  <2>3. Cardinality(Of(e.sq, Writes)) \in Nat
    BY <1>2, Zenon
  <2> QED
    BY <1>4, <1>5, <2>1, <2>2, <2>3
<1> QED
  BY <1>5, <1>6 DEF SqFull

-----------------------------------------------------------------------------
\* How each call changes the counts.

LEMMA SameCounted ==
    ASSUME NEW e, NEW f, NEW a, NEW b, NEW w, Counted(e, a, b, w),
           Outstanding(f) = Outstanding(e), f.sq = e.sq, f.pending = e.pending
    PROVE  Counted(f, a, b, w)
  BY Zenon DEF Counted, Count, Backlog

LEMMA FlushCounted ==
    ASSUME NEW e, NEW f, NEW a, NEW b, NEW w, Counted(e, a, b, w),
           Outstanding(f) = Outstanding(e), f.sq = {}, f.pending \in Nat
    PROVE  Counted(f, a, b, w)
<1>1. Of(f.sq, Writes) = {}
  BY Zenon DEF Of
<1>2. Cardinality(Of(f.sq, Writes)) <= f.pending
  BY <1>1, FS_EmptySet
<1> QED
  BY <1>2, Zenon DEF Counted, Count, Backlog

LEMMA SubmitCounted ==
    ASSUME conf \in Configs, NEW e, NEW held, Owned(e, held),
           NEW a, NEW b, NEW w, Counted(e, a, b, w)
    PROVE  Counted(io_uring_submit(e), a, b, w)
<1> DEFINE f == io_uring_submit(e)
<1>1. /\ f \in EngineType /\ f.sq = {} /\ f.kernel = e.kernel \cup e.sq
  BY Submitted, Zenon DEF Owned, Formed
<1> HIDE DEF f
<1>2. Outstanding(f) = Outstanding(e)
  BY <1>1, Zenon DEF Outstanding
<1>3. f.pending \in Nat
  BY <1>1, Sizes DEF EngineType
<1>4. Counted(f, a, b, w)
  BY <1>1, <1>2, <1>3, FlushCounted, Zenon
<1> QED
  BY <1>4, Zenon DEF f

LEMMA ReleaseCounted ==
    ASSUME NEW e, NEW held, Owned(e, held), NEW t,
           NEW a, NEW b, NEW w, Counted(e, a, b, w)
    PROVE  Counted(Release(e, t), a, b, w)
<1> DEFINE f == Release(e, t)
<1>1. f.sq = e.sq /\ f.kernel = e.kernel /\ f.pending = e.pending
  BY Released, Zenon DEF Owned, Formed
<1> HIDE DEF f
<1>2. Outstanding(f) = Outstanding(e)
  BY <1>1, Zenon DEF Outstanding
<1>3. Counted(f, a, b, w)
  BY <1>1, <1>2, SameCounted, Zenon
<1> QED
  BY <1>3, Zenon DEF f

LEMMA TakeCounted ==
    ASSUME conf \in Configs, NEW e, NEW held, Owned(e, held),
           NEW a, NEW b, NEW w, Counted(e, a, b, w)
    PROVE  Counted(get_task_from_instance(e), a, b, w)
<1> DEFINE f == get_task_from_instance(e)
<1>1. f.sq = e.sq /\ f.kernel = e.kernel /\ f.pending = e.pending
  BY TaskTaken, NoneTaken, Zenon DEF Owned, Formed
<1> HIDE DEF f
<1>2. Outstanding(f) = Outstanding(e)
  BY <1>1, Zenon DEF Outstanding
<1>3. Counted(f, a, b, w)
  BY <1>1, <1>2, SameCounted, Zenon
<1> QED
  BY <1>3, Zenon DEF f

\* A queued request counts for its operation, and for no other.
LEMMA AddsCounts ==
    ASSUME NEW e, NEW held, Owned(e, held), NEW f, NEW r, Adds(e, f, r), NEW ops
    PROVE  /\ Count(f, ops) = IF r.op \in ops THEN Count(e, ops) + 1 ELSE Count(e, ops)
           /\ Cardinality(Of(f.sq, ops))
                = IF r.op \in ops THEN Cardinality(Of(e.sq, ops)) + 1
                  ELSE Cardinality(Of(e.sq, ops))
<1>1. r \notin Outstanding(e) /\ f.sq = e.sq \cup {r} /\ f.kernel = e.kernel
  BY Zenon DEF Adds
<1>2. Outstanding(f) = Outstanding(e) \cup {r} /\ r \notin e.sq
  BY <1>1, Zenon DEF Outstanding
<1>3. IsFiniteSet(Outstanding(e)) /\ IsFiniteSet(e.sq)
  BY OutstandingFinite, Zenon DEF Owned, Formed
<1>4. Cardinality(Of(Outstanding(f), ops))
        = IF r.op \in ops THEN Cardinality(Of(Outstanding(e), ops)) + 1
          ELSE Cardinality(Of(Outstanding(e), ops))
  BY <1>1, <1>2, <1>3, OfAdd, SMTT(30)
<1>5. Cardinality(Of(f.sq, ops))
        = IF r.op \in ops THEN Cardinality(Of(e.sq, ops)) + 1
          ELSE Cardinality(Of(e.sq, ops))
  BY <1>1, <1>2, <1>3, OfAdd
<1> QED
  BY <1>4, <1>5, CountIs, Zenon

LEMMA AddsRead ==
    ASSUME NEW e, NEW held, Owned(e, held), NEW f, NEW r, Adds(e, f, r),
           NEW a \in Nat, NEW b \in Nat, NEW w, Counted(e, a, b, w)
    PROVE  /\ r.op = "TUN_READ" => Counted(f, a + 1, b, w)
           /\ r.op = "UDP_RECV" => Counted(f, a, b + 1, w)
<1>1. f.pending = e.pending
  BY Zenon DEF Adds
<1>2. ASSUME r.op \in Reads
      PROVE  Backlog(f) = Backlog(e) /\ Cardinality(Of(f.sq, Writes)) = Cardinality(Of(e.sq, Writes))
  <2>1. r.op \notin Writes /\ r.op \notin Ops \ Reads
    BY <1>2, Zenon DEF Writes
  <2> QED
    BY <2>1, AddsCounts DEF Backlog
<1>3. Count(f, {"TUN_READ"}) = IF r.op = "TUN_READ" THEN a + 1 ELSE a
  BY AddsCounts DEF Counted
<1>4. Count(f, {"UDP_RECV"}) = IF r.op = "UDP_RECV" THEN b + 1 ELSE b
  BY AddsCounts DEF Counted
<1> QED
  BY <1>1, <1>2, <1>3, <1>4, Zenon DEF Counted, Reads

\* A queued write is counted in the backlog; pending does not count it yet.
LEMMA AddsWrite ==
    ASSUME NEW e, NEW held, Owned(e, held), NEW f, NEW r, Adds(e, f, r),
           r.op \in Writes,
           NEW a, NEW b, NEW w \in Nat, Counted(e, a, b, w)
    PROVE  /\ Count(f, {"TUN_READ"}) = a /\ Count(f, {"UDP_RECV"}) = b
           /\ Backlog(f) <= w + 1
           /\ Cardinality(Of(f.sq, Writes)) <= f.pending + 1
<1>1. f.pending = e.pending /\ e \in EngineType
  BY Zenon DEF Adds, Owned, Formed
<1>2. r.op \in Writes /\ r.op \in Ops \ Reads /\ r.op \notin {"TUN_READ"} /\ r.op \notin {"UDP_RECV"}
  BY Zenon DEF Writes, Reads, Ops
<1>3. Count(f, {"TUN_READ"}) = a /\ Count(f, {"UDP_RECV"}) = b
  BY <1>2, AddsCounts DEF Counted
<1>4. Backlog(f) = Backlog(e) + 1
  BY <1>2, AddsCounts DEF Backlog
<1>5. Cardinality(Of(f.sq, Writes)) = Cardinality(Of(e.sq, Writes)) + 1
  BY <1>2, AddsCounts, SMTT(30)
<1>6. Backlog(e) \in Nat /\ Cardinality(Of(e.sq, Writes)) \in Nat
  BY OutstandingFinite, OfType, CountIs, Zenon DEF Backlog, Owned, Formed
<1>7. Backlog(e) <= w /\ Cardinality(Of(e.sq, Writes)) <= e.pending /\ e.pending \in Int
  BY <1>1, Sizes DEF Counted, EngineType
<1> QED
  BY <1>1, <1>3, <1>4, <1>5, <1>6, <1>7, SMTT(30)

LEMMA CountsType ==
    ASSUME NEW e, NEW held, Owned(e, held), NEW ops
    PROVE  Count(e, ops) \in Nat /\ Cardinality(Of(e.sq, ops)) \in Nat
  BY OutstandingFinite, OfType, CountIs, Zenon DEF Owned, Formed

LEMMA Weaken ==
    ASSUME NEW e, NEW held, Owned(e, held), NEW a, NEW b, NEW v \in Nat, NEW w \in Nat,
           v <= w, Counted(e, a, b, v)
    PROVE  Counted(e, a, b, w)
<1>1. Backlog(e) \in Nat
  BY CountsType, Zenon DEF Backlog
<1> QED
  BY <1>1 DEF Counted

LEMMA WriteCounted ==
    ASSUME conf \in Configs, NEW e, NEW held, Owned(e, held), NEW t \in Tasks,
           NEW op \in Writes, NEW al \in BOOLEAN, NEW a, NEW b, NEW w \in Nat, Counted(e, a, b, w)
    PROVE  Counted(vf_io_write(e, op, t, al), a, b, w + 1)
<1> DEFINE q == Queue(e, op, t, al)
           f == SubmitAtThreshold(q)
<1>0. op \in Ops
  BY Zenon DEF Writes
<1>1. CASE SqFull(e)
  <2>1. \/ vf_io_write(e, op, t, al) = Release(e, t)
        \/ vf_io_write(e, op, t, al) = e
    BY <1>1, Zenon DEF vf_io_write, ReleaseOwner
  <2>2. Counted(e, a, b, w + 1)
    BY Weaken
  <2>3. Counted(Release(e, t), a, b, w + 1)
    BY <2>2, ReleaseCounted, Zenon
  <2> QED
    BY <2>1, <2>2, <2>3, Zenon
<1>2. CASE ~SqFull(e)
  <2>1. PICK r : Adds(e, q, r) /\ WorksOn(r, op, t, al)
    BY <1>0, QueueAdds, Zenon
  <2>2. q \in EngineType
    BY <2>1, Zenon DEF Adds
  <2>3. vf_io_write(e, op, t, al) = f
    BY <1>2, Zenon DEF vf_io_write
  <2> HIDE DEF q
  <2>4. /\ Count(q, {"TUN_READ"}) = a /\ Count(q, {"UDP_RECV"}) = b
        /\ Backlog(q) <= w + 1
        /\ Cardinality(Of(q.sq, Writes)) <= q.pending + 1
    BY <2>1, AddsWrite, Zenon DEF WorksOn
  <2>5. \/ f.sq = {} /\ f.kernel = q.kernel \cup q.sq /\ f.pending = 0
        \/ f.sq = q.sq /\ f.kernel = q.kernel /\ f.pending = q.pending + 1
    BY <2>2, ThresholdFields, Zenon
  <2> HIDE DEF f
  <2>6. Outstanding(f) = Outstanding(q)
    BY <2>5, Zenon DEF Outstanding
  <2>7. /\ Count(f, {"TUN_READ"}) = a /\ Count(f, {"UDP_RECV"}) = b
        /\ Backlog(f) <= w + 1
    BY <2>4, <2>6, Zenon DEF Count, Backlog
  <2>8. Cardinality(Of(f.sq, Writes)) <= f.pending
    <3>1. CASE f.sq = {} /\ f.pending = 0
      <4>1. Of(f.sq, Writes) = {}
        BY <3>1, Zenon DEF Of
      <4> QED
        BY <3>1, <4>1, FS_EmptySet
    <3>2. CASE f.sq = q.sq /\ f.pending = q.pending + 1
      BY <3>2, <2>4, Zenon
    <3> QED
      BY <3>1, <3>2, <2>5, Zenon
  <2> QED
    BY <2>3, <2>7, <2>8, Zenon DEF Counted
<1> QED
  BY <1>1, <1>2, Zenon

\* A read is posted where pool and ring have room.
LEMMA ReadCounted ==
    ASSUME conf \in Configs, Sized, NEW e, NEW held, Owned(e, held),
           IsFiniteSet(held), Cardinality(held) <= 1,
           NEW a \in Nat, NEW b \in Nat, a + b < 2 * WarmUp,
           Counted(e, a, b, MaxBacklog)
    PROVE  /\ Counted(vf_io_read(e, "TUN_READ"), a + 1, b, MaxBacklog)
           /\ Counted(vf_io_read(e, "UDP_RECV"), a, b + 1, MaxBacklog)
<1> DEFINE t == TaskFrom(e)
           g == get_task_from_instance(e)
<1>0. /\ PoolSize \in Nat /\ conf.ring_depth \in Nat /\ WarmUp \in Nat
      /\ Threshold \in Nat /\ MaxBacklog \in Nat /\ Cardinality(held) \in Nat
  BY Sizes, FS_CardinalityType, Zenon
<1>1. HasTask(e)
  <2>1. Cardinality(Outstanding(e)) <= a + b + MaxBacklog
    BY <1>0, CountedTotal, Zenon
  <2>2. a + b + MaxBacklog \in Nat /\ a + b + MaxBacklog + Cardinality(held) < PoolSize
    BY <1>0 DEF Sized
  <2> QED
    BY <2>1, <2>2, RoomInPool, Zenon
<1>2. ~SqFull(e)
  <2>1. a + b + Threshold - 1 < conf.ring_depth
    BY <1>0 DEF Sized
  <2> QED
    BY <2>1, RoomInRing, Zenon
<1>3. t \in Tasks /\ Owned(g, held \cup {t}) /\ Counted(g, a, b, MaxBacklog)
  BY <1>1, TakeHeld, TakeCounted, Zenon
<1>4. ASSUME NEW op \in Reads
      PROVE  \E r : Adds(g, vf_io_read(e, op), r) /\ r.op = op
  <2>1. op \in Ops
    BY Zenon DEF Reads, Ops
  <2>2. vf_io_read(e, op) = Queue(g, op, t, TRUE)
    BY <1>1, <1>2, Zenon DEF vf_io_read
  <2> HIDE DEF g, t
  <2>3. PICK r : Adds(g, Queue(g, op, t, TRUE), r) /\ WorksOn(r, op, t, TRUE)
    BY <1>3, <2>1, QueueAdds, Zenon
  <2> QED
    BY <2>2, <2>3, Zenon DEF WorksOn
<1> HIDE DEF g, t
<1>5. Counted(vf_io_read(e, "TUN_READ"), a + 1, b, MaxBacklog)
  <2>1. PICK r : Adds(g, vf_io_read(e, "TUN_READ"), r) /\ r.op = "TUN_READ"
    BY <1>4, Zenon DEF Reads
  <2> QED
    BY <1>3, <2>1, AddsRead, Zenon
<1>6. Counted(vf_io_read(e, "UDP_RECV"), a, b + 1, MaxBacklog)
  <2>1. PICK r : Adds(g, vf_io_read(e, "UDP_RECV"), r) /\ r.op = "UDP_RECV"
    BY <1>4, Zenon DEF Reads
  <2> QED
    BY <1>3, <2>1, AddsRead, Zenon
<1> QED
  BY <1>5, <1>6, Zenon

LEMMA ProbeCounted ==
    ASSUME conf \in Configs, NEW e, Owned(e, {}), NEW a, NEW b, NEW w \in Nat,
           Counted(e, a, b, w)
    PROVE  Counted(Probe(e), a, b, w + 1)
<1> DEFINE t == TaskFrom(e)
           g == get_task_from_instance(e)
<1>1. Counted(g, a, b, w)
  BY TakeCounted, Zenon
<1>2. CASE ~HasTask(e)
  <2>1. Owned(g, {})
    BY <1>2, NoneHeld, Zenon
  <2>2. Probe(e) = g
    BY <1>2, Zenon DEF Probe
  <2> QED
    BY <1>1, <2>1, <2>2, Weaken
<1>3. CASE HasTask(e)
  <2>1. t \in Tasks /\ Owned(g, {} \cup {t}) /\ "UDP_SEND" \in Writes
    BY <1>3, TakeHeld, Zenon DEF Writes, Ops, Reads
  <2>2. Probe(e) = vf_io_write(g, "UDP_SEND", t, TRUE)
    BY <1>3, Zenon DEF Probe
  <2> HIDE DEF g, t
  <2> QED
    BY <1>1, <2>1, <2>2, WriteCounted, Zenon
<1> QED
  BY <1>2, <1>3, Zenon

\* A completed read leaves one read fewer, a completed write no read fewer.
LEMMA ReapCounted ==
    ASSUME conf \in Configs, NEW e, Owned(e, {}), NEW r \in e.kernel,
           NEW a \in Nat, NEW b \in Nat, NEW w \in Nat, Counted(e, a, b, w)
    PROVE  /\ r.op = "TUN_READ" => a - 1 \in Nat /\ Counted(Reaped(e, r), a - 1, b, w)
           /\ r.op = "UDP_RECV" => b - 1 \in Nat /\ Counted(Reaped(e, r), a, b - 1, w)
           /\ r.op \notin Reads => Counted(Reaped(e, r), a, b, w)
<1> DEFINE f == Reaped(e, r)
           O == Outstanding(e)
<1>1. f.sq = e.sq /\ f.kernel = e.kernel \ {r} /\ f.pending = e.pending
  BY ReapedFields, Zenon DEF Owned, Formed
<1>2. Owned(f, {r.buf}) \/ Owned(f, {})
  BY ReapOwned, ReapPayload, Zenon
<1> HIDE DEF f
<1>3. Outstanding(f) = O \ {r} /\ r \in O /\ IsFiniteSet(O)
  <2>1. e.sq \cap e.kernel = {}
    BY Zenon DEF Owned, Formed
  <2>2. IsFiniteSet(O)
    BY OutstandingFinite, Zenon
  <2> QED
    BY <1>1, <2>1, <2>2, Zenon DEF Outstanding
<1> HIDE DEF O
<1>4. ASSUME NEW ops
      PROVE  /\ Count(f, ops) = IF r.op \in ops THEN Count(e, ops) - 1 ELSE Count(e, ops)
             /\ Count(f, ops) \in Nat /\ Count(e, ops) \in Nat
  <2>1. Cardinality(Of(Outstanding(f), ops))
          = IF r.op \in ops THEN Cardinality(Of(O, ops)) - 1 ELSE Cardinality(Of(O, ops))
    BY <1>3, OfRemove
  <2>2. Count(f, ops) \in Nat /\ Count(e, ops) \in Nat
    BY <1>2, CountsType, Zenon
  <2> QED
    BY <2>1, <2>2, CountIs, Zenon DEF O
<1>5. Count(f, {"TUN_READ"}) = (IF r.op = "TUN_READ" THEN a - 1 ELSE a)
      /\ Count(f, {"TUN_READ"}) \in Nat
  BY <1>4, Zenon DEF Counted
<1>6. Count(f, {"UDP_RECV"}) = (IF r.op = "UDP_RECV" THEN b - 1 ELSE b)
      /\ Count(f, {"UDP_RECV"}) \in Nat
  BY <1>4, Zenon DEF Counted
<1>7. Backlog(f) <= w
  <2>1. /\ Backlog(f) = Backlog(e) \/ Backlog(f) = Backlog(e) - 1
        /\ Backlog(e) \in Nat
    BY <1>4, Zenon DEF Backlog
  <2> QED
    BY <2>1 DEF Counted
<1>8. Cardinality(Of(f.sq, Writes)) <= f.pending
  BY <1>1, Zenon DEF Counted
<1> QED
  BY <1>5, <1>6, <1>7, <1>8, Zenon DEF Counted, Reads, f

\* The read that completed is posted again.
LEMMA FinishCounted ==
    ASSUME conf \in Configs, Sized, NEW e, NEW r, r.op \in Reads, Owned(e, {r.buf}),
           NEW outcome \in conf.outcomes,
           NEW a \in Nat, NEW b \in Nat, a + b < 2 * WarmUp,
           NEW w \in Nat, w <= MaxBacklog, outcome # "drop" => w < MaxBacklog,
           Counted(e, a, b, w)
    PROVE  LET f == Finish(Callback(e, r.buf, outcome), r, outcome)
           IN  /\ r.op = "TUN_READ" => Counted(f, a + 1, b, MaxBacklog)
               /\ r.op = "UDP_RECV" => Counted(f, a, b + 1, MaxBacklog)
<1> DEFINE t == r.buf
           v == vf_io_write(e, "UDP_SEND", t, TRUE)
           s == io_uring_submit(v)
           p == vf_io_write(e, "TUN_WRITE", t, FALSE)
           Back(f) == /\ r.op = "TUN_READ" => Counted(f, a + 1, b, MaxBacklog)
                      /\ r.op = "UDP_RECV" => Counted(f, a, b + 1, MaxBacklog)
<1>0. /\ MaxBacklog \in Nat /\ IsFiniteSet({t}) /\ Cardinality({t}) = 1
      /\ IsFiniteSet({}) /\ Cardinality({}) = 0
  BY Sizes, FS_Singleton, FS_EmptySet, Zenon
<1>a. /\ t \in Tasks /\ outcome \in AllOutcomes /\ r.op \in Ops
      /\ "UDP_SEND" \in Writes /\ "TUN_WRITE" \in Writes
  BY EngineAssumption, Zenon DEF Owned, Tracked, Writes, Ops, Reads
<1>b. ASSUME NEW x, NEW held, Owned(x, held), Back(vf_io_read(x, r.op))
      PROVE  Back(Release(vf_io_read(x, r.op), t))
  <2>1. Owned(vf_io_read(x, r.op), held)
    BY <1>a, <1>b, ReadOwned, Zenon
  <2> QED
    BY <1>b, <2>1, ReleaseCounted, Zenon
<1>1. CASE outcome = "drop"
  <2>1. Counted(e, a, b, MaxBacklog)
    BY <1>0, Weaken, Zenon
  <2>2. Back(vf_io_read(e, r.op))
    BY <1>0, <2>1, ReadCounted
  <2>3. Back(Release(vf_io_read(e, r.op), t))
    BY <2>2, <1>b, Zenon
  <2>4. Finish(Callback(e, t, outcome), r, outcome) = Release(vf_io_read(e, r.op), t)
    BY <1>1, Zenon DEF Finish, Callback, IO_TASK_USE
  <2> QED
    BY <2>3, <2>4, Zenon
<1>2. CASE outcome \in {"reply", "answer", "ack"}
  <2>1. Counted(v, a, b, w + 1) /\ Owned(v, {})
    <3>1. Owned(v, {t} \ {t})
      BY WriteOwned, Zenon DEF Ops
    <3> QED
      BY <1>a, <3>1, NothingLeft, WriteCounted, Zenon
  <2>2. w + 1 \in Nat /\ w + 1 <= MaxBacklog
    BY <1>0, <1>2
  <2> HIDE DEF v
  <2>3. Counted(v, a, b, MaxBacklog)
    BY <1>0, <2>1, <2>2, Weaken, Zenon
  <2>4. Counted(s, a, b, MaxBacklog) /\ Owned(s, {})
    BY <2>1, <2>3, SubmitCounted, SubmitOwned, Zenon
  <2>5. Finish(Callback(e, t, outcome), r, outcome)
          = CASE outcome = "reply" -> vf_io_read(v, r.op)
              [] outcome = "answer" -> vf_io_read(s, r.op)
              [] outcome = "ack" -> Release(vf_io_read(v, r.op), t)
    BY <1>2, Zenon DEF Finish, Callback, IO_TASK_USE, v
  <2> HIDE DEF s
  <2>6. Back(vf_io_read(v, r.op))
    BY <1>0, <2>1, <2>3, ReadCounted
  <2>7. Back(vf_io_read(s, r.op))
    BY <1>0, <2>4, ReadCounted
  <2>8. Back(Release(vf_io_read(v, r.op), t))
    BY <1>b, <2>1, <2>6, Zenon
  <2> QED
    BY <1>2, <2>5, <2>6, <2>7, <2>8, Zenon
<1>3. CASE outcome = "forward"
  <2>1. Counted(p, a, b, w + 1) /\ Owned(p, {t})
    BY <1>a, PayloadOwned, WriteCounted, Zenon
  <2>2. w + 1 \in Nat /\ w + 1 <= MaxBacklog
    BY <1>0, <1>3
  <2>3. Finish(Callback(e, t, outcome), r, outcome) = Release(vf_io_read(p, r.op), t)
    BY <1>3, Zenon DEF Finish, Callback, IO_TASK_USE
  <2> HIDE DEF p
  <2>4. Counted(p, a, b, MaxBacklog)
    BY <1>0, <2>1, <2>2, Weaken, Zenon
  <2>5. Back(vf_io_read(p, r.op))
    BY <1>0, <2>1, <2>4, ReadCounted
  <2>6. Back(Release(vf_io_read(p, r.op), t))
    BY <1>b, <2>1, <2>5, Zenon
  <2> QED
    BY <2>3, <2>6, Zenon
<1> QED
  BY <1>a, <1>1, <1>2, <1>3, Zenon DEF AllOutcomes

\* The reads posted before the loop are outstanding ever after.
PipelineInv ==
    /\ EngineInv
    /\ Running => posted = WarmUp
    /\ Sized => Counted(engine, posted, posted, MaxBacklog)

LEMMA PipelineStep ==
    ASSUME PipelineInv, [Next]_vars, Sized
    PROVE  Counted(engine', posted', posted', MaxBacklog)
<1> USE DEF EngineInv
<1>0. /\ conf \in Configs /\ Owned(engine, {}) /\ posted \in Nat /\ WarmUp \in Nat \ {0}
      /\ MaxBacklog \in Nat /\ Counted(engine, posted, posted, MaxBacklog)
      /\ posted <= WarmUp /\ IsFiniteSet({}) /\ Cardinality({}) = 0
  BY Sizes, FS_EmptySet DEF PipelineInv
<1>b. ASSUME Backlog(engine) < MaxBacklog
      PROVE  /\ MaxBacklog - 1 \in Nat
             /\ Counted(engine, posted, posted, MaxBacklog - 1)
  <2>1. Backlog(engine) \in Nat
    BY <1>0, CountsType, Zenon DEF Backlog
  <2> QED
    BY <1>b, <1>0, <2>1 DEF Counted
<1>1. CASE Post
  <2> DEFINE e == vf_io_read(engine, "TUN_READ")
  <2>1. posted + posted < 2 * WarmUp /\ posted + 1 + posted < 2 * WarmUp /\ posted + 1 \in Nat
    BY <1>0, <1>1 DEF Post
  <2>2. Owned(e, {}) /\ Counted(e, posted + 1, posted, MaxBacklog)
    BY <1>0, <2>1, ReadOwned, ReadCounted DEF Ops
  <2> HIDE DEF e
  <2>3. Counted(vf_io_read(e, "UDP_RECV"), posted + 1, posted + 1, MaxBacklog)
    BY <1>0, <2>1, <2>2, ReadCounted
  <2> QED
    BY <1>1, <2>3, Zenon DEF Post, e
<1>2. CASE Start \/ EndBatch \/ Wait
  <2>1. Counted(io_uring_submit(engine), posted, posted, MaxBacklog)
    BY <1>0, SubmitCounted, Zenon
  <2> QED
    BY <1>2, <2>1, Zenon DEF Start, EndBatch, Wait
<1>3. ASSUME Running, NEW r \in engine.kernel, NEW outcome \in Possible(r.op),
             ReapRead(r, outcome)
      PROVE  Counted(engine', posted', posted', MaxBacklog)
  <2> DEFINE e == Reaped(engine, r)
             f == Finish(Callback(e, r.buf, outcome), r, outcome)
             w == IF outcome = "drop" THEN MaxBacklog ELSE MaxBacklog - 1
  <2>1. outcome \in conf.outcomes /\ r.op \in Reads /\ posted' = posted /\ engine' = f
    BY <1>3, Zenon DEF Possible, ReapRead
  <2>2. /\ w \in Nat /\ w <= MaxBacklog /\ (outcome # "drop" => w < MaxBacklog)
        /\ Counted(engine, posted, posted, w)
    BY <1>0, <1>b, <1>3, SMTT(30) DEF ReapRead
  <2>3. Owned(e, {r.buf})
    <3>1. r.aligned
      BY <1>0, <2>1, Zenon DEF Owned, Formed, Outstanding
    <3> QED
      BY <1>0, <3>1, ReapOwned, Zenon
  <2> HIDE DEF w, e
  <2>4. CASE r.op = "TUN_READ"
    <3>1. posted - 1 \in Nat /\ Counted(e, posted - 1, posted, w)
      BY <1>0, <2>2, <2>4, ReapCounted, Zenon DEF e
    <3>2. posted - 1 + posted < 2 * WarmUp /\ posted - 1 + 1 = posted
      BY <1>0, <3>1, SMTT(30)
    <3>3. Counted(f, posted - 1 + 1, posted, MaxBacklog)
      BY <1>0, <2>1, <2>2, <2>3, <2>4, <3>1, <3>2, FinishCounted, Zenon
    <3> QED
      BY <2>1, <3>2, <3>3, Zenon
  <2>5. CASE r.op = "UDP_RECV"
    <3>1. posted - 1 \in Nat /\ Counted(e, posted, posted - 1, w)
      BY <1>0, <2>2, <2>5, ReapCounted, Zenon DEF e
    <3>2. posted + (posted - 1) < 2 * WarmUp /\ posted - 1 + 1 = posted
      BY <1>0, <3>1, SMTT(30)
    <3>3. Counted(f, posted, posted - 1 + 1, MaxBacklog)
      BY <1>0, <2>1, <2>2, <2>3, <2>5, <3>1, <3>2, FinishCounted, Zenon
    <3> QED
      BY <2>1, <3>2, <3>3, Zenon
  <2> QED
    BY <2>1, <2>4, <2>5, Zenon DEF Reads
<1>4. ASSUME NEW r \in engine.kernel, ReapWrite(r)
      PROVE  Counted(engine', posted', posted', MaxBacklog)
  <2> DEFINE e == Reaped(engine, r)
  <2>1. /\ Counted(e, posted, posted, MaxBacklog)
        /\ Owned(e, {r.buf}) \/ Owned(e, {})
    BY <1>0, <1>4, ReapCounted, ReapOwned, ReapPayload, Zenon DEF ReapWrite
  <2>2. engine' = e \/ engine' = Release(e, r.buf)
    BY <1>4, Zenon DEF ReapWrite, ReleaseOwner
  <2>3. posted' = posted
    BY <1>4, Zenon DEF ReapWrite
  <2> HIDE DEF e
  <2>4. Counted(Release(e, r.buf), posted, posted, MaxBacklog)
    BY <2>1, ReleaseCounted, Zenon
  <2> QED
    BY <2>1, <2>2, <2>3, <2>4, Zenon
<1>5. CASE Timer
  <2>1. MaxBacklog - 1 \in Nat /\ Counted(engine, posted, posted, MaxBacklog - 1)
    BY <1>5, <1>b, Zenon DEF Timer
  <2>2. Counted(Probe(engine), posted, posted, MaxBacklog - 1 + 1)
    BY <1>0, <2>1, ProbeCounted, Zenon
  <2>3. MaxBacklog - 1 + 1 = MaxBacklog
    BY <1>0
  <2> QED
    BY <1>5, <2>2, <2>3, Zenon DEF Timer
<1>6. CASE UNCHANGED vars
  BY <1>0, <1>6, Zenon DEF vars
<1> QED
  BY <1>1, <1>2, <1>3, <1>4, <1>5, <1>6, Zenon DEF Next

LEMMA CountedNext ==
    ASSUME Counted(engine', posted', posted', MaxBacklog)
    PROVE  (Counted(engine, posted, posted, MaxBacklog))'
  BY Zenon DEF Counted, Count, Backlog, Of, Outstanding, Writes, Ops, Reads

LEMMA RunningStep ==
    ASSUME PipelineInv, [Next]_vars
    PROVE  (Running => posted = WarmUp)'
<1>1. ASSUME NEW r \in engine.kernel, NEW outcome, Running, ReapRead(r, outcome)
      PROVE  posted' = WarmUp
  BY <1>1, Zenon DEF ReapRead, PipelineInv
<1>2. ASSUME NEW r \in engine.kernel, Running, ReapWrite(r)
      PROVE  posted' = WarmUp
  BY <1>2, Zenon DEF ReapWrite, PipelineInv
<1>3. CASE Post \/ Start \/ EndBatch \/ Timer \/ Wait \/ UNCHANGED vars
  BY <1>3, Zenon DEF PipelineInv, Post, Start, EndBatch, Timer, Wait, vars, Running
<1> QED
  BY <1>1, <1>2, <1>3, Zenon DEF Next

(***************************************************************************)
(* For every pool and ring that are large enough for the reads, the        *)
(* backlog of writes and a batch below the threshold, every order of       *)
(* completions and everything the callbacks do: vf_io_run always has all   *)
(* its reads posted on each device.  A read is never skipped for want of a *)
(* task or of a submission entry.                                          *)
(***************************************************************************)
THEOREM PipelineFullAlways == Spec => []PipelineFull
<1>1. Init => PipelineInv
  <2> SUFFICES ASSUME Init PROVE PipelineInv
    OBVIOUS
  <2>1. EngineInv /\ ~Running /\ posted = 0 /\ MaxBacklog \in Nat
    BY EngineInit, Sizes, Zenon DEF Init, Running
  <2>2. engine.sq = {} /\ engine.kernel = {} /\ engine.pending = 0
    BY Zenon DEF Init
  <2>3. \A ops : Count(engine, ops) = 0 /\ Cardinality(Of(engine.sq, ops)) = 0
    <3>1. \A ops : {r \in Outstanding(engine) : r.op \in ops} = {} /\ Of(engine.sq, ops) = {}
      BY <2>2, Zenon DEF Outstanding, Of
    <3> QED
      BY <3>1, FS_EmptySet, Zenon DEF Count
  <2>4. Counted(engine, posted, posted, MaxBacklog)
    BY <2>1, <2>2, <2>3 DEF Counted, Backlog
  <2> QED
    BY <2>1, <2>4, Zenon DEF PipelineInv
<1>2. PipelineInv /\ [Next]_vars => PipelineInv'
  <2> SUFFICES ASSUME PipelineInv, [Next]_vars PROVE PipelineInv'
    OBVIOUS
  <2>1. EngineInv'
    BY EngineStep, LoopStep, OwnedNext, Zenon DEF EngineInv, PipelineInv
  <2>2. conf' = conf
    BY EngineStep, Zenon DEF PipelineInv
  <2>3. Sized' => Sized
    BY <2>2, Zenon DEF Sized, PoolSize
  <2>4. (Sized => Counted(engine, posted, posted, MaxBacklog))'
    BY <2>3, PipelineStep, CountedNext, Zenon
  <2> QED
    BY <2>1, <2>4, RunningStep, Zenon DEF PipelineInv
<1>3. PipelineInv => PipelineFull
  BY Zenon DEF PipelineInv, PipelineFull, Counted, Reads
<1> QED
  BY <1>1, <1>2, <1>3, PTL DEF Spec
=============================================================================
