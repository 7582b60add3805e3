------------------------------ MODULE IoEngine ------------------------------
(***************************************************************************)
(* The io_uring engine (io.c) under its event loop: a pool of task buffers *)
(* guarded by in_use flags and a rotating index, a submission queue, the   *)
(* requests the kernel works on, and the loop that reaps completions, runs *)
(* the callbacks of vfast_server.c and vfast_client.c, posts the next read *)
(* and releases the buffer.                                                *)
(*                                                                         *)
(* A request in the kernel may complete at any moment, in any order, with  *)
(* data or with an error.  A callback is told apart only by what it does   *)
(* to its task.  The engine is a record so that one loop iteration reads   *)
(* as the sequence of calls it is.                                         *)
(***************************************************************************)
EXTENDS Integers, FiniteSets

CONSTANTS
    Configs,        \* configurations [pool_size, ring_depth, outcomes]: the tasks,
                    \* the entries of the submission queue, and what callbacks
                    \* do, a subset of AllOutcomes
    WarmUp,         \* reads posted per device at start (16)
    Threshold,      \* SUBMIT_THRESHOLD (8); 1 for pools of at most 64 tasks
    MaxBacklog      \* bound: writes not completed by the kernel at one time

AllOutcomes == {"drop", "reply", "answer", "forward", "ack"}

ASSUME EngineAssumption ==
    /\ \A c \in Configs : /\ {c.pool_size, c.ring_depth} \subseteq Nat \ {0}
                          /\ c.outcomes \subseteq AllOutcomes /\ "drop" \in c.outcomes
    /\ {WarmUp, Threshold} \subseteq Nat \ {0}
    /\ MaxBacklog \in Nat

VARIABLES
    conf,           \* the configuration, read at start-up
    engine,         \* [in_use, pool_idx, sq, kernel, pending]
    loop,           \* "start", "wait", "batch"
    posted          \* reads posted per device before the loop

vars == <<conf, engine, loop, posted>>

PoolSize == conf.pool_size
Tasks == 0 .. PoolSize - 1
Ops == {"TUN_READ", "UDP_RECV", "TUN_WRITE", "UDP_SEND"}
Reads == {"TUN_READ", "UDP_RECV"}

\* A request works on the buffer of task buf; aligned tells whether the task
\* pointer in user_data is that task, or one computed from buf + VPN_TNL_HLEN;
\* copy tells apart requests that are otherwise equal.
Request == [op : Ops, buf : Tasks, aligned : BOOLEAN, copy : Nat]

Init ==
    /\ conf \in Configs
    /\ engine = [in_use |-> {}, pool_idx |-> 0, sq |-> {}, kernel |-> {},
                 pending |-> 0]
    /\ loop = "start" /\ posted = 0

-----------------------------------------------------------------------------
\* The task pool.

\* pool_idx % pool_size after n more probes.  The int counter itself only
\* grows; the model covers its values up to INT_MAX.
Advance(idx, n) == (idx + n) % PoolSize

\* Probes that find a free slot, and the first of them.
Hits(e) == {n \in Tasks : Advance(e.pool_idx, n) \notin e.in_use}
HasTask(e) == Hits(e) # {}
Misses(e) == CHOOSE n \in Hits(e) : \A m \in Hits(e) : n <= m
TaskFrom(e) == Advance(e.pool_idx, Misses(e))

\* The engine after get_task_from_instance.
get_task_from_instance(e) ==
    IF HasTask(e)
    THEN [e EXCEPT !.in_use = @ \cup {TaskFrom(e)},
                   !.pool_idx = Advance(@, Misses(e) + 1)]
    ELSE [e EXCEPT !.pool_idx = Advance(@, PoolSize)]

Release(e, t) == [e EXCEPT !.in_use = @ \ {t}]

-----------------------------------------------------------------------------
\* The ring.  Its two ends are sets: the kernel may serve requests in any order.

Outstanding(e) == e.sq \cup e.kernel

io_uring_submit(e) == [e EXCEPT !.sq = {}, !.kernel = e.kernel \cup e.sq]

SqFull(e) == Cardinality(e.sq) = conf.ring_depth

Numbered(e, op, t, aligned) ==
    LET equals == {r \in Outstanding(e) : r.op = op /\ r.buf = t /\ r.aligned = aligned}
        used == {r.copy : r \in equals}
    IN  [op |-> op, buf |-> t, aligned |-> aligned,
         copy |-> CHOOSE n \in 0 .. Cardinality(used) : n \notin used]

Queue(e, op, t, aligned) ==
    [e EXCEPT !.sq = e.sq \cup {Numbered(e, op, t, aligned)}]

\* The task is kept when no submission entry is left.
MutRead(e, op) ==
    IF ~HasTask(e) \/ SqFull(e) THEN get_task_from_instance(e)
    ELSE Queue(get_task_from_instance(e), op, TaskFrom(e), TRUE)

\* With no task or no submission entry left, the read is not posted.
vf_io_read(e, op) ==
    IF ~HasTask(e) THEN get_task_from_instance(e)
    ELSE IF SqFull(e) THEN Release(get_task_from_instance(e), TaskFrom(e))
    ELSE Queue(get_task_from_instance(e), op, TaskFrom(e), TRUE)

\* Every Threshold-th write submits the queue.
SubmitAtThreshold(e) ==
    IF e.pending + 1 >= Threshold
    THEN [io_uring_submit(e) EXCEPT !.pending = 0]
    ELSE [e EXCEPT !.pending = @ + 1]

\* A task pointer computed from the middle of a buffer is no task: releasing
\* it changes no flag.
ReleaseOwner(e, t, aligned) == IF aligned THEN Release(e, t) ELSE e

vf_io_write(e, op, t, aligned) ==
    IF SqFull(e) THEN ReleaseOwner(e, t, aligned)
    ELSE SubmitAtThreshold(Queue(e, op, t, aligned))

-----------------------------------------------------------------------------
\* The callbacks.  reply: the received buffer is turned into a UDP packet and
\* kept (TUN egress, echo, DPD); answer: the same, submitted at once (HELLO,
\* AUTH); forward: the payload behind the header is written to TUN, the task
\* is not kept (DATA); ack: the buffer is sent and not kept (REKEY_REQ).

Callback(e, t, outcome) ==
    CASE outcome = "drop" -> e
      [] outcome \in {"reply", "ack"} -> vf_io_write(e, "UDP_SEND", t, TRUE)
      [] outcome = "answer" -> io_uring_submit(vf_io_write(e, "UDP_SEND", t, TRUE))
      [] outcome = "forward" -> vf_io_write(e, "TUN_WRITE", t, FALSE)

IO_TASK_USE == {"reply", "answer"}

\* A TUN packet is dropped or sent; only UDP carries the other kinds.
Possible(op) ==
    IF op = "TUN_READ" THEN conf.outcomes \cap {"drop", "reply"} ELSE conf.outcomes

\* No read is posted after a packet was dropped.
MutFinish(e, r, outcome) ==
    IF outcome \in IO_TASK_USE THEN vf_io_read(e, r.op)
    ELSE IF outcome = "drop" THEN Release(e, r.buf)
    ELSE Release(vf_io_read(e, r.op), r.buf)

\* The next read is posted, then the task is released unless it was kept.
Finish(e, r, outcome) ==
    IF outcome \in IO_TASK_USE THEN vf_io_read(e, r.op)
    ELSE Release(vf_io_read(e, r.op), r.buf)

-----------------------------------------------------------------------------
\* vf_io_run.

\* Requests outstanding for some operations.
Count(e, ops) == Cardinality({r \in Outstanding(e) : r.op \in ops})
Backlog(e) == Count(e, Ops \ Reads)

Post ==
    /\ loop = "start" /\ posted < WarmUp
    /\ engine' = vf_io_read(vf_io_read(engine, "TUN_READ"), "UDP_RECV")
    /\ posted' = posted + 1
    /\ UNCHANGED <<conf, loop>>

Start ==
    /\ loop = "start" /\ posted = WarmUp
    /\ engine' = io_uring_submit(engine)
    /\ loop' = "wait" /\ UNCHANGED <<conf, posted>>

\* The completion of r is taken from the ring.
Reaped(e, r) == [e EXCEPT !.kernel = e.kernel \ {r}]

\* One completed read; an error is treated like a dropped packet.
ReapRead(r, outcome) ==
    /\ r.op \in Reads
    /\ outcome # "drop" => Backlog(engine) < MaxBacklog
    /\ engine' = Finish(Callback(Reaped(engine, r), r.buf, outcome), r, outcome)
    /\ loop' = "batch" /\ UNCHANGED <<conf, posted>>

\* One completed write.
ReapWrite(r) ==
    /\ r.op \notin Reads
    /\ engine' = ReleaseOwner(Reaped(engine, r), r.buf, r.aligned)
    /\ loop' = "batch" /\ UNCHANGED <<conf, posted>>

\* The batch ends without flushing the queue.
MutEndBatch ==
    /\ loop = "batch"
    /\ loop' = "wait"
    /\ UNCHANGED <<conf, engine, posted>>

EndBatch ==
    /\ loop = "batch"
    /\ loop' = "wait" /\ UNCHANGED <<conf, posted>>
    /\ engine' = io_uring_submit(engine)

\* One packet sent by a timer callback: skipped when no task is free.
Probe(e) ==
    IF HasTask(e)
    THEN vf_io_write(get_task_from_instance(e), "UDP_SEND", TaskFrom(e), TRUE)
    ELSE get_task_from_instance(e)

\* A callback sends as many packets as there are sessions to probe: it is this
\* step, repeated.
Timer ==
    /\ loop = "wait"
    /\ Backlog(engine) < MaxBacklog
    /\ engine' = Probe(engine)
    /\ UNCHANGED <<conf, loop, posted>>

\* io_uring_wait_cqe_timeout: some versions submit the queue before they block.
Wait ==
    /\ loop = "wait"
    /\ engine' = io_uring_submit(engine)
    /\ UNCHANGED <<conf, loop, posted>>

Running == loop # "start"
Next ==
    \/ Post \/ Start
    \/ \E r \in engine.kernel :
        /\ Running
        /\ (\E outcome \in Possible(r.op) : ReapRead(r, outcome)) \/ ReapWrite(r)
    \/ EndBatch \/ Timer \/ Wait

Spec == Init /\ [][Next]_vars

\* Every batch of completions comes to its end.
FairSpec == Spec /\ WF_vars(EndBatch)

-----------------------------------------------------------------------------
TypeOK ==
    /\ conf \in Configs
    /\ engine \in [in_use : SUBSET Tasks, pool_idx : Tasks, sq : SUBSET Request,
                   kernel : SUBSET Request, pending : 0 .. Threshold - 1]
    /\ engine.sq \cap engine.kernel = {}
    /\ Cardinality(engine.sq) <= conf.ring_depth
    /\ loop \in {"start", "wait", "batch"} /\ posted \in 0 .. WarmUp

(* io.c:33 "ensures that a task buffer currently owned by the kernel is    *)
(* never overwritten": no two requests work on one buffer.                 *)
NoSharedBuffer ==
    \A r, s \in Outstanding(engine) : r.buf = s.buf => r = s

\* The requests whose completion releases their task.
Owners(e) == {r \in Outstanding(e) : r.aligned}

(* No task is lost, by a full queue, a full pool, an error completion, a   *)
(* skipped probe or a callback that sends a buffer and does not keep it: a *)
(* task in use has a request, queued or in the kernel, that will release   *)
(* it.  And where no buffer is sent without being kept and released again  *)
(* when sent (the REKEY_ACK of vfast_server.c:501), a task is in use       *)
(* exactly when one such request works on its buffer: none is handed out   *)
(* twice.                                                                  *)
TaskAccounting ==
    /\ TypeOK
    /\ engine.in_use \subseteq {r.buf : r \in Owners(engine)}
    /\ "ack" \notin conf.outcomes =>
        /\ engine.in_use = {r.buf : r \in Owners(engine)}
        /\ \A r, s \in Owners(engine) : r.buf = s.buf => r = s

(* Pool and ring large enough for two pipelines, the write backlog and one *)
(* batch below the submit threshold are enough: every read that completes  *)
(* is replaced, so the loop always has WarmUp reads posted on each device  *)
(* (io.c:518 "Re-submit read tasks to prevent pipeline starvation").       *)
Sized ==
    /\ PoolSize >= 2 * WarmUp + MaxBacklog + 1
    /\ conf.ring_depth >= 2 * WarmUp + Threshold - 1
PipelineFull ==
    Sized /\ Running => \A op \in Reads : Count(engine, {op}) = WarmUp

(* As long as completions keep arriving, a packet given to vf_io_write is  *)
(* handed to the kernel, however few others are sent (io.c:534 "Flush any  *)
(* pending SQEs from the threshold logic").                                *)
WritesLeave ==
    []<>(loop = "batch") => ((engine.sq # {}) ~> (engine.sq = {}))
=============================================================================
