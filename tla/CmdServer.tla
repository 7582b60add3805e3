----------------------------- MODULE CmdServer ------------------------------
(***************************************************************************)
(* The management channel of the server (cmd.c, cmdengine.c).  One thread  *)
(* accepts CLI connections on a local socket and serves them one at a      *)
(* time; the main thread counts packets and, at shutdown, stops the        *)
(* thread with a flag, a cancellation request and a join.  The clients     *)
(* (vfreflex.c) may stall, leave before the answer, or send nothing that   *)
(* can be parsed.  GET session and GET show, which read the session table, *)
(* are refined in SessionSpec.                                             *)
(***************************************************************************)
EXTENDS Integers, Sequences, FiniteSetsExt, Functions

CONSTANTS
    Conn,           \* connections that may exist at a time
    Request,        \* what a client may send: [form, argv]
    Backlog,        \* the queue length given to listen()
    MaxPackets,     \* bound on the packets counted
    MaxFailures     \* bound on the calls of accept() that fail and are retried

ASSUME CmdAssumption == Backlog \in Nat /\ MaxFailures \in Nat

NoRequest == [form |-> "none", argv |-> <<>>]

VARIABLES
    running,        \* g_server_running
    main,           \* main thread: "serving", "flagged", "joining", "done"
    started,        \* the thread id is not 0
    cancel,         \* a cancellation request is pending
    cancelable,     \* the worker's cancel state is ENABLE
    pc,             \* where the worker is
    listening,      \* the listening socket is open
    backlog,        \* connections not accepted yet
    accepted,       \* connections whose descriptor the worker holds
    failures,       \* failed calls of accept() so far
    cl,             \* the client's end of a connection: "open", "closed"
    req,            \* the request waiting in a connection
    islogptk, isdebug, level,   \* the flags and the level of log.c
    stats,          \* reass_stats: rx_pkts, tx_pkts, drops
    report,         \* the counters loaded so far for GET pktstats
    last            \* the last complete report

threadVars == <<running, main, started, cancel>>
sockVars == <<backlog, accepted, cl, req>>
engineVars == <<islogptk, isdebug, level>>
statVars == <<stats, report, last>>
vars == <<threadVars, cancelable, pc, listening, failures, sockVars, engineVars, statVars>>

\* cmd_start_core; pthread_create may fail.
Init ==
    /\ running = TRUE /\ main = "serving" /\ cancel = FALSE /\ cancelable = TRUE
    /\ started \in BOOLEAN
    /\ pc = IF started THEN "start" ELSE "exited"
    /\ listening = FALSE /\ failures = 0
    /\ backlog = <<>> /\ accepted = {}
    /\ cl = [c \in Conn |-> "closed"]
    /\ req = [c \in Conn |-> NoRequest]
    /\ islogptk = FALSE /\ isdebug = TRUE /\ level = "TRACE"
    /\ stats = <<0, 0, 0>> /\ report = <<>> /\ last = <<0, 0, 0>>

-----------------------------------------------------------------------------
\* The command table and the two levels of dispatch.

Entry(group, name, min_argc, handler) ==
    [group |-> group, name |-> name, min_argc |-> min_argc, handler |-> handler]

cmd_table == <<
    Entry("", "STATUS", 1, "cmd_handle_status"),
    Entry("", "SET", 1, "cmd_handle_set"),
    Entry("", "GET", 1, "cmd_handle_get"),
    Entry("", "HELP", 1, "cmd_handle_help"),
    Entry("", "EXIT", 1, "NULL"),
    Entry("SET", "interval", 3, "NULL"),
    Entry("SET", "logpkt", 3, "cmd_set_islogptk"),
    Entry("SET", "debug", 3, "cmd_set_isdebug"),
    Entry("GET", "pktstats", 2, "cmd_get_reass_stats"),
    Entry("GET", "config", 2, "cmd_get_config"),
    Entry("GET", "session", 2, "cmd_get_sessions"),
    Entry("GET", "show", 3, "cmd_get_session_bysid"),
    Entry("GET", "tasks", 2, "cmd_get_task_pool") >>

\* The first entry of a group with this name, its handler if argc suffices.
Find(entries, name, argc) ==
    LET found == {i \in entries : cmd_table[i].name = name}
        e == cmd_table[Min(found)]
    IN  IF found = {} THEN "unknown"
        ELSE IF e.handler = "NULL" THEN "no executor"
        ELSE IF argc < e.min_argc THEN "usage"
        ELSE e.handler

Group(name) == {i \in DOMAIN cmd_table : cmd_table[i].group = name}

cmd_handle_set(argv) ==
    IF Len(argv) < 2 THEN "help" ELSE Find(Group("SET"), argv[2], Len(argv))

cmd_handle_get(argv) ==
    IF Len(argv) < 2 THEN "help" ELSE Find(Group("GET"), argv[2], Len(argv))

\* The root level searches the whole table, whatever the group of an entry.
\* The result is the leaf handler, or the kind of answer given without one.
cmd_dispatch(r) ==
    IF r.form = "unbalanced" THEN "unbalanced quotes"
    ELSE IF r.argv = <<>> THEN "empty"
    ELSE LET h == Find(DOMAIN cmd_table, r.argv[1], Len(r.argv))
         IN  IF h = "cmd_handle_set" THEN cmd_handle_set(r.argv)
             ELSE IF h = "cmd_handle_get" THEN cmd_handle_get(r.argv)
             ELSE h

On == {"1", "on", "true"}
Off == {"0", "off", "false"}

-----------------------------------------------------------------------------
\* The worker.

\* cmd_transport_listen may fail, and then the thread ends.
Listen ==
    /\ pc = "start"
    /\ \/ listening' = TRUE /\ pc' = "loop"
       \/ UNCHANGED listening /\ pc' = "exited"
    /\ UNCHANGED <<threadVars, cancelable, failures, sockVars, engineVars, statVars>>

\* Cancellation is not enabled again for the next accept().
MutLoop ==
    /\ pc = "loop"
    /\ pc' = IF running THEN "accept" ELSE "closing"
    /\ UNCHANGED <<threadVars, cancelable, listening, failures, sockVars, engineVars,
                   statVars>>

\* The loop condition, and the cancel state for the blocking accept().
Loop ==
    /\ pc = "loop"
    /\ pc' = IF running THEN "accept" ELSE "closing"
    /\ cancelable' = (cancelable \/ running)
    /\ UNCHANGED <<threadVars, listening, failures, sockVars, engineVars, statVars>>

\* The connection is served with the cancel state left at ENABLE.
MutAccept ==
    /\ pc = "accept" /\ backlog # <<>>
    /\ backlog' = Tail(backlog)
    /\ accepted' = accepted \cup {Head(backlog)}
    /\ pc' = "recv"
    /\ UNCHANGED <<threadVars, cancelable, listening, failures, cl, req, engineVars,
                   statVars>>

Accept ==
    /\ pc = "accept" /\ backlog # <<>>
    /\ backlog' = Tail(backlog)
    /\ accepted' = accepted \cup {Head(backlog)}
    /\ cancelable' = FALSE
    /\ pc' = "recv"
    /\ UNCHANGED <<threadVars, listening, failures, cl, req, engineVars, statVars>>

\* accept() fails: a signal (try again), no descriptors (sleep first), or an
\* error taken for fatal.
AcceptFails ==
    /\ pc = "accept"
    /\ \/ failures < MaxFailures /\ failures' = failures + 1 /\ pc' \in {"loop", "sleep"}
       \/ UNCHANGED failures /\ pc' = "closing"
    /\ UNCHANGED <<threadVars, cancelable, listening, sockVars, engineVars, statVars>>

Wake ==
    /\ pc = "sleep"
    /\ pc' = "loop"
    /\ UNCHANGED <<threadVars, cancelable, listening, failures, sockVars, engineVars,
                   statVars>>

Received(c) == req[c] # NoRequest /\ req[c].form # "oversized"

RecvDone ==
    /\ pc = "recv"
    /\ \E c \in accepted : Received(c)
    /\ pc' = "dispatch"
    /\ UNCHANGED <<threadVars, cancelable, listening, failures, sockVars, engineVars,
                   statVars>>

\* close(cfd): what the connection still holds is gone.
Close ==
    /\ accepted' = {}
    /\ req' = [c \in Conn |-> IF c \in accepted THEN NoRequest ELSE req[c]]
    /\ UNCHANGED <<backlog, cl>>

\* No receive timeout: only a closed connection or a long request ends recv().
MutRecvFails ==
    /\ pc = "recv"
    /\ \E c \in accepted : ~Received(c) /\ (cl[c] = "closed" \/ req[c] # NoRequest)
    /\ Close
    /\ pc' = "loop"
    /\ UNCHANGED <<threadVars, cancelable, listening, failures, engineVars, statVars>>

\* The peer is gone, sends too long a request, or nothing for two seconds.
RecvFails ==
    /\ pc = "recv"
    /\ \A c \in accepted : ~Received(c)
    /\ Close
    /\ pc' = "loop"
    /\ UNCHANGED <<threadVars, cancelable, listening, failures, engineVars, statVars>>

cmd_set_islogptk(argv) ==
    /\ islogptk' = IF argv[3] \in On \cup Off THEN argv[3] \in On ELSE islogptk
    /\ pc' = "reply"
    /\ UNCHANGED <<isdebug, report>>

\* The flag that is set already is left alone; a new one is stored before the
\* log level follows.
cmd_set_isdebug(argv) ==
    /\ IF argv[3] \in On \cup Off /\ (argv[3] \in On) # isdebug
       THEN isdebug' = ~isdebug /\ pc' = "level"
       ELSE UNCHANGED isdebug /\ pc' = "reply"
    /\ UNCHANGED <<islogptk, report>>

cmd_get_reass_stats(argv) ==
    /\ report' = <<>>
    /\ pc' = IF Len(argv) = 2 THEN "load" ELSE "reply"
    /\ UNCHANGED <<islogptk, isdebug>>

\* The other handlers (STATUS, HELP, GET config, session, show, tasks) and the
\* usage and error messages only write the answer.
Answer ==
    /\ pc' = "reply"
    /\ UNCHANGED <<islogptk, isdebug, report>>

\* cmd_dispatch and the handler it calls.
Dispatch ==
    /\ pc = "dispatch"
    /\ \E c \in accepted :
        LET h == cmd_dispatch(req[c])
        IN  \/ h = "cmd_set_islogptk" /\ cmd_set_islogptk(req[c].argv)
            \/ h = "cmd_set_isdebug" /\ cmd_set_isdebug(req[c].argv)
            \/ h = "cmd_get_reass_stats" /\ cmd_get_reass_stats(req[c].argv)
            \/ /\ h \notin {"cmd_set_islogptk", "cmd_set_isdebug", "cmd_get_reass_stats"}
               /\ Answer
    /\ UNCHANGED <<threadVars, cancelable, listening, failures, sockVars, level, stats,
                   last>>

\* The level is only ever raised.
MutSetLevel ==
    /\ pc = "level"
    /\ level' = IF isdebug THEN "TRACE" ELSE level
    /\ pc' = "reply"
    /\ UNCHANGED <<threadVars, cancelable, listening, failures, sockVars, islogptk,
                   isdebug, statVars>>

SetLevel ==
    /\ pc = "level"
    /\ level' = IF isdebug THEN "TRACE" ELSE "INFO"
    /\ pc' = "reply"
    /\ UNCHANGED <<threadVars, cancelable, listening, failures, sockVars, islogptk,
                   isdebug, statVars>>

\* atomic_exchange with 0 instead of atomic_load.
MutLoadStat ==
    LET i == Len(report) + 1
    IN  /\ pc = "load"
        /\ report' = Append(report, stats[i])
        /\ stats' = [stats EXCEPT ![i] = 0]
        /\ last' = IF i = 3 THEN report' ELSE last
        /\ pc' = IF i = 3 THEN "reply" ELSE "load"
        /\ UNCHANGED <<threadVars, cancelable, listening, failures, sockVars, engineVars>>

\* The three counters are loaded one after the other.
LoadStat ==
    LET i == Len(report) + 1
    IN  /\ pc = "load"
        /\ report' = Append(report, stats[i])
        /\ last' = IF i = 3 THEN report' ELSE last
        /\ pc' = IF i = 3 THEN "reply" ELSE "load"
        /\ UNCHANGED <<threadVars, cancelable, listening, failures, sockVars, engineVars,
                       stats>>

\* The answer is sent, whether or not the client still listens, the payload is
\* freed and the connection closed.
Reply ==
    /\ pc = "reply"
    /\ Close
    /\ report' = <<>>
    /\ pc' = "loop"
    /\ UNCHANGED <<threadVars, cancelable, listening, failures, engineVars, stats, last>>

CloseListener ==
    /\ pc = "closing"
    /\ listening' = FALSE
    /\ pc' = "exited"
    /\ UNCHANGED <<threadVars, cancelable, failures, sockVars, engineVars, statVars>>

\* A pending request ends the thread in a call that is a cancellation point,
\* if cancellation is enabled.  The listening socket stays open.
Cancelled ==
    /\ cancel /\ cancelable
    /\ pc \in {"accept", "sleep", "closing", "recv", "reply"}
    /\ pc' = "exited"
    /\ UNCHANGED <<threadVars, cancelable, listening, failures, sockVars, engineVars,
                   statVars>>

\* What the thread does by itself, once accept() has something to return.
Proceed ==
    \/ Listen \/ Loop \/ Accept \/ Wake \/ RecvDone \/ RecvFails \/ Dispatch
    \/ SetLevel \/ LoadStat \/ Reply \/ CloseListener \/ Cancelled

cmd_server_worker == Proceed \/ AcceptFails

-----------------------------------------------------------------------------
\* The main thread: packets, then shutdown.

cmd_reass_stats_add ==
    \E i \in 1 .. 3 :
        /\ main = "serving"
        /\ stats[1] + stats[2] + stats[3] < MaxPackets
        /\ stats' = [stats EXCEPT ![i] = @ + 1]
        /\ UNCHANGED <<threadVars, cancelable, pc, listening, failures, sockVars,
                       engineVars, report, last>>

\* cmd_server_stop in three steps; nothing to do when no thread was created.
StopFlag ==
    /\ main = "serving"
    /\ main' = IF started THEN "flagged" ELSE "done"
    /\ running' = (running /\ ~started)
    /\ UNCHANGED <<started, cancel, cancelable, pc, listening, failures, sockVars,
                   engineVars, statVars>>

StopCancel ==
    /\ main = "flagged"
    /\ main' = "joining"
    /\ cancel' = TRUE
    /\ UNCHANGED <<running, started, cancelable, pc, listening, failures, sockVars,
                   engineVars, statVars>>

StopJoin ==
    /\ main = "joining" /\ pc = "exited"
    /\ main' = "done"
    /\ started' = FALSE
    /\ UNCHANGED <<running, cancel, cancelable, pc, listening, failures, sockVars,
                   engineVars, statVars>>

cmd_server_stop == StopFlag \/ StopCancel \/ StopJoin

-----------------------------------------------------------------------------
\* The clients.

AtServer(c) == c \in Range(backlog) \cup accepted

\* cmd_transport_connect; connect() waits while the backlog is full.
Connect ==
    \E c \in Conn :
        /\ listening
        /\ Len(backlog) < Backlog
        /\ cl[c] = "closed" /\ ~AtServer(c)
        /\ cl' = [cl EXCEPT ![c] = "open"]
        /\ backlog' = Append(backlog, c)
        /\ UNCHANGED <<threadVars, cancelable, pc, listening, failures, accepted,
                       req, engineVars, statVars>>

Send ==
    \E c \in Conn, r \in Request :
        /\ cl[c] = "open" /\ req[c] = NoRequest
        /\ AtServer(c)
        /\ req' = [req EXCEPT ![c] = r]
        /\ UNCHANGED <<threadVars, cancelable, pc, listening, failures, backlog, accepted,
                       cl, engineVars, statVars>>

\* The client has its answer, has waited two seconds for it, or was killed.
Leave ==
    \E c \in Conn :
        /\ cl[c] = "open"
        /\ cl' = [cl EXCEPT ![c] = "closed"]
        /\ UNCHANGED <<threadVars, cancelable, pc, listening, failures, backlog, accepted,
                       req, engineVars, statVars>>

-----------------------------------------------------------------------------
Next ==
    \/ cmd_server_worker
    \/ cmd_server_stop
    \/ cmd_reass_stats_add
    \/ Connect \/ Send \/ Leave

\* Both threads are scheduled; no client has to act and no call has to fail.
Spec ==
    /\ Init /\ [][Next]_vars
    /\ WF_vars(Proceed)
    /\ WF_vars(cmd_server_stop)

-----------------------------------------------------------------------------
Busy == {"recv", "dispatch", "level", "load", "reply"}

TypeOK ==
    /\ running \in BOOLEAN /\ started \in BOOLEAN
    /\ cancel \in BOOLEAN /\ cancelable \in BOOLEAN /\ listening \in BOOLEAN
    /\ main \in {"serving", "flagged", "joining", "done"}
    /\ pc \in Busy \cup {"start", "loop", "accept", "sleep", "closing", "exited"}
    /\ backlog \in Seq(Conn) /\ Len(backlog) <= Backlog
    /\ accepted \subseteq Conn /\ failures \in 0 .. MaxFailures
    /\ cl \in [Conn -> {"open", "closed"}] /\ req \in [Conn -> Request \cup {NoRequest}]
    /\ islogptk \in BOOLEAN /\ isdebug \in BOOLEAN /\ level \in {"TRACE", "INFO"}
    /\ stats \in [1 .. 3 -> Nat] /\ report \in Seq(Nat) /\ last \in [1 .. 3 -> Nat]

(* The worker holds a connection exactly while it serves it.  Whatever     *)
(* the client does, and whenever cmd_server_stop cancels the thread, it    *)
(* waits for the next client, or ends, with every connection closed.       *)
NothingHeld ==
    /\ TypeOK
    /\ pc \in Busy => \E c \in Conn : accepted = {c}
    /\ pc \notin Busy => accepted = {}

(* Outside SET debug, the log level is the one that GET config and the     *)
(* answer to the last SET debug claim, so that a command that finds the    *)
(* flag set already has nothing to do.                                     *)
LevelFollowsFlag == pc # "level" => (level = "TRACE") = isdebug

(* GET pktstats loads its counters one by one while packets are counted.   *)
(* No counter of a report exceeds the packets counted, or falls behind     *)
(* the report before it.                                                   *)
ReportsMonotone ==
    /\ [](\A i \in 1 .. Len(report) : report[i] <= stats[i])
    /\ [][\A i \in 1 .. 3 : last[i] <= last'[i]]_last

(* pthread_join in cmd_server_stop returns, wherever the flag and the      *)
(* cancellation find the worker: before accept(), blocked in it, asleep,   *)
(* or serving a client that sends nothing.                                 *)
StopReturns == main = "joining" ~> main = "done"

(* One thread serves all clients, but none of them can hold up the others: *)
(* each connection in the backlog is accepted unless the thread ends.      *)
ServedInTurn ==
    \A c \in Conn : c \in Range(backlog) ~> (c \notin Range(backlog) \/ pc = "exited")
=============================================================================
