----------------------------- MODULE Lifecycle ------------------------------
(***************************************************************************)
(* vfast_server and vfast_client from main to exit: what they open, in     *)
(* which order, what they do when a step fails, the signal handlers, the   *)
(* event loop as far as its end goes, the second thread (the management    *)
(* worker of the server, the FSM worker of the client) and the clean-up.   *)
(*                                                                         *)
(* fds maps descriptor numbers to what they refer to; a new one gets the   *)
(* lowest free number, and close takes a number, whatever it now refers    *)
(* to.  Descriptors that a function opens and closes again before another  *)
(* thread exists (key file, control sockets, failed attempts) are left     *)
(* out.  -1 stands for a negative descriptor and for a NULL handle.        *)
(***************************************************************************)
EXTENDS Integers, Sequences, FiniteSetsExt

CONSTANTS
    Programs,       \* a subset of {"server", "client"}
    MaxFd           \* bound: the highest descriptor number

VARIABLES
    program,
    pc,             \* main: <<"start", i>>, <<"ready", 0>>, <<"loop", 0>>,
                    \* <<"stop", i>>, <<"exited", 0>>, <<"crashed", 0>>
    fds,
    held,           \* the descriptors in urandom_fd, udp, tun and vf_io_t
    running,        \* io.running
    handlers,       \* the signal handlers are installed
    thread,         \* "none", "failed", "started", "listening", "serving",
                    \* "running" or "gone"
    socks,          \* lfd and cfd of the management worker
    cancelled,      \* g_server_running is false and the cancellation pending
    asked,          \* a signal came during the event loop
    hits            \* closes that met what another part had opened

vars == <<program, pc, fds, held, running, handlers, thread, socks, cancelled,
          asked, hits>>
resources == <<fds, held, hits>>
control == <<program, running, handlers, asked>>
second == <<thread, socks, cancelled>>

Stage(s) == pc[1] = s
Server == program = "server"

vfast_init_server ==
    <<"user", "key", "signals", "pool", "sessions", "tun", "udp", "io", "thread">>

\* The thread is the first thing main starts after it.
vfast_init_client == <<"key", "signals", "tun", "udp", "io", "thread">>

Startup == IF Server THEN vfast_init_server ELSE vfast_init_client

\* The descriptor of the random numbers is forgotten.
MutCleanServer == <<"udp", "tun", "sessions", "pool", "io", "thread", "options">>

vfast_clean_server ==
    <<"user", "udp", "tun", "sessions", "pool", "io", "thread", "options">>

\* main joins the thread before it.
vfast_cleanup == <<"thread", "tun", "udp", "options">>

Cleanup == IF Server THEN vfast_clean_server ELSE vfast_cleanup

-----------------------------------------------------------------------------
Lowest == Min({n \in DOMAIN fds : fds[n] = "free"})

Opens(what) == fds' = [fds EXCEPT ![Lowest] = what] /\ UNCHANGED hits

\* close(n) for every n of nums, by code that means descriptors of kind what.
Closes(nums, who, what) ==
    /\ fds' = [n \in DOMAIN fds |-> IF n \in nums THEN "free" ELSE fds[n]]
    /\ hits' = hits \cup {<<who, fds[n]>> : n \in {m \in nums \cap DOMAIN fds :
                                                    fds[m] \notin what \cup {"free"}}}

\* main up to the first call in vfast_init_server, vfast_init_client.
Init ==
    /\ program \in Programs
    /\ pc = <<"start", 1>>
    /\ fds = [n \in 0 .. MaxFd |->
                IF n <= 2 THEN <<"stdin", "stdout", "stderr">>[n + 1] ELSE "free"]
    /\ held = [urandom |-> 0, udp |-> -1, tun |-> 0,
               io_udp |-> 0, io_tun |-> 0, ring |-> 0]
    /\ running = TRUE /\ handlers = FALSE
    /\ thread = "none" /\ socks = [lfd |-> -1, cfd |-> -1] /\ cancelled = FALSE
    /\ asked = FALSE /\ hits = {}

-----------------------------------------------------------------------------
(***************************************************************************)
(* Starting up.                                                            *)
(***************************************************************************)
Starting(step) == Stage("start") /\ Startup[pc[2]] = step

Proceed ==
    pc' = IF pc[2] = Len(Startup) THEN <<"ready", 0>> ELSE <<"start", pc[2] + 1>>

vf_user_init ==
    /\ Starting("user")
    /\ Opens("urandom") /\ held' = [held EXCEPT !.urandom = Lowest]
    /\ Proceed
    /\ UNCHANGED <<control, second>>

\* The key, the pool and the session table open nothing that stays open.
Prepare ==
    /\ Starting("key") \/ Starting("pool") \/ Starting("sessions")
    /\ Proceed
    /\ UNCHANGED <<control, second, resources>>

vfast_setup_signals ==
    /\ Starting("signals")
    /\ handlers' = TRUE
    /\ Proceed
    /\ UNCHANGED <<program, running, asked, second, resources>>

\* The results of the calls that configure the interface are not looked at.
vf_tun_init ==
    /\ Starting("tun")
    /\ Opens("tun") /\ held' = [held EXCEPT !.tun = Lowest]
    /\ Proceed
    /\ UNCHANGED <<control, second>>

udp_init_listener ==
    /\ Starting("udp")
    /\ Opens("udp") /\ held' = [held EXCEPT !.udp = Lowest]
    /\ Proceed
    /\ UNCHANGED <<control, second>>

\* Neither program looks at the result: without memory or without a ring it
\* goes on with the ring zeroed.
vf_io_init ==
    LET io == [held EXCEPT !.io_udp = held.udp, !.io_tun = held.tun]
    IN  /\ Starting("io")
        /\ \/ Opens("ring") /\ held' = [io EXCEPT !.ring = Lowest]
           \/ held' = io /\ UNCHANGED <<fds, hits>>
        /\ Proceed
        /\ UNCHANGED <<control, second>>

\* Nobody looks at the result of creating the thread.
cmd_server_start ==
    /\ Starting("thread") /\ Server
    /\ thread' \in {"failed", "started"}
    /\ Proceed
    /\ UNCHANGED <<control, resources, socks, cancelled>>

vf_fsm_init ==
    /\ Starting("thread") /\ ~Server
    /\ thread' \in {"failed", "running"}
    /\ Proceed
    /\ UNCHANGED <<control, resources, socks, cancelled>>

\* A step that fails: the client cleans up, the server only after "udp".
StartFails ==
    /\ Stage("start")
    /\ Startup[pc[2]] \notin {"io", "thread"}
    /\ Server \/ Startup[pc[2]] # "signals"
    /\ pc' = IF ~Server THEN <<"stop", 2>>
             ELSE IF Startup[pc[2]] = "udp" THEN <<"stop", 1>> ELSE <<"exited", 0>>
    /\ UNCHANGED <<control, second, resources>>

Start ==
    \/ vf_user_init \/ Prepare \/ vfast_setup_signals \/ vf_tun_init
    \/ udp_init_listener \/ vf_io_init \/ cmd_server_start \/ vf_fsm_init
    \/ StartFails

-----------------------------------------------------------------------------
(***************************************************************************)
(* Signals and the event loop.                                             *)
(***************************************************************************)
Live == ~Stage("exited") /\ ~Stage("crashed")
Noted ==
    /\ running' = FALSE
    /\ asked' = (asked \/ Stage("loop"))

\* SIGINT, and SIGTERM in the server, with the handlers installed.
signal_handler ==
    /\ Live /\ handlers /\ Server
    /\ Noted
    /\ UNCHANGED <<program, handlers, pc, second, resources>>

\* Takes an entry of the ring, whether there is a ring or not.
client_signal_handler ==
    /\ Live /\ handlers /\ ~Server
    /\ Noted
    /\ pc' = IF held.ring = 0 THEN <<"crashed", 0>> ELSE pc
    /\ UNCHANGED <<program, handlers, second, resources>>

\* The default action of a signal ends the process.
Killed ==
    /\ Live /\ ~handlers
    /\ pc' = <<"exited", 0>>
    /\ UNCHANGED <<control, second, resources>>

Signal == signal_handler \/ client_signal_handler \/ Killed

\* vf_io_run sets running, whatever a signal has made of it, and queues its
\* reads in the ring.
EnterLoop ==
    /\ Stage("ready")
    /\ running' = TRUE
    /\ pc' = IF held.ring = 0 THEN <<"crashed", 0>> ELSE <<"loop", 0>>
    /\ UNCHANGED <<program, handlers, asked, second, resources>>

\* The wait ends after 100 ms at the latest, then the flag is read again.
LeaveLoop ==
    /\ Stage("loop") /\ ~running
    /\ pc' = <<"stop", 1>>
    /\ UNCHANGED <<control, second, resources>>

\* io_uring_wait_cqe_timeout fails for another reason than time and signals.
WaitFails ==
    /\ Stage("loop") /\ running
    /\ pc' = <<"stop", 1>>
    /\ UNCHANGED <<control, second, resources>>

-----------------------------------------------------------------------------
(***************************************************************************)
(* vfast_clean_server, and the end of the client's main with vfast_cleanup.*)
(***************************************************************************)
Stopping(step) == Stage("stop") /\ Cleanup[pc[2]] = step
NextStop ==
    pc' = IF pc[2] = Len(Cleanup) THEN <<"exited", 0>> ELSE <<"stop", pc[2] + 1>>

vf_user_uninit ==
    /\ Stopping("user")
    /\ Closes({held.urandom}, "vf_user_uninit", {"urandom"})
    /\ NextStop
    /\ UNCHANGED <<control, second, held>>

udp_close ==
    /\ Stopping("udp")
    /\ Closes({held.udp}, "udp_close", {"udp"})
    /\ held' = [held EXCEPT !.udp = -1]
    /\ NextStop
    /\ UNCHANGED <<control, second>>

vf_tun_destroy ==
    /\ Stopping("tun")
    /\ Closes({held.tun}, "vf_tun_destroy", {"tun"})
    /\ held' = [held EXCEPT !.tun = -1]
    /\ NextStop
    /\ UNCHANGED <<control, second>>

\* The numbers of the transports are closed a second time.  A ring that was
\* never set up is all zeros: its exit closes descriptor 0 or crashes.
vf_io_exit ==
    /\ Stopping("io")
    /\ Closes({held.io_udp, held.io_tun, held.ring}, "vf_io_exit",
              {"udp", "tun", "ring"})
    /\ \/ NextStop
       \/ held.ring = 0 /\ pc' = <<"crashed", 0>>
    /\ UNCHANGED <<control, second, held>>

\* Session table, pool, options: memory only.
Release ==
    /\ Stopping("sessions") \/ Stopping("pool") \/ Stopping("options")
    /\ NextStop
    /\ UNCHANGED <<control, second, resources>>

\* The worker is joined without being cancelled.
MutServerStop ==
    /\ Stopping("thread") /\ Server
    /\ thread \in {"none", "failed", "gone"}
    /\ NextStop
    /\ UNCHANGED <<control, second, resources>>

\* Returns at once for a thread that was never created, else clears the flag,
\* cancels the thread and waits for its end.
cmd_server_stop ==
    /\ Stopping("thread") /\ Server
    /\ \/ /\ thread \notin {"none", "failed"} /\ ~cancelled
          /\ cancelled' = TRUE
          /\ UNCHANGED pc
       \/ /\ thread \in {"none", "failed", "gone"}
          /\ NextStop
          /\ UNCHANGED cancelled
    /\ UNCHANGED <<control, resources, thread, socks>>

\* Joins whatever thread_id holds, also 0.
vf_fsm_pthread_join ==
    /\ Stopping("thread") /\ ~Server
    /\ \/ thread = "gone" /\ NextStop
       \/ thread = "failed" /\ pc' = <<"crashed", 0>>
    /\ UNCHANGED <<control, second, resources>>

Stop ==
    \/ vf_user_uninit \/ udp_close \/ vf_tun_destroy \/ vf_io_exit \/ Release
    \/ cmd_server_stop \/ vf_fsm_pthread_join

-----------------------------------------------------------------------------
(***************************************************************************)
(* The second thread: the management worker as far as its descriptors go   *)
(* (CmdServer has the rest of it), and the FSM worker (see ClientFsm).     *)
(***************************************************************************)
Ends(nums, what) ==
    /\ thread' = "gone"
    /\ Closes(nums, "cmd_server_worker", what)
    /\ UNCHANGED <<control, pc, held, socks, cancelled>>

cmd_transport_listen ==
    /\ thread = "started"
    /\ \/ /\ thread' = "listening"
          /\ Opens("listener") /\ socks' = [socks EXCEPT !.lfd = Lowest]
          /\ UNCHANGED <<control, pc, held, cancelled>>
       \/ Ends({}, {})

\* A connection may come at any time until the flag is cleared.
Accept ==
    /\ Live /\ thread = "listening" /\ ~cancelled /\ fds[socks.lfd] = "listener"
    /\ thread' = "serving"
    /\ Opens("connection") /\ socks' = [socks EXCEPT !.cfd = Lowest]
    /\ UNCHANGED <<control, pc, held, cancelled>>

\* The request is served or times out; its descriptor is closed.
Served ==
    /\ thread = "serving"
    /\ thread' = "listening"
    /\ Closes({socks.cfd}, "cmd_server_worker", {"connection"})
    /\ socks' = [socks EXCEPT !.cfd = -1]
    /\ UNCHANGED <<control, pc, held, cancelled>>

\* The flag is seen, or accept fails because the listener is gone: the number
\* is closed.  A cancelled accept leaves it open.
WorkerEnds ==
    /\ thread = "listening"
    /\ \/ /\ cancelled \/ fds[socks.lfd] # "listener"
          /\ Ends({socks.lfd}, {"listener"})
       \/ cancelled /\ Ends({}, {})

\* The FSM worker reads the flag once per tick.
FsmEnds == thread = "running" /\ ~running /\ Ends({}, {})

\* Threads end with the process.
Worker == Live /\ (cmd_transport_listen \/ Served \/ WorkerEnds \/ FsmEnds)

Main == Start \/ EnterLoop \/ LeaveLoop \/ Stop

Next == Main \/ WaitFails \/ Signal \/ Worker \/ Accept

Spec == Init /\ [][Next]_vars

\* Both threads run; no signal, no failing wait, no connection need come.
Fairness == WF_vars(Main) /\ WF_vars(Worker)

FairSpec == Spec /\ Fairness

-----------------------------------------------------------------------------
(***************************************************************************)
(* A signal that comes while the event loop runs ends the program, threads *)
(* joined and clean-up done, also when the management worker is waiting    *)
(* for a connection or serving one ("allowing the event loop to terminate  *)
(* immediately on the first Ctrl+C").  One that comes before vf_io_run has *)
(* stored TRUE in running is forgotten.                                    *)
(***************************************************************************)
SignalHalts == (asked /\ thread # "failed") ~> Stage("exited")

\* What a program that reached its event loop may leave to the kernel.
Leftovers == {"stdin", "stdout", "stderr", "free"}
                \cup (IF Server THEN {"listener"} ELSE {"ring"})

(***************************************************************************)
(* After a program that reached its event loop has ended, nothing it had   *)
(* opened is left open but the listener of a cancelled worker and the ring *)
(* of the client, which vfast_cleanup leaves to the kernel.  A close meets *)
(* another part's descriptor in two places only: vf_io_exit, which closes  *)
(* the numbers of the transports for the second time, and vf_tun_destroy   *)
(* of a client that failed before it had a TUN device, which closes its    *)
(* standard input.                                                         *)
(***************************************************************************)
DescriptorsOwned ==
    /\ Stage("exited") /\ (asked \/ cancelled) =>
            \A n \in DOMAIN fds : fds[n] \in Leftovers
    /\ \A h \in hits : \/ h[1] = "vf_io_exit"
                       \/ h = <<"vf_tun_destroy", "stdin">> /\ ~Server /\ ~asked
=============================================================================
