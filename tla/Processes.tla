----------------------------- MODULE Processes ------------------------------
(***************************************************************************)
(* Three specifications of the two programs as processes side by side: the *)
(* client's connection state machine (ClientFsm), the life of a program    *)
(* from main to exit (Lifecycle), and the key file that keygens and        *)
(* programs share (KeyFile).  A behaviour is that of the one which part    *)
(* names; the others rest: the FSM worker is "off" and its clocks stand    *)
(* still, main has exited, and nobody has made a key.                      *)
(***************************************************************************)
EXTENDS Integers, Sequences

CONSTANTS
    FSM_AUTH_RETRY, FSM_KEEPALIVE, FSM_TIMEOUT, Strays,        \* see ClientFsm
    Programs, MaxFd,                            \* see Lifecycle
    Gens, Starts, ConfigFiles, MaxKeys          \* see KeyFile

VARIABLES
    part,
    state, worker, seen, late, keep, io, waited, kept, silent, session, up, down,
    program, at, fds, held, io_running, handlers, thread, socks, cancelled,
    asked, hits,
    file, durable, gen, tmp_key, prog, master_key, unlinked, made, reported, stale

Fsm == INSTANCE ClientFsm
Life == INSTANCE Lifecycle WITH pc <- at, running <- io_running
Store == INSTANCE KeyFile WITH Programs <- Starts

ASSUME FsmAssumption ==
    /\ {FSM_AUTH_RETRY, FSM_KEEPALIVE, FSM_TIMEOUT} \subseteq Nat \ {0}
    /\ Strays \in BOOLEAN

\* There is always a descriptor number left.
ASSUME FdAssumption == MaxFd \in Nat /\ MaxFd >= 8

fsmVars == <<state, worker, seen, late, keep, io, waited, kept, silent, session,
             up, down>>
lifeVars == <<program, at, fds, held, io_running, handlers, thread, socks,
              cancelled, asked, hits>>
keyVars == <<file, durable, gen, tmp_key, prog, master_key, unlinked, made,
             reported, stale>>
processVars == <<part, fsmVars, lifeVars, keyVars>>

FsmRests ==
    /\ state = "IDLE" /\ worker = "off" /\ seen = "none"
    /\ late = FALSE /\ keep = FALSE /\ io = "none"
    /\ waited = FSM_AUTH_RETRY /\ kept = FSM_KEEPALIVE /\ silent = FSM_TIMEOUT
    /\ session = FALSE /\ up = {} /\ down = {}

LifeRests ==
    /\ program = "none" /\ at = <<"exited", 0>> /\ fds = <<>> /\ held = <<>>
    /\ io_running = FALSE /\ handlers = FALSE /\ thread = "none" /\ socks = <<>>
    /\ cancelled = FALSE /\ asked = FALSE /\ hits = {}

ProcessInit ==
    \/ part = "fsm" /\ Fsm!Init /\ LifeRests /\ Store!Init
    \/ part = "life" /\ Life!Init /\ FsmRests /\ Store!Init
    \/ part = "keys" /\ Store!Init /\ FsmRests /\ LifeRests

ProcessNext ==
    \/ part = "fsm" /\ Fsm!Next /\ UNCHANGED <<part, lifeVars, keyVars>>
    \/ part = "life" /\ Life!Next /\ UNCHANGED <<part, fsmVars, keyVars>>
    \/ part = "keys" /\ Store!Next /\ UNCHANGED <<part, fsmVars, lifeVars>>

ProcessSpec == ProcessInit /\ [][ProcessNext]_processVars

ProcessFairSpec == ProcessSpec /\ Fsm!Fairness /\ Life!Fairness

-----------------------------------------------------------------------------
(* The client gets connected once the weather is calm, whatever its two     *)
(* threads have overwritten of each other's work and whatever is still on   *)
(* its way (fsm_worker, client_on_udp).                                     *)
ClientReconnects ==
    <>[][Fsm!Calm]_fsmVars => ((part = "fsm" /\ ~Fsm!Connected) ~> Fsm!Connected)

(* A client that stays connected for good hears something again and again   *)
(* (fsm_worker, vf_fsm_update).                                             *)
SilenceNoticed == Fsm!SilenceNoticed

(* A connection ends only in a round of the worker that found FSM_TIMEOUT   *)
(* of silence, or that was under way when the connection was made           *)
(* (fsm_worker, client_handle_hello, client_handle_auth).                   *)
ConnectionKept == Fsm!ConnectionKept

(* "This prevents Dead Peer Detection (DPD) from being spoofed by garbage   *)
(* traffic" (vfast_client.c:378): a client whose session the server no      *)
(* longer has leaves CONNECTED.                                             *)
DeadPeerNoticed == Fsm!DeadPeerNoticed

(* A signal during the event loop ends server and client, with all threads  *)
(* joined (signal_handler, vf_io_run, cmd_server_stop).                     *)
SignalHalts == Life!SignalHalts

(* A program that reached its event loop leaves open only the listener of a *)
(* cancelled worker, or the client's ring (vfast_clean_server,              *)
(* vfast_cleanup).  Only vf_io_exit, and a client that fails before it has  *)
(* a TUN device, close a descriptor that is not theirs.                     *)
DescriptorsOwned == Life!DescriptorsOwned

(* A key reported as generated and synced stays in the file until it is     *)
(* deleted (vfast_cmd_keygen, vf_option_conf).                              *)
ReportedKeyKept == Store!ReportedKeyKept

(* A program that is up holds the whole key of the file (vfast_load_key).   *)
HoldsKeyOfFile == Store!HoldsKeyOfFile
=============================================================================
