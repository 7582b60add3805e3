--------------------------- MODULE ProcessProofs ----------------------------
(***************************************************************************)
(* Proofs about the programs around the tunnel, as composed in Processes:  *)
(*   ClientFsm  what can end a connection;                                 *)
(*   KeyFile    the key a program holds is the key of the file, for any    *)
(*              number of programs;                                        *)
(*   Lifecycle  what a program opens is closed when it stops, and only     *)
(*              vf_io_exit and a failed client close what another part     *)
(*              opened.                                                    *)
(***************************************************************************)
EXTENDS Processes, TLAPS

-----------------------------------------------------------------------------
(***************************************************************************)
(* The connection state machine.  A handler of HELLO or AUTH_ACK is only   *)
(* at work while the client is not connected: it has found the state it    *)
(* waits for, and only the I/O thread itself stores CONNECTED.             *)
(***************************************************************************)
HandlersApart ==
    /\ Fsm!Connected => io = "none"
    /\ worker = "store" => seen \in Fsm!Sends

(* A step of the client, of time, the server or the path keeps this, and   *)
(* one that ends a connection is a time-out or belongs to a stale round    *)
(* (fsm_worker, client_on_udp).                                            *)
LEMMA FsmStep ==
    ASSUME HandlersApart, Fsm!Next
    PROVE  HandlersApart' /\ (Fsm!Connected /\ state' # state => late \/ Fsm!Stale)
<1> USE DEF HandlersApart, Fsm!Connected, Fsm!workerVars
<1>1. CASE Fsm!Load
  BY <1>1, Zenon DEF Fsm!Load
<1>2. CASE Fsm!SendHandshake
  BY <1>2, Zenon DEF Fsm!SendHandshake
<1>3. CASE Fsm!StoreWait
  BY <1>3, Zenon DEF Fsm!StoreWait, Fsm!EndRound, Fsm!Stale, Fsm!Sends
<1>4. CASE Fsm!CheckWait
  BY <1>4, Zenon DEF Fsm!CheckWait, Fsm!EndRound, Fsm!Stale, Fsm!Waits
<1>5. CASE Fsm!CheckConnection
  BY <1>5, Zenon DEF Fsm!CheckConnection, Fsm!EndRound
<1>6. CASE Fsm!Tick
  BY <1>6, Zenon DEF Fsm!Tick
<1>7. ASSUME NEW kind, NEW expected \in Fsm!Waits, NEW handler,
             Fsm!Accept(kind, expected, handler)
      PROVE  HandlersApart' /\ state' = state
  BY <1>7, Zenon DEF Fsm!Accept, Fsm!Waits
<1>8. CASE Fsm!AcceptHello \/ Fsm!AcceptAuth
  BY <1>7, <1>8, Zenon DEF Fsm!AcceptHello, Fsm!AcceptAuth, Fsm!Waits
<1>9. CASE Fsm!StoreHello
  BY <1>9, Zenon DEF Fsm!StoreHello
<1>10. CASE Fsm!StoreAuth
  BY <1>10, Zenon DEF Fsm!StoreAuth
<1>11. CASE Fsm!AcceptOther \/ Fsm!AcceptStray
  BY <1>11, Zenon DEF Fsm!AcceptOther, Fsm!AcceptStray
<1>12. CASE Fsm!server_on_udp \/ Fsm!ServerSends \/ Fsm!SessionLost \/ Fsm!Lose
  BY <1>12, Zenon DEF Fsm!server_on_udp, Fsm!Answer, Fsm!ServerSends, Fsm!SessionLost,
     Fsm!Lose
<1> QED
  BY <1>1, <1>2, <1>3, <1>4, <1>5, <1>6, <1>8, <1>9, <1>10, <1>11, <1>12, Zenon
     DEF Fsm!Next, Fsm!fsm_worker, Fsm!client_on_udp

(***************************************************************************)
(* Whatever the time limits, the delays of the threads and what arrives,   *)
(* lost, late or stray: a connection ends only in a round of the worker    *)
(* that found FSM_TIMEOUT of silence at its start, or by the store of a    *)
(* round that was under way when the connection was made (fsm_worker); no  *)
(* handler of the I/O thread ends one (client_on_udp).                     *)
(***************************************************************************)
THEOREM ConnectionKeptAlways == ProcessSpec => ConnectionKept
<1>1. ProcessInit => HandlersApart
  BY Zenon DEF ProcessInit, FsmRests, Fsm!Init, Fsm!Connected, HandlersApart
<1>2. ASSUME HandlersApart, [ProcessNext]_processVars
      PROVE  /\ HandlersApart'
             /\ [Fsm!Connected /\ state' # state => late \/ Fsm!Stale]_Fsm!vars
  <2>1. Fsm!Next \/ UNCHANGED fsmVars
    BY <1>2, Zenon DEF ProcessNext, processVars
  <2>2. CASE Fsm!Next
    BY <1>2, <2>2, FsmStep, Zenon
  <2>3. CASE UNCHANGED fsmVars
    BY <1>2, <2>3, Zenon DEF HandlersApart, Fsm!Connected, fsmVars, Fsm!vars,
       Fsm!workerVars
  <2> QED
    BY <2>1, <2>2, <2>3, Zenon
<1> QED
  BY <1>1, <1>2, PTL DEF ProcessSpec, ConnectionKept, Fsm!ConnectionKept

-----------------------------------------------------------------------------
\* A keygen between its O_CREAT and its last step: the file is its own.
Working == {"open", "private", "short", "written"}

(***************************************************************************)
(* The key file.  Only one keygen at a time is past O_CREAT, the file is   *)
(* then what that one has made of it, and no key has been reported.        *)
(***************************************************************************)
FileOwned ==
    \A g \in Gens :
        /\ gen[g] \in {"off", "drawn"} \cup Working
        /\ gen[g] # "off" => Store!IsKey(tmp_key[g])
        /\ gen[g] \in {"open", "private"} => file = Store!Empty
        /\ gen[g] = "short" => file = Store!Partial
        /\ gen[g] = "written" => file = tmp_key[g]
        /\ gen[g] \in Working => reported = Store!Nothing
        /\ \A h \in Gens : gen[g] \in Working /\ gen[h] \in Working => g = h

KeyInv ==
    /\ DOMAIN gen = Gens /\ DOMAIN tmp_key = Gens
    /\ DOMAIN prog = Starts /\ DOMAIN master_key = Starts
    /\ DOMAIN unlinked = Starts
    /\ FileOwned
    /\ reported # Store!Nothing => Store!IsKey(reported)
    /\ Store!ReportedKeyKept /\ Store!HoldsKeyOfFile

\* No other state of the file is a whole key.
LEMMA Contents ==
    /\ ~Store!IsKey(Store!Absent) /\ ~Store!IsKey(Store!Empty)
    /\ ~Store!IsKey(Store!Partial) /\ \A n : Store!IsKey(Store!Key(n))
    /\ Store!Absent # Store!Empty /\ Store!Absent # Store!Partial
  BY Zenon DEF Store!IsKey, Store!Absent, Store!Empty, Store!Partial, Store!Key

(* The steps of a keygen (vfast_cmd_keygen) keep the invariant.            *)
LEMMA KeygenStep ==
    ASSUME KeyInv, NEW g \in Gens, Store!vfast_cmd_keygen(g)
    PROVE  KeyInv'
<1>0. UNCHANGED <<prog, master_key>>
  BY Zenon DEF Store!vfast_cmd_keygen
<1> USE DEF KeyInv, Store!ReportedKeyKept, Store!HoldsKeyOfFile
<1>1. CASE Store!vf_generate_key(g)
  <2>1. Store!IsKey(tmp_key'[g])
    BY <1>1, Contents, Zenon DEF Store!vf_generate_key
  <2>2. FileOwned'
    BY <1>1, <2>1, Zenon DEF Store!vf_generate_key, FileOwned, Working
  <2> QED
    BY <1>0, <1>1, <2>2, Zenon DEF Store!vf_generate_key
<1>2. CASE Store!Create(g)
  <2>1. CASE file = Store!Absent /\ file' = Store!Empty /\ Store!At(g, "drawn", "open")
    <3>1. /\ reported = Store!Nothing
          /\ \A h \in Gens : gen[h] \notin Working
      BY <2>1, Contents, Zenon DEF FileOwned, Working
    <3>2. /\ gen' = [gen EXCEPT ![g] = "open"] /\ tmp_key' = tmp_key
          /\ gen[g] = "drawn" /\ reported' = reported /\ durable' = durable
          /\ unlinked' = unlinked /\ stale' = stale
      BY <1>2, <2>1, Zenon DEF Store!Create, Store!At
    <3>3. FileOwned'
      BY <2>1, <3>1, <3>2, Zenon DEF FileOwned, Working
    <3>4. ~Store!IsKey(file)
      BY <2>1, Contents, Zenon
    <3> QED
      BY <1>0, <3>1, <3>2, <3>3, <3>4, Zenon
  <2>2. CASE UNCHANGED file /\ Store!At(g, "drawn", "off")
    <3>1. /\ gen' = [gen EXCEPT ![g] = "off"]
          /\ tmp_key' = [tmp_key EXCEPT ![g] = Store!Nothing]
          /\ reported' = reported /\ durable' = durable /\ file' = file
          /\ unlinked' = unlinked /\ stale' = stale
      BY <1>2, <2>2, Zenon DEF Store!Create, Store!At
    <3>2. FileOwned'
      BY <3>1, Zenon DEF FileOwned, Working
    <3> QED
      BY <1>0, <3>1, <3>2, Zenon
  <2> QED
    BY <1>2, <2>1, <2>2, Zenon DEF Store!Create
<1>3. CASE Store!Harden(g) \/ Store!Write(g)
  <2>0. reported' = reported /\ durable' = durable
    BY <1>3, Zenon DEF Store!Harden, Store!Write
  <2>1. ASSUME gen[g] \in {"open", "private", "short"},
               gen' = [gen EXCEPT ![g] = "off"],
               tmp_key' = [tmp_key EXCEPT ![g] = Store!Nothing], file' = Store!Absent,
               DOMAIN unlinked' = Starts, stale \subseteq stale'
        PROVE  KeyInv'
    <3>1. reported = Store!Nothing /\ ~Store!IsKey(file)
      BY <2>1, Contents, Zenon DEF FileOwned, Working
    <3>2. \A h \in Gens : h # g => gen[h] \notin Working
      BY <2>1, Zenon DEF FileOwned, Working
    <3>3. FileOwned'
      BY <2>0, <2>1, <3>1, <3>2, Zenon DEF FileOwned, Working
    <3> QED
      BY <1>0, <2>0, <2>1, <3>1, <3>3, Zenon
  <2>2. ASSUME NEW from \in {"open", "private", "short"}, Store!GiveUp(g, from)
        PROVE  KeyInv'
    BY <2>1, <2>2, Zenon DEF Store!GiveUp, Store!At, Store!Unlink
  <2>3. ASSUME NEW to \in Working, gen' = [gen EXCEPT ![g] = to], tmp_key' = tmp_key,
               gen[g] \in {"open", "private"}, UNCHANGED <<unlinked, stale>>,
               \/ to = "private" /\ file' = Store!Empty
               \/ to = "written" /\ file' = tmp_key[g]
               \/ to = "short" /\ file' = Store!Partial
        PROVE  KeyInv'
    <3>1. /\ reported = Store!Nothing /\ ~Store!IsKey(file)
          /\ Store!IsKey(tmp_key[g])
      BY <2>3, Contents, Zenon DEF FileOwned, Working
    <3>2. \A h \in Gens : h # g => gen[h] \notin Working
      BY <2>3, Zenon DEF FileOwned, Working
    <3>3. FileOwned'
      BY <2>0, <2>3, <3>1, <3>2, Zenon DEF FileOwned, Working
    <3> QED
      BY <1>0, <2>0, <2>3, <3>1, <3>3, Zenon
  <2>4. CASE Store!At(g, "open", "private") /\ UNCHANGED <<file, unlinked, stale>>
    BY <2>3, <2>4, Zenon DEF Store!At, FileOwned, Working
  <2>5. CASE /\ Store!At(g, "private", "written") /\ file' = tmp_key[g]
             /\ UNCHANGED <<unlinked, stale>>
    BY <2>3, <2>5, ZenonT(30) DEF Store!At, Working
  <2>6. CASE /\ Store!At(g, "private", "short") /\ file' = Store!Partial
             /\ UNCHANGED <<unlinked, stale>>
    BY <2>3, <2>6, Zenon DEF Store!At, Working
  <2> QED
    BY <1>3, <2>2, <2>4, <2>5, <2>6, Zenon DEF Store!Harden, Store!Write
<1>4. CASE Store!Sync(g)
  <2>1. /\ gen[g] = "written" /\ gen' = [gen EXCEPT ![g] = "off"]
        /\ tmp_key' = [tmp_key EXCEPT ![g] = Store!Nothing] /\ file' = file
        /\ unlinked' = unlinked /\ stale' = stale
        /\ \/ durable' = file /\ reported' = tmp_key[g]
           \/ durable' = durable /\ reported' = reported
    BY <1>4, Zenon DEF Store!Sync, Store!At
  <2>2. file = tmp_key[g] /\ Store!IsKey(tmp_key[g]) /\ reported = Store!Nothing
    BY <2>1, Zenon DEF FileOwned, Working
  <2>3. \A h \in Gens : h # g => gen[h] \notin Working
    BY <2>1, Zenon DEF FileOwned, Working
  <2>4. FileOwned'
    BY <2>1, <2>3, Zenon DEF FileOwned, Working
  <2> QED
    BY <1>0, <2>1, <2>2, <2>4, Zenon
<1> QED
  BY <1>1, <1>2, <1>3, <1>4, Zenon DEF Store!vfast_cmd_keygen

(* So do the starts and ends of programs (vf_option_conf, vfast_load_key). *)
LEMMA ProgramStep ==
    ASSUME KeyInv, NEW p \in Starts,
           \/ \E lines \in ConfigFiles : Store!Options(p, lines)
           \/ Store!vfast_load_key(p) \/ Store!Stop(p)
    PROVE  KeyInv'
<1> USE DEF KeyInv, Store!ReportedKeyKept, Store!HoldsKeyOfFile
<1>1. ASSUME NEW lines \in ConfigFiles, Store!Options(p, lines)
      PROVE  KeyInv'
  <2>1. /\ UNCHANGED <<durable, gen, tmp_key, master_key, unlinked, made, reported,
                       stale>>
        /\ file' = file \/ file' = Store!Touch(file)
        /\ prog[p] = "off"
    BY <1>1, Zenon DEF Store!Options, Store!vf_option_conf
  <2>2. \E s \in {"off", "options"} : prog' = [prog EXCEPT ![p] = s]
    BY <1>1, ZenonT(30) DEF Store!Options
  <2>3. file' = file \/ (file = Store!Absent /\ file' = Store!Empty)
    BY <2>1, Zenon DEF Store!Touch
  <2>4. Store!IsKey(file) => file' = file
    BY <2>3, Contents, Zenon
  <2>5. FileOwned'
    <3>1. \A g \in Gens : gen[g] \in Working => file' = file
      BY <2>3, <2>4, Contents, Zenon DEF FileOwned, Working
    <3> QED
      BY <2>1, <3>1, Zenon DEF FileOwned, Working
  <2>6. Store!HoldsKeyOfFile'
    BY <2>1, <2>2, <2>4, Zenon
  <2> QED
    BY <2>1, <2>2, <2>4, <2>5, <2>6, Zenon
<1>2. CASE Store!OpenKey(p)
  <2>1. UNCHANGED <<file, durable, gen, tmp_key, master_key, unlinked, made, reported,
                    stale>>
    BY <1>2, Zenon DEF Store!OpenKey
  <2>2. \E s \in {"off", "open"} : prog' = [prog EXCEPT ![p] = s]
    BY <1>2, Zenon DEF Store!OpenKey
  <2>3. FileOwned'
    BY <2>1, Zenon DEF FileOwned
  <2>4. Store!HoldsKeyOfFile'
    BY <2>1, <2>2, Zenon
  <2> QED
    BY <2>1, <2>2, <2>3, <2>4, Zenon
<1>4. CASE Store!ReadKey(p)
  <2>1. /\ UNCHANGED <<file, durable, gen, tmp_key, made, reported>>
        /\ unlinked' = [unlinked EXCEPT ![p] = Store!Nothing]
    BY <1>4, Zenon DEF Store!ReadKey
  <2>2. PICK key, s : /\ prog' = [prog EXCEPT ![p] = s]
                      /\ master_key' = [master_key EXCEPT ![p] = key]
                      /\ s = "up" /\ p \notin stale => Store!IsKey(file) /\ key = file
                      /\ stale' = stale \/ (s = "off" /\ stale' = stale \ {p})
    <3> DEFINE got == IF p \in stale THEN unlinked[p] ELSE file
    <3>1. CASE Store!IsKey(got)
      BY <1>4, <3>1, Zenon DEF Store!ReadKey
    <3>2. CASE ~Store!IsKey(got)
      BY <1>4, <3>2, Zenon DEF Store!ReadKey
    <3> QED
      BY <3>1, <3>2, Zenon
  <2>3. FileOwned'
    BY <2>1, Zenon DEF FileOwned
  <2>4. ASSUME NEW q \in Starts, prog'[q] = "up", q \notin stale'
        PROVE  Store!IsKey(file') /\ master_key'[q] = file'
    <3>1. CASE q = p
      <4>1. s = "up" /\ master_key'[q] = key
        BY <2>2, <2>4, <3>1, Zenon
      <4>2. p \notin stale
        BY <2>2, <2>4, <3>1, <4>1, Zenon
      <4> QED
        BY <2>1, <2>2, <4>1, <4>2, Zenon
    <3>2. CASE q # p
      <4>1. prog'[q] = prog[q] /\ master_key'[q] = master_key[q] /\ q \notin stale
        BY <2>2, <2>4, <3>2, Zenon
      <4> QED
        BY <2>1, <2>4, <4>1, Zenon
    <3> QED
      BY <3>1, <3>2, Zenon
  <2> QED
    BY <2>1, <2>2, <2>3, <2>4, Zenon
<1>3. CASE Store!Stop(p)
  <2>1. /\ UNCHANGED <<file, durable, gen, tmp_key, unlinked, made, reported>>
        /\ prog' = [prog EXCEPT ![p] = "off"]
        /\ master_key' = [master_key EXCEPT ![p] = Store!Nothing]
        /\ stale' = stale \ {p}
    BY <1>3, Zenon DEF Store!Stop
  <2>2. FileOwned'
    BY <2>1, Zenon DEF FileOwned
  <2>3. Store!HoldsKeyOfFile'
    BY <2>1, Zenon
  <2> QED
    BY <2>1, <2>2, <2>3, Zenon
<1> QED
  BY <1>1, <1>2, <1>3, <1>4, Zenon DEF Store!vfast_load_key

(* So do an operator who deletes the file and a power failure.             *)
LEMMA FileLost ==
    ASSUME KeyInv, Store!Delete \/ Store!PowerFails
    PROVE  KeyInv'
<1> USE DEF KeyInv, Store!ReportedKeyKept, Store!HoldsKeyOfFile
<1>1. CASE Store!Delete
  <2>1. /\ UNCHANGED <<gen, tmp_key, prog, master_key, made>>
        /\ reported' = Store!Nothing
        /\ \A p \in Starts : prog[p] = "up" => p \in stale'
        /\ DOMAIN unlinked' = Starts
        /\ \A g \in Gens : gen[g] \in {"off", "drawn"}
    BY <1>1, Zenon DEF Store!Delete, Store!Unlink
  <2>2. FileOwned'
    BY <2>1, Zenon DEF FileOwned, Working
  <2>3. Store!HoldsKeyOfFile'
    BY <2>1, Zenon
  <2> QED
    BY <2>1, <2>2, <2>3, Zenon
<1>2. CASE Store!PowerFails
  <2>1. /\ gen' = [g \in Gens |-> "off"] /\ tmp_key' = [g \in Gens |-> Store!Nothing]
        /\ prog' = [p \in Starts |-> "off"]
        /\ master_key' = [p \in Starts |-> Store!Nothing]
        /\ unlinked' = [p \in Starts |-> Store!Nothing]
        /\ reported' = reported /\ durable' = file'
    BY <1>2, Zenon DEF Store!PowerFails
  <2>2. file = durable => file' = file
    BY <1>2, Zenon DEF Store!PowerFails
  <2>3. FileOwned'
    BY <2>1, Zenon DEF FileOwned, Working
  <2>4. Store!HoldsKeyOfFile'
    BY <2>1, Zenon
  <2> QED
    BY <2>1, <2>2, <2>3, <2>4, Zenon
<1> QED
  BY <1>1, <1>2, Zenon

LEMMA KeyFileInvariant == ProcessSpec => []KeyInv
<1>1. Store!Init => KeyInv
  <2> SUFFICES ASSUME Store!Init PROVE KeyInv
    OBVIOUS
  <2>1. FileOwned
    BY Zenon DEF Store!Init, FileOwned, Working
  <2> QED
    BY <2>1, Zenon DEF Store!Init, KeyInv, Store!ReportedKeyKept, Store!HoldsKeyOfFile
<1>2. ASSUME KeyInv, [ProcessNext]_processVars
      PROVE  KeyInv'
  <2>0. Store!Next \/ UNCHANGED keyVars
    BY <1>2, Zenon DEF ProcessNext, processVars
  <2>1. ASSUME NEW g \in Gens, Store!vfast_cmd_keygen(g) PROVE KeyInv'
    BY <1>2, <2>1, KeygenStep, Zenon
  <2>2. ASSUME NEW p \in Starts,
               \/ \E lines \in ConfigFiles : Store!Options(p, lines)
               \/ Store!vfast_load_key(p) \/ Store!Stop(p)
        PROVE  KeyInv'
    BY <1>2, <2>2, ProgramStep, Zenon
  <2>3. CASE Store!Delete \/ Store!PowerFails
    BY <1>2, <2>3, FileLost, Zenon
  <2>4. CASE UNCHANGED keyVars
    BY <1>2, <2>4, Zenon DEF KeyInv, FileOwned, keyVars, Store!ReportedKeyKept,
        Store!HoldsKeyOfFile
  <2> QED
    BY <2>0, <2>1, <2>2, <2>3, <2>4, Zenon DEF Store!Next
<1>3. ProcessInit => Store!Init
  BY Zenon DEF ProcessInit
<1> QED
  BY <1>1, <1>2, <1>3, PTL DEF ProcessSpec

(***************************************************************************)
(* A key whose generation and disk sync vfast_cmd_keygen reported stays in *)
(* the file, on disk too, until an operator deletes it, however many       *)
(* keygens and programs run, whatever their options, and wherever the      *)
(* power fails.                                                            *)
(***************************************************************************)
THEOREM ReportedKeyKeptAlways == ProcessSpec => []ReportedKeyKept
<1>1. KeyInv => ReportedKeyKept
  BY Zenon DEF KeyInv, ReportedKeyKept
<1> QED
  BY <1>1, KeyFileInvariant, PTL

(***************************************************************************)
(* Every program that is up holds, whole, the key that is in the file,     *)
(* except one that was up when an operator deleted it (vfast_load_key,     *)
(* vf_option_conf, vfast_cmd_keygen), for any number of programs.          *)
(***************************************************************************)
THEOREM HoldsKeyOfFileAlways == ProcessSpec => []HoldsKeyOfFile
<1>1. KeyInv => HoldsKeyOfFile
  BY Zenon DEF KeyInv, HoldsKeyOfFile
<1> QED
  BY <1>1, KeyFileInvariant, PTL

-----------------------------------------------------------------------------
(***************************************************************************)
(* The life of a program.  Until main stops, the descriptors it opened     *)
(* have the numbers that follow the standard ones, because nothing else is *)
(* opened before the thread starts and nothing closed; from then on main   *)
(* closes each of them once before vf_io_exit, and the numbers that become *)
(* free are taken by the management worker only.                           *)
(***************************************************************************)
Tun == IF Life!Server THEN 4 ELSE 3         \* its descriptor
TunStep == IF Life!Server THEN 6 ELSE 3     \* where vf_tun_init is in Startup
SignalStep == IF Life!Server THEN 3 ELSE 2

Urandom == IF Life!Server THEN 3 ELSE 0
Initialized ==
    /\ held.urandom = Urandom /\ held.io_udp = Tun + 1 /\ held.io_tun = Tun
    /\ held.ring \in {0, Tun + 2}
    /\ handlers /\ thread # "none"
NotInitialized ==
    /\ held.io_udp = 0 /\ held.io_tun = 0 /\ held.ring = 0
    /\ thread = "none"

\* The numbers main holds while it starts and while it stops.
StartNumbers ==
    /\ at[2] \in 1 .. TunStep + 3
    /\ held.urandom = IF at[2] > 1 THEN Urandom ELSE 0
    /\ held.tun = IF at[2] > TunStep THEN Tun ELSE 0
    /\ held.udp = IF at[2] > TunStep + 1 THEN Tun + 1 ELSE -1
    /\ at[2] > SignalStep => handlers
    /\ IF at[2] > TunStep + 2
       THEN /\ held.io_udp = Tun + 1 /\ held.io_tun = Tun
            /\ held.ring \in {0, Tun + 2} /\ thread = "none"
       ELSE NotInitialized
StopNumbers ==
    /\ at[2] \in 1 .. (IF Life!Server THEN 8 ELSE 4)
    /\ held.urandom = Urandom
    /\ \/ /\ Initialized /\ held.ring # 0
          /\ held.udp = IF at[2] > (IF Life!Server THEN 2 ELSE 3) THEN -1 ELSE Tun + 1
       \/ NotInitialized /\ held.udp = -1
    /\ \/ held.tun = IF at[2] > (IF Life!Server THEN 3 ELSE 2) THEN -1 ELSE Tun
       \/ held.tun = 0 /\ NotInitialized /\ ~Life!Server /\ at[2] = 2
    /\ Life!Server /\ at[2] > 7 => thread \in {"none", "failed", "gone"}

\* The numbers main holds, in each stage of its life.
Numbers ==
    /\ Life!Stage("start") => StartNumbers
    /\ Life!Stage("ready") \/ Life!Stage("loop") =>
        Initialized /\ held.tun = Tun /\ held.udp = Tun + 1
    /\ Life!Stage("loop") => held.ring # 0
    /\ Life!Stage("stop") => StopNumbers
    /\ asked \/ cancelled => (Life!Stage("loop") \/ Life!Stage("stop")) /\ Initialized

UrandomOpen == Life!Stage("stop") => at[2] = 1
RingOpen == Life!Stage("stop") /\ Life!Server => at[2] <= 6
Standard == <<"stdin", "stdout", "stderr">>

\* What the numbers refer to, and the other way round.
StandardOpen ==
    ~Life!Stage("stop") \/ thread # "none" => \A n \in 0 .. 2 : fds[n] = Standard[n + 1]
OpenAs(n, what) == n \in 0 .. MaxFd /\ fds[n] = what
MainOpen ==
    /\ held.urandom # 0 /\ UrandomOpen => OpenAs(held.urandom, "urandom")
    /\ held.tun > 0 => OpenAs(held.tun, "tun")
    /\ held.udp > 0 => OpenAs(held.udp, "udp")
WorkerOpen ==
    /\ thread \in {"started", "listening", "serving"} => Life!Server
    /\ thread \in {"listening", "serving"} =>
        socks.lfd \in 0 .. MaxFd /\ fds[socks.lfd] \in {"listener", "free"}
    /\ thread = "serving" =>
        socks.cfd \in 0 .. MaxFd /\ fds[socks.cfd] \in {"connection", "free"}
Owner(n) ==
    /\ fds[n] \in {"stdin", "stdout", "stderr"} => n <= 2
    /\ n <= 2 => fds[n] \in {Standard[n + 1], "free"}
    /\ fds[n] = "urandom" => n = held.urandom /\ UrandomOpen
    /\ fds[n] = "tun" => n = held.tun
    /\ fds[n] = "udp" => n = held.udp
    /\ fds[n] = "ring" => n = held.ring /\ RingOpen
    /\ fds[n] = "listener" => /\ n = socks.lfd /\ Life!Server
                              /\ thread \in {"listening", "serving", "gone"}
    /\ fds[n] = "connection" => n = socks.cfd /\ thread = "serving"
Descriptors ==
    StandardOpen /\ MainOpen /\ WorkerOpen /\ \A n \in 0 .. MaxFd : Owner(n)

Kinds == {"stdin", "stdout", "stderr", "free", "urandom", "tun", "udp", "ring",
          "listener", "connection"}
Typed ==
    /\ at[1] \in {"start", "ready", "loop", "stop"}
    /\ fds \in [0 .. MaxFd -> Kinds]
    /\ held \in [urandom : Int, udp : Int, tun : Int, io_udp : Int, io_tun : Int,
                 ring : Int]
    /\ socks \in [lfd : Int, cfd : Int]

\* Another part's descriptor is met by vf_io_exit, or by a client that failed.
Met ==
    \A h \in hits :
        \/ h[1] = "vf_io_exit"
        \/ /\ h = <<"vf_tun_destroy", "stdin">> /\ ~Life!Server /\ ~asked
           /\ at[1] \in {"stop", "exited", "crashed"}

Left == asked \/ cancelled => \A n \in DOMAIN fds : fds[n] \in Life!Leftovers

LifeInv ==
    /\ Met
    /\ Life!Live => Typed /\ Numbers /\ Descriptors
    /\ Life!Stage("exited") => Left

-----------------------------------------------------------------------------
(* The lowest free number is the first one that is free.                   *)
LEMMA LowestIs ==
    ASSUME Typed, NEW m \in 0 .. MaxFd, fds[m] = "free",
           \A n \in 0 .. m - 1 : fds[n] # "free"
    PROVE  Life!Lowest = m
<1> DEFINE S == {n \in DOMAIN fds : fds[n] = "free"}
<1>1. m \in S /\ S \subseteq Int /\ \A y \in S : m <= y
  BY FdAssumption DEF Typed
<1>2. \A x \in S : (\A y \in S : x <= y) => x = m
  BY <1>1
<1> HIDE DEF S
<1>3. (CHOOSE x \in S : \A y \in S : x <= y) = m
  BY <1>1, <1>2, Zenon
<1> QED BY <1>3, Zenon DEF S, Life!Lowest, Life!Min

(* What the management worker opens gets a number that was free.           *)
LEMMA LowestFree ==
    ASSUME Typed, \A n \in 0 .. 2 : fds[n] # "free",
           fds[7] = "free" \/ fds[8] = "free"
    PROVE  Life!Lowest \in 3 .. 8 /\ fds[Life!Lowest] = "free"
<1> DEFINE m == IF fds[3] = "free" THEN 3 ELSE IF fds[4] = "free" THEN 4
                ELSE IF fds[5] = "free" THEN 5 ELSE IF fds[6] = "free" THEN 6
                ELSE IF fds[7] = "free" THEN 7 ELSE 8
<1>1. m \in 3 .. 8 /\ fds[m] = "free"
  OBVIOUS
<1>2. \A n \in 0 .. m - 1 : fds[n] # "free"
  OBVIOUS
<1> HIDE DEF m
<1>3. Life!Lowest = m
  BY <1>1, <1>2, LowestIs, FdAssumption
<1> QED BY <1>1, <1>3, Zenon

(* The descriptors of main are numbered in the order of their steps.       *)
LEMMA NumberOf ==
    ASSUME Typed, Numbers, Descriptors, Life!Stage("start")
    PROVE  /\ Life!Server /\ at[2] = 1 => Life!Lowest = 3 /\ fds[3] = "free"
           /\ at[2] = TunStep => Life!Lowest = Tun /\ fds[Tun] = "free"
           /\ at[2] = TunStep + 1 => Life!Lowest = Tun + 1 /\ fds[Tun + 1] = "free"
           /\ at[2] = TunStep + 2 => Life!Lowest = Tun + 2 /\ fds[Tun + 2] = "free"
<1>0. ~Life!Stage("stop") /\ thread = "none"
  BY Zenon DEF Numbers, StartNumbers, NotInitialized, Life!Stage
<1>a. /\ \A n \in 0 .. 2 : fds[n] = Standard[n + 1]
      /\ held.urandom # 0 => fds[held.urandom] = "urandom"
      /\ held.tun > 0 => fds[held.tun] = "tun"
      /\ held.udp > 0 => fds[held.udp] = "udp"
  BY <1>0, Zenon DEF Descriptors, StandardOpen, MainOpen, OpenAs, UrandomOpen
<1>b. fds[0] # "free" /\ fds[1] # "free" /\ fds[2] # "free"
  BY <1>a DEF Standard
<1>1. \A n \in 3 .. 8 :
        /\ n \in 0 .. MaxFd
        /\ n \notin {held.urandom, held.tun, held.udp, held.ring} => fds[n] = "free"
        /\ n \in {held.urandom, held.tun, held.udp} => fds[n] # "free"
  <2> SUFFICES ASSUME NEW n \in 3 .. 8
               PROVE  /\ n \in 0 .. MaxFd
                      /\ n \notin {held.urandom, held.tun, held.udp, held.ring} => fds[n] = "free"
                      /\ n \in {held.urandom, held.tun, held.udp} => fds[n] # "free"
      OBVIOUS
  <2>1. n \in 0 .. MaxFd /\ fds[n] \in Kinds
    BY FdAssumption DEF Typed
  <2>2. n \notin {held.urandom, held.tun, held.udp, held.ring} => fds[n] = "free"
    BY <1>0, <2>1, SMTT(30) DEF Kinds, Descriptors, Owner, Standard
  <2> QED BY <1>a, <2>1, <2>2
<1>2. /\ held.urandom = IF at[2] > 1 THEN Urandom ELSE 0
      /\ held.tun = IF at[2] > TunStep THEN Tun ELSE 0
      /\ held.udp = IF at[2] > TunStep + 1 THEN Tun + 1 ELSE -1
      /\ at[2] <= TunStep + 2 => held.ring = 0
  BY DEF Numbers, StartNumbers, NotInitialized, TunStep
<1>3. ASSUME Life!Server, at[2] = 1 PROVE Life!Lowest = 3 /\ fds[3] = "free"
  BY <1>b, <1>1, <1>2, <1>3, LowestIs, SMTT(30) DEF Tun, TunStep, Urandom
<1>4. ASSUME at[2] = TunStep PROVE Life!Lowest = Tun /\ fds[Tun] = "free"
  BY <1>b, <1>1, <1>2, <1>4, LowestIs, SMTT(30) DEF Tun, TunStep, Urandom
<1>5. ASSUME at[2] = TunStep + 1 PROVE Life!Lowest = Tun + 1 /\ fds[Tun + 1] = "free"
  BY <1>b, <1>1, <1>2, <1>5, LowestIs, SMTT(30) DEF Tun, TunStep, Urandom
<1>6. ASSUME at[2] = TunStep + 2 PROVE Life!Lowest = Tun + 2 /\ fds[Tun + 2] = "free"
  BY <1>b, <1>1, <1>2, <1>6, LowestIs DEF Tun, TunStep, Urandom
<1> QED BY <1>3, <1>4, <1>5, <1>6, Zenon

(* Opening changes one number.                                             *)
LEMMA Assigned ==
    ASSUME Typed, NEW m \in 0 .. MaxFd, NEW k \in Kinds, fds' = [fds EXCEPT ![m] = k]
    PROVE  /\ fds' \in [0 .. MaxFd -> Kinds] /\ fds'[m] = k
           /\ \A n \in 0 .. MaxFd : n # m => fds'[n] = fds[n]
<1>1. fds \in [0 .. MaxFd -> Kinds]
  BY Zenon DEF Typed
<1> QED BY <1>1, Zenon

(* A descriptor that main opens is what the number it stores refers to.    *)
LEMMA MainOpens ==
    ASSUME Typed, Descriptors, Life!Stage("start"), Life!Stage("start")', thread = "none",
           UNCHANGED <<program, thread, socks>>,
           NEW k \in {"urandom", "tun", "udp", "ring"}, NEW m \in 3 .. 8,
           fds[m] = "free", fds' = [fds EXCEPT ![m] = k],
           held'.urandom = IF k = "urandom" THEN m ELSE held.urandom,
           held'.tun = IF k = "tun" THEN m ELSE held.tun,
           held'.udp = IF k = "udp" THEN m ELSE held.udp,
           held'.ring = IF k = "ring" THEN m ELSE held.ring,
           k = "urandom" => held.urandom = 0, k = "tun" => held.tun = 0,
           k = "udp" => held.udp = -1, k = "ring" => held.ring = 0
    PROVE  Descriptors' /\ fds' \in [0 .. MaxFd -> Kinds]
<1> USE DEF Life!Stage, Life!Server
<1>1. m \in 0 .. MaxFd /\ k \in Kinds
  BY FdAssumption DEF Kinds
<1>2. /\ fds' \in [0 .. MaxFd -> Kinds] /\ fds'[m] = k
      /\ \A n \in 0 .. MaxFd : n # m => fds'[n] = fds[n]
  BY <1>1, Assigned, ZenonT(30)
<1>3. StandardOpen'
  BY <1>2, FdAssumption DEF Descriptors, StandardOpen
<1>4. MainOpen'
  <2>1. /\ held.urandom # 0 => OpenAs(held.urandom, "urandom")
        /\ held.tun > 0 => OpenAs(held.tun, "tun")
        /\ held.udp > 0 => OpenAs(held.udp, "udp")
    BY Zenon DEF Descriptors, MainOpen, UrandomOpen
  <2> QED BY <1>1, <1>2, <2>1, Zenon DEF MainOpen, OpenAs
<1>5. WorkerOpen'
  BY Zenon DEF WorkerOpen
<1>6. ASSUME NEW n \in 0 .. MaxFd PROVE Owner(n)'
  <2>1. Owner(n)
    BY Zenon DEF Descriptors
  <2>2. UrandomOpen' /\ RingOpen'
    BY Zenon DEF UrandomOpen, RingOpen
  <2> QED BY <1>2, <2>1, <2>2, SMTT(30) DEF Owner, Standard
<1> QED BY <1>2, <1>3, <1>4, <1>5, <1>6, Zenon DEF Descriptors

(* The steps of startup that open something.                               *)
LEMMA LifeOpens ==
    ASSUME LifeInv, Life!Live,
           Life!vf_user_init \/ Life!vf_tun_init \/ Life!udp_init_listener \/ Life!vf_io_init
    PROVE  LifeInv'
<1>1. Typed /\ Numbers /\ Descriptors /\ Met
  BY Zenon DEF LifeInv
<1>2. Life!Stage("start") /\ at[2] \in 1 .. TunStep + 3 /\ thread = "none" /\ ~asked /\ ~cancelled
  BY <1>1, Zenon
     DEF Numbers, StartNumbers, NotInitialized, Life!vf_user_init, Life!vf_tun_init, Life!udp_init_listener,
     Life!vf_io_init, Life!Starting, Life!Stage
<1>3. UNCHANGED <<program, asked, cancelled, handlers, thread, socks, hits>>
  BY Zenon DEF Life!vf_user_init, Life!vf_tun_init, Life!udp_init_listener,
     Life!vf_io_init, Life!Opens, Life!control, Life!second
<1>4. /\ Life!vf_user_init => Life!Server /\ at[2] = 1
      /\ Life!vf_tun_init => at[2] = TunStep
      /\ Life!udp_init_listener => at[2] = TunStep + 1
      /\ Life!vf_io_init => at[2] = TunStep + 2
  BY <1>2 DEF Life!vf_user_init, Life!vf_tun_init, Life!udp_init_listener,
     Life!vf_io_init, Life!Starting, Life!Startup, Life!vfast_init_server,
     Life!vfast_init_client, TunStep
<1>5. at' = <<"start", at[2] + 1>>
  BY <1>2, <1>4, SMTT(30) DEF Life!vf_user_init, Life!vf_tun_init, Life!udp_init_listener,
     Life!vf_io_init, Life!Proceed, Life!Startup, Life!vfast_init_server,
     Life!vfast_init_client, TunStep
<1>6. Met' /\ ~Life!Stage("exited")'
  BY <1>1, <1>2, <1>3, <1>5, Zenon DEF Met, Life!Stage, Life!Server
<1>7. /\ at[1] = "start" /\ at'[1] = "start" /\ at'[2] = at[2] + 1
      /\ held \in [urandom : Int, udp : Int, tun : Int, io_udp : Int, io_tun : Int, ring : Int]
      /\ held.urandom = (IF at[2] > 1 THEN Urandom ELSE 0)
      /\ held.tun = (IF at[2] > TunStep THEN Tun ELSE 0)
      /\ held.udp = (IF at[2] > TunStep + 1 THEN Tun + 1 ELSE -1)
      /\ at[2] <= TunStep + 2 => NotInitialized
      /\ at[2] > SignalStep => handlers
  BY <1>1, <1>2, <1>5, SMTT(30) DEF Typed, Numbers, StartNumbers, Life!Stage, TunStep
<1>8. /\ Tun \in 3 .. 4 /\ TunStep \in {3, 6} /\ SignalStep \in 1 .. TunStep - 1
      /\ Urandom \in {0, 3}
      /\ UNCHANGED <<Life!Server, Tun, TunStep, SignalStep, Urandom>>
  BY <1>3 DEF Tun, TunStep, SignalStep, Urandom, Life!Server
\* What is left to show of each step.
<1>9. ASSUME NEW k \in {"urandom", "tun", "udp", "ring"},
             fds' = [fds EXCEPT ![Life!Lowest] = k],
             held' \in [urandom : Int, udp : Int, tun : Int, io_udp : Int, io_tun : Int, ring : Int],
             held'.urandom = IF k = "urandom" THEN Life!Lowest ELSE held.urandom,
             held'.tun = IF k = "tun" THEN Life!Lowest ELSE held.tun,
             held'.udp = IF k = "udp" THEN Life!Lowest ELSE held.udp,
             held'.ring = IF k = "ring" THEN Life!Lowest ELSE held.ring,
             k = "urandom" => Life!vf_user_init, k = "tun" => Life!vf_tun_init,
             k = "udp" => Life!udp_init_listener, k = "ring" => Life!vf_io_init
      PROVE  Descriptors' /\ Typed'
  <2>1. Life!Lowest \in 3 .. 8 /\ fds[Life!Lowest] = "free"
    BY <1>1, <1>2, <1>4, <1>8, <1>9, NumberOf, SMTT(30)
  <2>2. /\ k = "urandom" => held.urandom = 0
        /\ k = "tun" => held.tun = 0
        /\ k = "udp" => held.udp = -1
        /\ k = "ring" => held.ring = 0
    BY <1>4, <1>7, <1>8, <1>9, SMTT(30) DEF NotInitialized
  <2>3. Descriptors' /\ fds' \in [0 .. MaxFd -> Kinds]
    BY <1>1, <1>2, <1>3, <1>5, <1>9, <2>1, <2>2, MainOpens, ZenonT(30) DEF Life!Stage
  <2> QED BY <1>1, <1>3, <1>7, <1>9, <2>3, Zenon DEF Typed
<1>10. CASE Life!vf_user_init
  <2>1. Life!Server /\ at[2] = 1 /\ Life!Lowest = 3
    BY <1>1, <1>2, <1>4, <1>10, NumberOf, Zenon
  <2>2. /\ fds' = [fds EXCEPT ![Life!Lowest] = "urandom"]
        /\ held' = [held EXCEPT !.urandom = Life!Lowest]
    BY <1>10, Zenon DEF Life!vf_user_init, Life!Opens
  <2>3. /\ held' \in [urandom : Int, udp : Int, tun : Int, io_udp : Int, io_tun : Int, ring : Int]
        /\ held'.urandom = 3 /\ held'.udp = held.udp /\ held'.tun = held.tun
        /\ held'.io_udp = held.io_udp /\ held'.io_tun = held.io_tun /\ held'.ring = held.ring
    BY <1>7, <2>1, <2>2
  <2>4. Descriptors' /\ Typed'
    BY <1>9, <1>10, <2>1, <2>2, <2>3, Zenon
  <2>5. Numbers'
    BY <1>2, <1>3, <1>7, <1>8, <2>1, <2>3
       DEF Numbers, StartNumbers, NotInitialized, Life!Stage, Life!Server, Tun, TunStep, SignalStep, Urandom
  <2> QED BY <1>6, <2>4, <2>5, Zenon DEF LifeInv
<1>11. CASE Life!vf_tun_init
  <2>1. at[2] = TunStep /\ Life!Lowest = Tun
    BY <1>1, <1>2, <1>4, <1>11, NumberOf, Zenon
  <2>2. /\ fds' = [fds EXCEPT ![Life!Lowest] = "tun"]
        /\ held' = [held EXCEPT !.tun = Life!Lowest]
    BY <1>11, Zenon DEF Life!vf_tun_init, Life!Opens
  <2>3. /\ held' \in [urandom : Int, udp : Int, tun : Int, io_udp : Int, io_tun : Int, ring : Int]
        /\ held'.tun = Tun /\ held'.urandom = held.urandom /\ held'.udp = held.udp
        /\ held'.io_udp = held.io_udp /\ held'.io_tun = held.io_tun /\ held'.ring = held.ring
    BY <1>7, <1>8, <2>1, <2>2
  <2>4. Descriptors' /\ Typed'
    BY <1>9, <1>11, <2>1, <2>2, <2>3, Zenon
  <2>5. Numbers'
    BY <1>2, <1>3, <1>7, <2>1, <2>3, SMTT(30)
       DEF Numbers, StartNumbers, NotInitialized, Life!Stage, Life!Server, Tun, TunStep, SignalStep, Urandom
  <2> QED BY <1>6, <2>4, <2>5, Zenon DEF LifeInv
<1>12. CASE Life!udp_init_listener
  <2>1. at[2] = TunStep + 1 /\ Life!Lowest = Tun + 1
    BY <1>1, <1>2, <1>4, <1>12, NumberOf, Zenon
  <2>2. /\ fds' = [fds EXCEPT ![Life!Lowest] = "udp"]
        /\ held' = [held EXCEPT !.udp = Life!Lowest]
    BY <1>12, Zenon DEF Life!udp_init_listener, Life!Opens
  <2>3. /\ held' \in [urandom : Int, udp : Int, tun : Int, io_udp : Int, io_tun : Int, ring : Int]
        /\ held'.udp = Tun + 1 /\ held'.urandom = held.urandom /\ held'.tun = held.tun
        /\ held'.io_udp = held.io_udp /\ held'.io_tun = held.io_tun /\ held'.ring = held.ring
    BY <1>7, <1>8, <2>1, <2>2
  <2>4. Descriptors' /\ Typed'
    BY <1>9, <1>12, <2>1, <2>2, <2>3, Zenon
  <2>5. Numbers'
    BY <1>2, <1>3, <1>7, <2>1, <2>3, SMTT(30)
       DEF Numbers, StartNumbers, NotInitialized, Life!Stage, Life!Server, Tun, TunStep, SignalStep, Urandom
  <2> QED BY <1>6, <2>4, <2>5, Zenon DEF LifeInv
<1>13. CASE Life!vf_io_init
  <2>1. at[2] = TunStep + 2 /\ Life!Lowest = Tun + 2
    BY <1>1, <1>2, <1>4, <1>13, NumberOf, Zenon
  <2> DEFINE io2 == [held EXCEPT !.io_udp = held.udp, !.io_tun = held.tun]
  <2>2. \/ /\ fds' = [fds EXCEPT ![Life!Lowest] = "ring"]
           /\ held' = [io2 EXCEPT !.ring = Life!Lowest]
        \/ fds' = fds /\ held' = io2
    BY <1>13, Zenon DEF Life!vf_io_init, Life!Opens
  <2>3. /\ io2 \in [urandom : Int, udp : Int, tun : Int, io_udp : Int, io_tun : Int, ring : Int]
        /\ io2.udp = held.udp /\ io2.urandom = held.urandom /\ io2.tun = held.tun
        /\ io2.io_udp = held.udp /\ io2.io_tun = held.tun /\ io2.ring = held.ring
    BY <1>7, ZenonT(30)
  <2> HIDE DEF io2
  <2>4. /\ held' \in [urandom : Int, udp : Int, tun : Int, io_udp : Int, io_tun : Int, ring : Int]
        /\ held'.udp = held.udp /\ held'.urandom = held.urandom /\ held'.tun = held.tun
        /\ held'.io_udp = held.udp /\ held'.io_tun = held.tun
        /\ held'.ring = held.ring \/ held'.ring = Tun + 2
    BY <1>8, <2>1, <2>2, <2>3
  <2>5. Descriptors' /\ Typed'
    <3>1. CASE fds' = [fds EXCEPT ![Life!Lowest] = "ring"] /\ held' = [io2 EXCEPT !.ring = Life!Lowest]
      <4>1. held'.ring = Life!Lowest
        BY <2>3, <3>1, Zenon
      <4> QED BY <1>9, <1>13, <2>1, <2>4, <3>1, <4>1, Zenon
    <3>2. CASE fds' = fds /\ held' = io2
      <4>1. Typed'
        BY <1>1, <1>3, <1>7, <2>4, <3>2, Zenon DEF Typed
      <4>2. UrandomOpen' /\ RingOpen' /\ UrandomOpen /\ RingOpen
        BY <1>7, Zenon DEF UrandomOpen, RingOpen, Life!Stage
      <4>3. Descriptors'
        BY <1>1, <1>3, <1>7, <2>3, <2>4, <3>2, <4>2, Zenon
           DEF Descriptors, StandardOpen, MainOpen, WorkerOpen, Owner, OpenAs, Life!Stage, Life!Server
      <4> QED BY <4>1, <4>3, Zenon
    <3> QED BY <2>2, <3>1, <3>2, Zenon
  <2>6. Numbers'
    BY <1>2, <1>3, <1>7, <2>1, <2>4, SMTT(30)
       DEF Numbers, StartNumbers, NotInitialized, Life!Stage, Life!Server, Tun, TunStep, SignalStep, Urandom
  <2> QED BY <1>6, <2>5, <2>6, Zenon DEF LifeInv
<1> QED BY <1>10, <1>11, <1>12, <1>13, Zenon

(* What a close changes, and whose descriptors it meets.                   *)
LEMMA Closed ==
    ASSUME Typed, NEW nums, NEW who, NEW what, Life!Closes(nums, who, what)
    PROVE  /\ fds' \in [0 .. MaxFd -> Kinds]
           /\ \A n \in 0 .. MaxFd : fds'[n] = IF n \in nums THEN "free" ELSE fds[n]
           /\ \A h \in hits' : h \in hits \/ \E n \in nums :
                n \in 0 .. MaxFd /\ fds[n] \notin what \cup {"free"} /\ h = <<who, fds[n]>>
<1>1. fds \in [0 .. MaxFd -> Kinds] /\ DOMAIN fds = 0 .. MaxFd /\ "free" \in Kinds
  BY Zenon DEF Typed, Kinds
<1>2. fds' = [n \in 0 .. MaxFd |-> IF n \in nums THEN "free" ELSE fds[n]]
  BY <1>1, Zenon DEF Life!Closes
<1>3. \A h \in hits' : h \in hits \/ \E n \in nums :
                n \in 0 .. MaxFd /\ fds[n] \notin what \cup {"free"} /\ h = <<who, fds[n]>>
  BY <1>1, Zenon DEF Life!Closes
<1> QED BY <1>1, <1>2, <1>3, Zenon

(* A step of the clean-up that closes nums and forgets what it closes      *)
(* keeps the rest.                                                         *)
LEMMA MainCloses ==
    ASSUME Typed, Descriptors, Life!Stage("stop"), at[2] \in Nat \ {0},
           at' = <<"stop", at[2] + 1>>, UNCHANGED <<program, thread, socks>>,
           NEW nums,
           \A n \in 0 .. MaxFd : fds'[n] = IF n \in nums THEN "free" ELSE fds[n],
           thread = "none" \/ \A n \in 0 .. 2 : n \notin nums,
           held'.urandom = held.urandom, held'.ring = held.ring,
           at[2] = 1 /\ held.urandom # 0 => held.urandom \in nums,
           Life!Server /\ at[2] = 6 /\ held.ring # 0 => held.ring \in nums,
           IF held.tun > 0 /\ held.tun \in nums THEN held'.tun = -1
           ELSE held'.tun = held.tun \/ (held'.tun = -1 /\ held.tun <= 0),
           IF held.udp > 0 /\ held.udp \in nums THEN held'.udp = -1
           ELSE held'.udp = held.udp \/ (held'.udp = -1 /\ held.udp <= 0)
    PROVE  Descriptors'
<1> USE DEF Life!Stage, Life!Server
<1>1. ~UrandomOpen' /\ at'[1] = "stop" /\ at'[2] = at[2] + 1
  BY SMTT(30) DEF UrandomOpen
<1>2. StandardOpen'
  BY FdAssumption, SMTT(30) DEF Descriptors, StandardOpen
<1>3. MainOpen'
  BY <1>1, SMTT(30) DEF Typed, Descriptors, MainOpen, OpenAs
<1>4. WorkerOpen'
  BY Zenon DEF Descriptors, WorkerOpen
<1>5. ASSUME NEW n \in 0 .. MaxFd PROVE Owner(n)'
  <2>1. Owner(n) /\ n \in Nat
    BY FdAssumption, SMTT(30) DEF Descriptors
  <2>2. CASE n \in nums
    BY <2>2, Zenon DEF Owner, Standard
  <2>3. CASE n \notin nums
    <3>1. fds'[n] = fds[n]
      BY <2>3, Zenon
    <3>2. fds[n] # "urandom"
      BY <2>1, <2>3, SMTT(30) DEF Owner, Standard, UrandomOpen
    <3>3. fds[n] = "tun" => n = held'.tun
      BY <2>1, <2>3, SMTT(30) DEF Owner, Standard
    <3>4. fds[n] = "udp" => n = held'.udp
      BY <2>1, <2>3, SMTT(30) DEF Owner, Standard
    <3>5. fds[n] = "ring" => n = held'.ring /\ RingOpen'
      BY <1>1, <2>1, <2>3, SMTT(30) DEF Owner, Standard, RingOpen
    <3> QED BY <2>1, <3>1, <3>2, <3>3, <3>4, <3>5, Zenon DEF Owner, Standard
  <2> QED BY <2>2, <2>3, Zenon
<1> QED BY <1>2, <1>3, <1>4, <1>5, Zenon DEF Descriptors

(* Where the steps of the clean-up stand.                                  *)
LEMMA StopIndex ==
    ASSUME Numbers, Life!Stage("stop")
    PROVE  /\ at[2] \in 1 .. (IF Life!Server THEN 8 ELSE 4)
           /\ Life!Cleanup[at[2]] = "user" => Life!Server /\ at[2] = 1
           /\ Life!Cleanup[at[2]] = "udp" => at[2] = IF Life!Server THEN 2 ELSE 3
           /\ Life!Cleanup[at[2]] = "tun" => at[2] = IF Life!Server THEN 3 ELSE 2
           /\ Life!Cleanup[at[2]] = "io" => Life!Server /\ at[2] = 6
           /\ Life!Cleanup[at[2]] = "thread" => at[2] = IF Life!Server THEN 7 ELSE 1
           /\ Life!Cleanup[at[2]] \in {"sessions", "pool"} => Life!Server /\ at[2] \in {4, 5}
           /\ Life!Cleanup[at[2]] = "options" => at[2] = IF Life!Server THEN 8 ELSE 4
           /\ Len(Life!Cleanup) = IF Life!Server THEN 8 ELSE 4
  BY DEF Numbers, StopNumbers, Life!Cleanup, Life!vfast_clean_server, Life!vfast_cleanup

(* The steps of the clean-up that close something: each closes what main   *)
(* opened for it, except the two of Met.                                   *)
LEMMA LifeCloses ==
    ASSUME LifeInv, Life!Live,
           Life!vf_user_uninit \/ Life!udp_close \/ Life!vf_tun_destroy \/ Life!vf_io_exit
    PROVE  LifeInv'
<1>1. Typed /\ Numbers /\ Descriptors /\ Met
  BY Zenon DEF LifeInv
<1>2. Life!Stage("stop") /\ at[1] = "stop"
  BY Zenon DEF Life!vf_user_uninit, Life!udp_close, Life!vf_tun_destroy, Life!vf_io_exit,
     Life!Stopping, Life!Stage
<1>3. UNCHANGED <<program, asked, cancelled, handlers, thread, socks>>
  BY Zenon DEF Life!vf_user_uninit, Life!udp_close, Life!vf_tun_destroy, Life!vf_io_exit,
     Life!control, Life!second
<1>4. /\ held \in [urandom : Int, udp : Int, tun : Int, io_udp : Int, io_tun : Int, ring : Int]
      /\ held.urandom = Urandom /\ Tun \in 3 .. 4
      /\ \/ /\ Initialized /\ held.ring = Tun + 2
            /\ held.udp = IF at[2] > (IF Life!Server THEN 2 ELSE 3) THEN -1 ELSE Tun + 1
         \/ NotInitialized /\ held.udp = -1
      /\ \/ held.tun = IF at[2] > (IF Life!Server THEN 3 ELSE 2) THEN -1 ELSE Tun
         \/ held.tun = 0 /\ NotInitialized /\ ~Life!Server /\ at[2] = 2
      /\ asked \/ cancelled => Initialized
  BY <1>1, <1>2 DEF Typed, Numbers, StopNumbers, Initialized, Tun
<1>5. CASE Life!vf_user_uninit
  <2>1. /\ Life!Closes({held.urandom}, "vf_user_uninit", {"urandom"}) /\ held' = held
        /\ Life!Server /\ at[2] = 1 /\ at' = <<"stop", at[2] + 1>>
    BY <1>1, <1>2, <1>5, StopIndex, SMTT(30)
       DEF Life!vf_user_uninit, Life!Stopping, Life!NextStop
  <2>2. held.urandom = 3
    BY <1>4, <2>1, Zenon DEF Urandom
  <2>3. /\ fds' \in [0 .. MaxFd -> Kinds]
        /\ \A n \in 0 .. MaxFd : fds'[n] = IF n \in {held.urandom} THEN "free" ELSE fds[n]
        /\ \A h \in hits' : h \in hits \/ \E n \in {held.urandom} :
              n \in 0 .. MaxFd /\ fds[n] \notin {"urandom"} \cup {"free"}
              /\ h = <<"vf_user_uninit", fds[n]>>
    BY <1>1, <2>1, Closed, SMTT(30)
  <2>4. fds[3] = "urandom"
    BY <1>1, <2>1, <2>2, SMTT(30) DEF Descriptors, MainOpen, OpenAs, UrandomOpen
  <2>5. hits' \subseteq hits
    BY <2>2, <2>3, <2>4, Zenon
  <2>6. Descriptors'
    <3>1. held.tun > 0 => held.tun \notin {held.urandom}
      BY <1>4, <2>1, <2>2 DEF Tun
    <3>2. held.udp > 0 => held.udp \notin {held.urandom}
      BY <1>4, <2>2
    <3>3. \A n \in 0 .. 2 : n \notin {held.urandom}
      BY <2>2, SMTT(30)
    <3> QED BY <1>1, <1>2, <1>3, <2>1, <2>3, <3>1, <3>2, <3>3, MainCloses, SMTT(30)
  <2>7. Typed'
    BY <1>1, <1>3, <2>1, <2>3, Zenon DEF Typed
  <2>8. Numbers'
    BY <1>3, <1>4, <2>1, SMTT(30)
       DEF Numbers, StopNumbers, Initialized, NotInitialized, Tun, Urandom, Life!Stage, Life!Server
  <2>9. Met' /\ ~Life!Stage("exited")'
    BY <1>1, <1>2, <1>3, <2>1, <2>5, Zenon DEF Met, Life!Stage, Life!Server
  <2> QED BY <2>6, <2>7, <2>8, <2>9, Zenon DEF LifeInv
<1>6. CASE Life!udp_close
  <2>1. /\ Life!Closes({held.udp}, "udp_close", {"udp"}) /\ held' = [held EXCEPT !.udp = -1]
        /\ at[2] = IF Life!Server THEN 2 ELSE 3
        /\ at' = <<"stop", at[2] + 1>>
    BY <1>1, <1>2, <1>6, StopIndex, SMTT(30) DEF Life!udp_close, Life!Stopping, Life!NextStop
  <2>2. /\ held' \in [urandom : Int, udp : Int, tun : Int, io_udp : Int, io_tun : Int, ring : Int]
        /\ held'.udp = -1 /\ held'.urandom = held.urandom /\ held'.tun = held.tun
        /\ held'.io_udp = held.io_udp /\ held'.io_tun = held.io_tun /\ held'.ring = held.ring
    BY <1>4, <2>1
  <2>3. /\ fds' \in [0 .. MaxFd -> Kinds]
        /\ \A n \in 0 .. MaxFd : fds'[n] = IF n \in {held.udp} THEN "free" ELSE fds[n]
        /\ \A h \in hits' : h \in hits \/ \E n \in {held.udp} :
              n \in 0 .. MaxFd /\ fds[n] \notin {"udp"} \cup {"free"}
              /\ h = <<"udp_close", fds[n]>>
    BY <1>1, <2>1, Closed
  <2>4. held.udp = -1 \/ (held.udp = Tun + 1 /\ fds[held.udp] = "udp")
    BY <1>1, <1>4, <2>1, SMTT(30) DEF Descriptors, MainOpen, OpenAs
  <2>5. hits' \subseteq hits
    BY <2>3, <2>4
  <2>6. Descriptors'
    <3>0. at[2] \in Nat \ {0} /\ at[2] # 1 /\ ~(Life!Server /\ at[2] = 6)
      BY <2>1
    <3>1. held.tun > 0 => held.tun \notin {held.udp}
      BY <1>4, <2>4
    <3>2. (held.udp > 0 /\ held.udp \in {held.udp}) \/ held.udp <= 0
      BY <1>4
    <3>3. \A n \in 0 .. 2 : n \notin {held.udp}
      BY <1>4, <2>4
    <3> QED BY <1>1, <1>2, <1>3, <2>1, <2>2, <2>3, <3>0, <3>1, <3>2, <3>3, MainCloses, ZenonT(30)
  <2>7. Typed'
    BY <1>1, <1>3, <2>1, <2>2, <2>3, Zenon DEF Typed
  <2>8. Numbers'
    BY <1>3, <1>4, <2>1, <2>2
       DEF Numbers, StopNumbers, Initialized, NotInitialized, Tun, Urandom, Life!Stage, Life!Server
  <2>9. Met' /\ ~Life!Stage("exited")'
    BY <1>1, <1>2, <1>3, <2>1, <2>5, Zenon DEF Met, Life!Stage, Life!Server
  <2> QED BY <2>6, <2>7, <2>8, <2>9, Zenon DEF LifeInv
<1>7. CASE Life!vf_tun_destroy
  <2>1. /\ Life!Closes({held.tun}, "vf_tun_destroy", {"tun"}) /\ held' = [held EXCEPT !.tun = -1]
        /\ at[2] = IF Life!Server THEN 3 ELSE 2
        /\ at' = <<"stop", at[2] + 1>>
    <3>1. /\ Life!Closes({held.tun}, "vf_tun_destroy", {"tun"})
          /\ held' = [held EXCEPT !.tun = -1]
          /\ Life!Cleanup[at[2]] = "tun" /\ Life!NextStop
      BY <1>7, Zenon DEF Life!vf_tun_destroy, Life!Stopping
    <3>2. /\ at[2] = IF Life!Server THEN 3 ELSE 2
          /\ Len(Life!Cleanup) = IF Life!Server THEN 8 ELSE 4
      BY <1>1, <1>2, <3>1, StopIndex, Zenon
    <3> QED BY <3>1, <3>2 DEF Life!NextStop
  <2>2. /\ held' \in [urandom : Int, udp : Int, tun : Int, io_udp : Int, io_tun : Int, ring : Int]
        /\ held'.tun = -1 /\ held'.urandom = held.urandom /\ held'.udp = held.udp
        /\ held'.io_udp = held.io_udp /\ held'.io_tun = held.io_tun /\ held'.ring = held.ring
    BY <1>4, <2>1
  <2>3. /\ fds' \in [0 .. MaxFd -> Kinds]
        /\ \A n \in 0 .. MaxFd : fds'[n] = IF n \in {held.tun} THEN "free" ELSE fds[n]
        /\ \A h \in hits' : h \in hits \/ \E n \in {held.tun} :
              n \in 0 .. MaxFd /\ fds[n] \notin {"tun"} \cup {"free"}
              /\ h = <<"vf_tun_destroy", fds[n]>>
    BY <1>1, <2>1, Closed
  <2>4. \/ held.tun = -1
        \/ held.tun = Tun /\ fds[held.tun] = "tun"
        \/ held.tun = 0 /\ ~Life!Server /\ NotInitialized /\ fds[0] \in {"stdin", "free"}
    BY <1>1, <1>4, <2>1, FdAssumption, SMTT(30)
       DEF Descriptors, MainOpen, OpenAs, Owner, Standard
  <2>6. Descriptors'
    <3>0. at[2] \in Nat \ {0} /\ at[2] # 1 /\ ~(Life!Server /\ at[2] = 6)
      BY <2>1
    <3>1. held.udp > 0 => held.udp \notin {held.tun}
      BY <1>4, <2>4
    <3>2. (held.tun > 0 /\ held.tun \in {held.tun}) \/ held.tun <= 0
      BY <1>4
    <3>3. thread = "none" \/ \A n \in 0 .. 2 : n \notin {held.tun}
      BY <1>4, <2>4 DEF NotInitialized
    <3> QED BY <1>1, <1>2, <1>3, <2>1, <2>2, <2>3, <3>0, <3>1, <3>2, <3>3, MainCloses, ZenonT(30)
  <2>7. Typed'
    BY <1>1, <1>3, <2>1, <2>2, <2>3, Zenon DEF Typed
  <2>8. Numbers'
    BY <1>3, <1>4, <2>1, <2>2
       DEF Numbers, StopNumbers, Initialized, NotInitialized, Tun, Urandom, Life!Stage, Life!Server
  <2>9. Met' /\ ~Life!Stage("exited")'
    BY <1>1, <1>2, <1>3, <1>4, <2>1, <2>3, <2>4, SMTT(30)
       DEF Met, Life!Stage, Life!Server, Initialized, NotInitialized
  <2> QED BY <2>6, <2>7, <2>8, <2>9, Zenon DEF LifeInv
<1>8. CASE Life!vf_io_exit
  <2> DEFINE nums == {held.io_udp, held.io_tun, held.ring}
  <2>1. /\ Life!Closes(nums, "vf_io_exit", {"udp", "tun", "ring"}) /\ held' = held
        /\ Life!Server /\ at[2] = 6
        /\ at' = <<"stop", at[2] + 1>> \/ at' = <<"crashed", 0>>
    BY <1>1, <1>2, <1>8, StopIndex, SMTT(30) DEF Life!vf_io_exit, Life!Stopping, Life!NextStop
  <2>2. /\ held.tun <= 0 /\ held.udp = -1
        /\ thread = "none" \/ \A n \in 0 .. 2 : n \notin nums
    BY <1>1, <1>2, <1>4, <2>1 DEF Initialized, NotInitialized, Numbers, StopNumbers
  <2> HIDE DEF nums
  <2>3. /\ fds' \in [0 .. MaxFd -> Kinds]
        /\ \A n \in 0 .. MaxFd : fds'[n] = IF n \in nums THEN "free" ELSE fds[n]
        /\ \A h \in hits' : h \in hits \/ \E n \in nums :
              n \in 0 .. MaxFd /\ fds[n] \notin {"udp", "tun", "ring"} \cup {"free"}
              /\ h = <<"vf_io_exit", fds[n]>>
    BY <1>1, <2>1, Closed
  <2>5. Met' /\ ~Life!Stage("exited")'
    BY <1>1, <1>2, <1>3, <2>1, <2>3 DEF Met, Life!Stage, Life!Server
  <2>6. CASE at' = <<"stop", at[2] + 1>>
    <3>1. Descriptors'
      <4>1. /\ held.ring \in nums /\ held.tun <= 0 /\ held.udp <= 0
            /\ ~(held.tun > 0) /\ ~(held.udp > 0) /\ at[2] \in Nat \ {0} /\ at[2] # 1
        BY <1>4, <2>1, <2>2, SMTT(30) DEF nums
      <4> QED BY <1>1, <1>2, <1>3, <2>1, <2>2, <2>3, <2>6, <4>1, MainCloses, Zenon
    <3>2. Typed'
      BY <1>1, <1>3, <2>1, <2>3, <2>6, Zenon DEF Typed
    <3>3. Numbers'
      <4>1. /\ Life!Server' /\ at'[1] = "stop" /\ at'[2] = 7 /\ thread' = thread
            /\ Urandom' = Urandom /\ Tun' = Tun
        BY <1>3, <2>1, <2>6 DEF Life!Server, Urandom, Tun
      <4>2. /\ Initialized' = Initialized /\ NotInitialized' = NotInitialized
            /\ held'.urandom = Urandom' /\ held'.ring = held.ring
        BY <1>3, <1>4, <2>1, <4>1, Zenon DEF Initialized, NotInitialized
      <4>3. Tun \in 3 .. 4 /\ held'.udp = -1 /\ held'.tun = -1
        BY <1>1, <1>2, <1>4, <2>1 DEF Numbers, StopNumbers, Initialized, NotInitialized
      <4>4. (Initialized /\ held.ring # 0) \/ NotInitialized
        BY <1>4
      <4>5. asked' \/ cancelled' => Initialized'
        BY <1>1, <1>3, <4>2, Zenon DEF Numbers
      <4>6. StopNumbers'
        BY <4>1, <4>2, <4>3, <4>4, SMTT(30) DEF StopNumbers
      <4> QED BY <4>1, <4>5, <4>6, Zenon DEF Numbers, Life!Stage
    <3> QED BY <2>5, <3>1, <3>2, <3>3, Zenon DEF LifeInv
  <2>7. CASE at' = <<"crashed", 0>>
    BY <2>5, <2>7, Zenon DEF LifeInv, Life!Live, Life!Stage
  <2> QED BY <2>1, <2>6, <2>7, Zenon
<1> QED BY <1>5, <1>6, <1>7, <1>8, Zenon

(* A step that opens and closes nothing keeps what the numbers refer to.   *)
LEMMA DescriptorsKept ==
    ASSUME Descriptors, UNCHANGED <<program, fds, held, socks>>,
           \/ thread' = thread
           \/ thread = "none" /\ thread' = "started" /\ Life!Server
           \/ thread = "none" /\ thread' \in {"failed", "running"},
           Life!Stage("stop") => Life!Stage("stop")' /\ thread = thread' /\ at'[2] = at[2],
           Life!Stage("stop")' /\ ~Life!Stage("stop") =>
                at'[2] = 1 \/ (at'[2] \in Nat /\ held.urandom = 0 /\ ~Life!Server)
    PROVE  Descriptors'
<1> USE DEF Life!Stage, Life!Server
<1>1. StandardOpen' /\ WorkerOpen'
  BY Zenon DEF Descriptors, StandardOpen, WorkerOpen
<1>2. MainOpen'
  BY Zenon DEF Descriptors, MainOpen, OpenAs, UrandomOpen
<1>3. ASSUME NEW n \in 0 .. MaxFd PROVE Owner(n)'
  <2>1. Owner(n) /\ n \in Nat
    BY FdAssumption, SMTT(30) DEF Descriptors
  <2>2. fds[n] = "urandom" => UrandomOpen'
    BY <2>1, SMTT(30) DEF Owner, Standard, UrandomOpen
  <2>3. fds[n] = "ring" => RingOpen'
    BY <2>1 DEF Owner, RingOpen
  <2> QED BY <2>1, <2>2, <2>3, Zenon DEF Owner
<1> QED BY <1>1, <1>2, <1>3, Zenon DEF Descriptors

(* The steps of startup that open nothing, and a step that fails.          *)
LEMMA LifeStarts ==
    ASSUME LifeInv, Life!Live,
           \/ Life!Prepare \/ Life!vfast_setup_signals
           \/ Life!cmd_server_start \/ Life!vf_fsm_init \/ Life!StartFails
    PROVE  LifeInv'
<1>1. Typed /\ Numbers /\ Descriptors /\ Met
  BY Zenon DEF LifeInv
<1>2. Life!Stage("start") /\ at[1] = "start" /\ at[2] \in 1 .. TunStep + 3 /\ ~asked /\ ~cancelled
      /\ thread = "none"
  BY <1>1, Zenon
     DEF Numbers, StartNumbers, NotInitialized, Life!Stage, Life!Prepare, Life!vfast_setup_signals,
     Life!cmd_server_start, Life!vf_fsm_init, Life!StartFails, Life!Starting
<1>3. UNCHANGED <<program, asked, cancelled, fds, held, hits, socks>>
  BY Zenon
     DEF Life!Prepare, Life!vfast_setup_signals, Life!cmd_server_start, Life!vf_fsm_init,
     Life!StartFails, Life!control, Life!second, Life!resources
<1>4. held.urandom = (IF at[2] > 1 THEN Urandom ELSE 0)
      /\ held.tun = (IF at[2] > TunStep THEN Tun ELSE 0)
      /\ held.udp = (IF at[2] > TunStep + 1 THEN Tun + 1 ELSE -1)
      /\ (at[2] > SignalStep => handlers)
      /\ (IF at[2] > TunStep + 2
           THEN /\ held.io_udp = Tun + 1 /\ held.io_tun = Tun
                /\ held.ring \in {0, Tun + 2} /\ thread = "none"
           ELSE NotInitialized)
  BY <1>1, <1>2, Zenon DEF Numbers, StartNumbers
<1>5. Len(Life!Startup) = TunStep + 3
  BY SMTT(30) DEF Life!Startup, Life!vfast_init_server, Life!vfast_init_client, TunStep
<1>6. CASE Life!Prepare \/ Life!vfast_setup_signals
  <2>1. /\ Life!Startup[at[2]] \in {"key", "pool", "sessions", "signals"} /\ Life!Proceed
        /\ UNCHANGED thread
        /\ handlers => handlers'
        /\ Life!Startup[at[2]] = "signals" => handlers'
    BY <1>6, SMTT(30)
       DEF Life!Prepare, Life!vfast_setup_signals, Life!Starting, Life!second, Life!control
  <2>2. at[2] < TunStep /\ (at[2] = SignalStep => Life!Startup[at[2]] = "signals")
        /\ (Life!Server => at[2] > 1)
    BY <1>2, <2>1, SMTT(30)
       DEF Life!Startup, Life!vfast_init_server, Life!vfast_init_client, TunStep, SignalStep
  <2>3. at' = <<"start", at[2] + 1>>
    BY <1>2, <1>5, <2>1, <2>2, SMTT(30) DEF Life!Proceed, TunStep
  <2>4. Descriptors'
    BY <1>1, <1>2, <1>3, <2>1, <2>3, DescriptorsKept, Zenon DEF Life!Stage
  <2>5. Numbers'
    BY <1>2, <1>3, <1>4, <2>1, <2>2, <2>3, SMTT(30)
       DEF Numbers, StartNumbers, NotInitialized, Life!Stage, Life!Server, Tun, TunStep, SignalStep, Urandom
  <2> QED BY <1>1, <1>2, <1>3, <2>3, <2>4, <2>5, Zenon
          DEF LifeInv, Met, Typed, Life!Stage, Life!Server
<1>7. CASE Life!cmd_server_start \/ Life!vf_fsm_init
  <2>1. /\ Life!Startup[at[2]] = "thread" /\ Life!Proceed /\ UNCHANGED handlers
        /\ \/ thread' = "started" /\ Life!Server
           \/ thread' \in {"failed", "running"}
    BY <1>7, Zenon DEF Life!cmd_server_start, Life!vf_fsm_init, Life!Starting, Life!control
  <2>2. at[2] = TunStep + 3
    BY <1>2, <2>1 DEF Life!Startup, Life!vfast_init_server, Life!vfast_init_client, TunStep
  <2>3. at' = <<"ready", 0>>
    BY <1>5, <2>1, <2>2, Zenon DEF Life!Proceed
  <2>4. Descriptors'
    BY <1>1, <1>2, <1>3, <2>1, <2>3, DescriptorsKept, Zenon DEF Life!Stage
  <2>5. Numbers'
    BY <1>2, <1>3, <1>4, <2>1, <2>2, <2>3, SMTT(30)
       DEF Numbers, Initialized, Life!Stage, Life!Server, Tun, TunStep, SignalStep, Urandom
  <2> QED BY <1>1, <1>2, <1>3, <2>3, <2>4, <2>5, Zenon
          DEF LifeInv, Met, Typed, Life!Stage, Life!Server
<1>8. CASE Life!StartFails
  <2>1. /\ Life!Startup[at[2]] \notin {"io", "thread"} /\ UNCHANGED <<thread, handlers>>
        /\ Life!Server \/ Life!Startup[at[2]] # "signals"
        /\ at' = IF ~Life!Server THEN <<"stop", 2>>
                 ELSE IF Life!Startup[at[2]] = "udp" THEN <<"stop", 1>> ELSE <<"exited", 0>>
    BY <1>8, ZenonT(30) DEF Life!StartFails, Life!second, Life!control
  <2>2. at[2] <= TunStep + 1 /\ (Life!Startup[at[2]] = "udp" => at[2] = TunStep + 1)
    BY <1>2, <2>1, SMTT(30)
       DEF Life!Startup, Life!vfast_init_server, Life!vfast_init_client, TunStep
  <2>3. CASE at' = <<"exited", 0>>
    BY <1>1, <1>2, <1>3, <2>3, Zenon
       DEF LifeInv, Met, Left, Life!Stage, Life!Live, Life!Server
  <2>4. CASE at' # <<"exited", 0>>
    <3>1. /\ at'[1] = "stop" /\ at'[2] = (IF Life!Server THEN 1 ELSE 2)
          /\ Life!Server => at[2] = TunStep + 1
      BY <2>1, <2>2, <2>4, Zenon
    <3>2. Descriptors'
      BY <1>1, <1>2, <1>3, <1>4, <2>1, <3>1, DescriptorsKept, Zenon DEF Life!Stage, Urandom
    <3>3. StopNumbers'
      BY <1>2, <1>3, <1>4, <2>1, <2>2, <3>1, SMTT(30)
         DEF StopNumbers, NotInitialized, Life!Server, Tun, TunStep, Urandom
    <3>4. Numbers'
      BY <1>2, <1>3, <3>1, <3>3, Zenon DEF Numbers, Life!Stage
    <3> QED BY <1>1, <1>2, <1>3, <3>1, <3>2, <3>4, Zenon
            DEF LifeInv, Met, Typed, Life!Stage, Life!Server
  <2> QED BY <2>3, <2>4, Zenon
<1> QED BY <1>6, <1>7, <1>8, Zenon

(* Signals, the event loop, and its end.                                   *)
LEMMA LifeRuns ==
    ASSUME LifeInv, Life!Live,
           Life!Signal \/ Life!EnterLoop \/ Life!LeaveLoop \/ Life!WaitFails
    PROVE  LifeInv'
<1>1. Typed /\ Numbers /\ Descriptors /\ Met
  BY Zenon DEF LifeInv
<1>2. UNCHANGED <<program, handlers, cancelled, fds, held, hits, socks, thread>>
  BY Zenon DEF Life!Signal, Life!signal_handler, Life!client_signal_handler, Life!Killed,
     Life!EnterLoop, Life!LeaveLoop, Life!WaitFails, Life!second, Life!control, Life!resources
<1> USE DEF Life!Stage, Life!Server
<1>3. CASE at' = at
  <2>1. (asked' <=> asked) \/ (at[1] = "loop" /\ asked')
    BY <1>3, Zenon DEF Life!Signal, Life!signal_handler, Life!client_signal_handler, Life!Killed,
       Life!EnterLoop, Life!LeaveLoop, Life!WaitFails, Life!Noted, Life!control, Life!Live
  <2>2. Descriptors'
    BY <1>1, <1>2, <1>3, DescriptorsKept, Zenon
  <2>3. Numbers'
    BY <1>1, <1>2, <1>3, <2>1, ZenonT(30)
       DEF Numbers, StartNumbers, StopNumbers, Initialized, NotInitialized, Tun, TunStep, SignalStep, Urandom
  <2> QED BY <1>1, <1>2, <1>3, <2>1, <2>2, <2>3, Zenon DEF LifeInv, Met, Typed, Life!Live
<1>4. CASE at' = <<"crashed", 0>>
  <2>1. asked' => asked \/ at[1] = "loop"
    BY Zenon DEF Life!Signal, Life!signal_handler, Life!client_signal_handler, Life!Killed,
       Life!EnterLoop, Life!LeaveLoop, Life!WaitFails, Life!Noted, Life!control
  <2> QED BY <1>1, <1>2, <1>4, <2>1, Zenon DEF LifeInv, Met, Typed, Life!Live
<1>5. CASE Life!Killed
  <2>1. ~asked /\ ~cancelled
    BY <1>1, <1>5, Zenon DEF Numbers, Initialized, Life!Killed
  <2>2. at' = <<"exited", 0>> /\ UNCHANGED asked
    BY <1>5, Zenon DEF Life!Killed, Life!control
  <2> QED BY <1>1, <1>2, <2>1, <2>2, Zenon DEF LifeInv, Met, Left, Typed, Life!Live
<1>6. CASE Life!EnterLoop /\ at' = <<"loop", 0>>
  <2>1. at[1] = "ready" /\ UNCHANGED asked /\ held.ring # 0
    BY <1>6, SMTT(30) DEF Life!EnterLoop
  <2>2. Descriptors'
    BY <1>1, <1>2, <1>6, <2>1, DescriptorsKept, Zenon
  <2>3. Numbers'
    BY <1>1, <1>2, <1>6, <2>1, ZenonT(30)
       DEF Numbers, Initialized, NotInitialized, Tun, TunStep, SignalStep, Urandom
  <2> QED BY <1>1, <1>2, <1>6, <2>1, <2>2, <2>3, Zenon DEF LifeInv, Met, Typed, Life!Live
<1>7. CASE Life!LeaveLoop \/ Life!WaitFails
  <2>1. at[1] = "loop" /\ UNCHANGED asked /\ at' = <<"stop", 1>>
    BY <1>7, Zenon DEF Life!LeaveLoop, Life!WaitFails, Life!control
  <2>2. Descriptors'
    BY <1>1, <1>2, <2>1, DescriptorsKept, Zenon
  <2>3. Initialized /\ held.tun = Tun /\ held.udp = Tun + 1 /\ held.ring # 0
    BY <1>1, <2>1, Zenon DEF Numbers
  <2>4. at'[1] = "stop" /\ at'[2] = 1 /\ Tun' = Tun /\ Urandom' = Urandom
    BY <1>2, <2>1, Zenon DEF Tun, Urandom
  <2>5. Initialized' /\ held'.urandom = Urandom'
    BY <1>2, <2>3, <2>4, Zenon DEF Initialized
  <2>6. held'.tun = Tun' /\ held'.udp = Tun' + 1 /\ held'.ring # 0
    BY <1>2, <2>3, <2>4, Zenon
  <2>7. StopNumbers'
    BY <2>4, <2>5, <2>6, SMTT(30) DEF StopNumbers
  <2>8. Numbers'
    BY <2>4, <2>5, <2>7, Zenon DEF Numbers
  <2> QED BY <1>1, <1>2, <2>1, <2>2, <2>8, Zenon DEF LifeInv, Met, Typed, Life!Live
<1> QED BY <1>3, <1>4, <1>5, <1>6, <1>7, ZenonT(30)
        DEF Life!Signal, Life!signal_handler, Life!client_signal_handler, Life!EnterLoop

(* The steps of the clean-up that close nothing; after the last one all    *)
(* that main opened is closed, but the ring of the client.                 *)
LEMMA LifeReleases ==
    ASSUME LifeInv, Life!Live,
           Life!Release \/ Life!cmd_server_stop \/ Life!vf_fsm_pthread_join
    PROVE  LifeInv'
<1>1. Typed /\ Numbers /\ Descriptors /\ Met
  BY Zenon DEF LifeInv
<1>2. UNCHANGED <<program, handlers, asked, fds, held, hits, socks, thread>>
  BY Zenon DEF Life!Release, Life!cmd_server_stop, Life!vf_fsm_pthread_join, Life!second,
     Life!control, Life!resources
<1>3. /\ Life!Stage("stop") /\ at[1] = "stop"
      /\ Life!Cleanup[at[2]] \in {"sessions", "pool", "options", "thread"}
  BY Zenon
     DEF Life!Release, Life!cmd_server_stop, Life!vf_fsm_pthread_join, Life!Stopping, Life!Stage
<1>4. /\ at[2] \in 1 .. (IF Life!Server THEN 8 ELSE 4)
      /\ Life!Server => at[2] \in {4, 5, 7, 8}
      /\ ~Life!Server => at[2] \in {1, 4}
      /\ Life!Cleanup[at[2]] = "thread" => at[2] = IF Life!Server THEN 7 ELSE 1
      /\ Len(Life!Cleanup) = IF Life!Server THEN 8 ELSE 4
  BY <1>1, <1>3, StopIndex, Zenon
<1>5. CASE at' = at
  <2>1. Life!cmd_server_stop /\ cancelled' /\ thread \notin {"none", "failed"}
    BY <1>3, <1>4, <1>5, SMTT(30)
       DEF Life!Release, Life!cmd_server_stop, Life!vf_fsm_pthread_join, Life!NextStop
  <2>2. Descriptors'
    BY <1>1, <1>2, <1>5, DescriptorsKept, Zenon DEF Life!Stage
  <2>3. Numbers'
    BY <1>1, <1>2, <1>3, <1>5, <2>1, ZenonT(30)
       DEF Numbers, StopNumbers, Initialized, NotInitialized, Tun, TunStep, SignalStep, Urandom, Life!Stage,
           Life!Server
  <2> QED BY <1>1, <1>2, <1>3, <1>5, <2>2, <2>3, Zenon
             DEF LifeInv, Met, Typed, Life!Stage, Life!Server
<1>6. CASE at' = <<"crashed", 0>>
  BY <1>1, <1>2, <1>3, <1>6, Zenon DEF LifeInv, Met, Life!Live, Life!Stage, Life!Server
<1>7. CASE Life!NextStop /\ UNCHANGED cancelled
  <2>1. CASE at' = <<"stop", at[2] + 1>>
    <3>1. Life!Server /\ at[2] = 7 => thread \in {"none", "failed", "gone"}
      BY <1>1, <1>3, <1>4, <1>7, <2>1, SMTT(30)
         DEF Life!Release, Life!cmd_server_stop, Life!vf_fsm_pthread_join, Life!Stopping,
             Life!Cleanup, Life!vfast_clean_server
    <3>2. Numbers'
      <4>1. /\ held.urandom = Urandom
            /\ \/ /\ Initialized /\ held.ring # 0
                  /\ held.udp = IF at[2] > (IF Life!Server THEN 2 ELSE 3) THEN -1 ELSE Tun + 1
               \/ NotInitialized /\ held.udp = -1
            /\ held.tun = IF at[2] > (IF Life!Server THEN 3 ELSE 2) THEN -1 ELSE Tun
            /\ asked \/ cancelled => Initialized
        <5>1. StopNumbers /\ (asked \/ cancelled => Initialized)
          BY <1>1, <1>3, Zenon DEF Numbers
        <5> QED BY <1>4, <5>1 DEF StopNumbers
      <4>2. at'[1] = "stop" /\ at'[2] = at[2] + 1 /\ at'[2] \in 1 .. (IF Life!Server THEN 8 ELSE 4)
        BY <1>4, <1>7, <2>1, SMTT(30) DEF Life!NextStop
      <4>3. /\ held.udp = IF at'[2] > (IF Life!Server THEN 2 ELSE 3) THEN -1 ELSE held.udp
            /\ held.tun = IF at'[2] > (IF Life!Server THEN 3 ELSE 2) THEN -1 ELSE Tun
        BY <1>4, <4>1, <4>2, SMTT(30)
      <4>4. Life!Server /\ at'[2] > 7 => thread \in {"none", "failed", "gone"}
        BY <1>4, <3>1, <4>2, SMTT(30)
      <4>5. UNCHANGED <<Tun, Urandom>> /\ (Life!Server' <=> Life!Server)
            /\ (Initialized' <=> Initialized) /\ (NotInitialized' <=> NotInitialized)
        BY <1>2, Zenon DEF Tun, Urandom, Life!Server, Initialized, NotInitialized
      <4>6. StopNumbers'
        <5>1. /\ held' = held /\ thread' = thread /\ Tun' = Tun /\ Urandom' = Urandom
              /\ (IF Life!Server' THEN 8 ELSE 4) = IF Life!Server THEN 8 ELSE 4
              /\ (IF Life!Server' THEN 3 ELSE 2) = IF Life!Server THEN 3 ELSE 2
              /\ (IF Life!Server' THEN 2 ELSE 3) = IF Life!Server THEN 2 ELSE 3
          BY <1>2, <4>5, Zenon
        <5>2. \/ /\ Initialized' /\ held'.ring # 0
                 /\ held'.udp = IF at'[2] > (IF Life!Server THEN 2 ELSE 3) THEN -1
                                ELSE Tun' + 1
              \/ NotInitialized' /\ held'.udp = -1
          BY <1>4, <4>1, <4>2, <4>5, <5>1
        <5> QED BY <4>1, <4>2, <4>3, <4>4, <4>5, <5>1, <5>2, Zenon DEF StopNumbers
      <4> QED BY <1>2, <1>7, <4>1, <4>2, <4>5, <4>6, Zenon DEF Numbers, Life!Stage
    <3>3. Descriptors'
      <4> DEFINE nums == {}
      <4>0. \A n : n \notin nums
        OBVIOUS
      <4> HIDE DEF nums
      <4>1. \A n \in 0 .. MaxFd : fds'[n] = IF n \in nums THEN "free" ELSE fds[n]
        BY <1>2, <4>0, Zenon
      <4>2. /\ at[2] \in Nat \ {0} /\ (at[2] = 1 => held.urandom = 0)
            /\ ~(Life!Server /\ at[2] = 6)
        BY <1>1, <1>3, <1>4, SMTT(30) DEF Numbers, StopNumbers, Urandom
      <4>3. held'.urandom = held.urandom /\ held'.ring = held.ring
            /\ held'.tun = held.tun /\ held'.udp = held.udp
        BY <1>2, Zenon
      <4> QED BY <1>1, <1>2, <1>3, <2>1, <4>0, <4>1, <4>2, <4>3, MainCloses, Zenon
    <3> QED BY <1>1, <1>2, <1>3, <2>1, <3>2, <3>3, Zenon
               DEF LifeInv, Met, Typed, Life!Stage, Life!Server
  <2>2. CASE at' = <<"exited", 0>>
    <3>1. at[2] = IF Life!Server THEN 8 ELSE 4
      BY <1>4, <1>7, <2>2, SMTT(30) DEF Life!NextStop
    <3>2. ASSUME asked \/ cancelled, NEW n \in 0 .. MaxFd PROVE fds[n] \in Life!Leftovers
      <4>1. /\ held.tun = -1 /\ held.udp = -1 /\ ~UrandomOpen
            /\ Life!Server => ~RingOpen /\ thread # "serving"
        BY <1>1, <1>3, <3>1, <3>2, SMTT(30)
           DEF Numbers, StartNumbers, StopNumbers, Initialized, NotInitialized, UrandomOpen, RingOpen
      <4>2. /\ Owner(n) /\ fds[n] \in Kinds /\ n \in Nat
            /\ thread = "serving" => Life!Server
        BY <1>1, FdAssumption, SMTT(30) DEF Descriptors, WorkerOpen, Typed
      <4> QED BY <4>1, <4>2, SMTT(30) DEF Owner, Kinds, Life!Leftovers
    <3>3. Left'
      BY <1>1, <1>2, <1>7, <3>2, SMTT(30) DEF Left, Typed, Life!Leftovers, Life!Server
    <3> QED BY <1>1, <1>2, <1>3, <2>2, <3>3, Zenon
               DEF LifeInv, Met, Life!Live, Life!Stage, Life!Server
  <2> QED BY <1>7, <2>1, <2>2, Zenon DEF Life!NextStop
<1> QED BY <1>5, <1>6, <1>7, Zenon DEF Life!Release, Life!cmd_server_stop, Life!vf_fsm_pthread_join,
        Life!second

(* The second thread runs only while main is initialized.                  *)
LEMMA WorkerNumbers ==
    ASSUME Typed, Numbers, thread \in {"started", "listening", "serving", "running"},
           \/ thread' \in {"listening", "serving"} /\ thread # "running"
           \/ thread' = "gone",
           UNCHANGED <<program, at, held, handlers, asked, cancelled>>
    PROVE  Numbers' /\ ~Life!Stage("start") /\ held.urandom = Urandom /\ Initialized
           /\ held.tun \in {-1, Tun} /\ held.udp \in {-1, Tun + 1}
<1>1. ~Life!Stage("start")
  BY Zenon DEF Numbers, StartNumbers, StopNumbers, NotInitialized
<1>2. Initialized /\ held.tun \in {-1, Tun} /\ held.udp \in {-1, Tun + 1}
  BY <1>1, Zenon DEF Typed, Numbers, StartNumbers, StopNumbers, NotInitialized, Initialized, Life!Stage
<1>3. /\ UNCHANGED <<Tun, Urandom>> /\ (Life!Server' <=> Life!Server)
      /\ Initialized' /\ \A s : Life!Stage(s)' <=> Life!Stage(s)
  BY <1>2, Zenon DEF Tun, Urandom, Life!Server, Life!Stage, Initialized
<1>4. Numbers'
  BY <1>1, <1>2, <1>3, ZenonT(30) DEF Numbers, StartNumbers, StopNumbers, NotInitialized, Life!Stage
<1> QED BY <1>1, <1>2, <1>4, Zenon DEF Initialized

(* The worker opens its socket and its connections where nothing is open.  *)
LEMMA WorkerOpens ==
    ASSUME LifeInv, Life!Live, Life!cmd_transport_listen \/ Life!Accept, thread' # "gone"
    PROVE  LifeInv'
<1>1. Typed /\ Numbers /\ Descriptors /\ Met
  BY Zenon DEF LifeInv
<1>2. UNCHANGED <<program, at, held, handlers, asked, cancelled, hits>>
  BY Zenon DEF Life!cmd_transport_listen, Life!Accept, Life!Opens, Life!Ends, Life!control
<1>3. /\ \/ thread = "started" /\ thread' = "listening"
         \/ thread = "listening" /\ thread' = "serving"
      /\ fds' = [fds EXCEPT ![Life!Lowest] = IF thread = "started" THEN "listener" ELSE "connection"]
      /\ socks' = IF thread = "started" THEN [socks EXCEPT !.lfd = Life!Lowest]
                                        ELSE [socks EXCEPT !.cfd = Life!Lowest]
      /\ thread = "listening" => fds[socks.lfd] = "listener"
  <2>1. CASE Life!cmd_transport_listen
    BY <2>1, Zenon DEF Life!cmd_transport_listen, Life!Opens, Life!Ends
  <2>2. CASE Life!Accept
    BY <2>2, Zenon DEF Life!Accept, Life!Opens
  <2> QED BY <2>1, <2>2, Zenon
<1>4. /\ Numbers' /\ held.urandom = Urandom /\ Initialized
      /\ held.tun \in {-1, Tun} /\ held.udp \in {-1, Tun + 1}
  BY <1>1, <1>2, <1>3, WorkerNumbers, Zenon
<1>5. Life!Server /\ Tun = 4 /\ Urandom = 3 /\ held.ring \in {0, 6} /\ thread # "none"
  BY <1>1, <1>3, <1>4, SMTT(30) DEF Descriptors, WorkerOpen, Initialized, Tun, Urandom
<1>6. Life!Lowest \in 3 .. 8 /\ fds[Life!Lowest] = "free"
  <2>1. ASSUME NEW n \in {7, 8} PROVE fds[n] \in {"free", "listener"}
    <3>1. Owner(n) /\ fds[n] \in Kinds
      BY <1>1, FdAssumption, SMTT(30) DEF Descriptors, Typed
    <3> QED BY <1>3, <1>4, <1>5, <3>1, SMTT(30) DEF Owner, Kinds
  <2>2. fds[7] = "free" \/ fds[8] = "free"
    <3>1. fds[7] = "listener" => socks.lfd = 7
      BY <1>1, FdAssumption, SMTT(30) DEF Descriptors, Owner
    <3>2. fds[8] = "listener" => socks.lfd = 8
      BY <1>1, FdAssumption DEF Descriptors, Owner
    <3> QED BY <2>1, <3>1, <3>2, SMTT(30)
  <2>3. \A n \in 0 .. 2 : fds[n] # "free"
    BY <1>1, <1>5 DEF Descriptors, StandardOpen, Standard
  <2> QED BY <1>1, <2>2, <2>3, LowestFree, Zenon
<1> DEFINE m == Life!Lowest
           k == IF thread = "started" THEN "listener" ELSE "connection"
<1>7. m \in 0 .. MaxFd /\ k \in Kinds /\ m > 2
  BY <1>6, FdAssumption DEF Kinds
<1>8. /\ fds' \in [0 .. MaxFd -> Kinds] /\ fds'[m] = k
      /\ \A n \in 0 .. MaxFd : n # m => fds'[n] = fds[n]
  BY <1>1, <1>3, <1>7, Assigned, ZenonT(30)
<1>9. /\ socks' \in [lfd : Int, cfd : Int]
      /\ socks'.lfd = IF thread = "started" THEN m ELSE socks.lfd
      /\ socks'.cfd = IF thread = "started" THEN socks.cfd ELSE m
  BY <1>1, <1>3, <1>7 DEF Typed
<1> HIDE DEF m, k
<1>10. Typed'
  BY <1>1, <1>2, <1>8, <1>9, Zenon DEF Typed
<1>11. StandardOpen' /\ MainOpen'
  <2>1. StandardOpen'
    BY <1>1, <1>2, <1>5, <1>7, <1>8, FdAssumption DEF Descriptors, StandardOpen
  <2>2. MainOpen /\ fds[m] = "free"
    BY <1>1, <1>6, Zenon DEF Descriptors, m
  <2>3. MainOpen'
    BY <1>2, <1>7, <1>8, <2>2, Zenon DEF MainOpen, OpenAs, UrandomOpen, Life!Stage
  <2> QED BY <2>1, <2>3, Zenon
<1>12. WorkerOpen'
  <2>1. WorkerOpen /\ fds[m] = "free"
    BY <1>1, <1>6, Zenon DEF Descriptors, m
  <2> QED BY <1>2, <1>3, <1>5, <1>7, <1>8, <1>9, <2>1, Zenon DEF WorkerOpen, Life!Server, k
<1>13. ASSUME NEW n \in 0 .. MaxFd PROVE Owner(n)'
  <2>1. Owner(n)
    BY <1>1, Zenon DEF Descriptors
  <2>2. UNCHANGED <<UrandomOpen, RingOpen>>
    BY <1>2, Zenon DEF UrandomOpen, RingOpen, Life!Stage, Life!Server
  <2>3. CASE n = m
    BY <1>2, <1>3, <1>5, <1>7, <1>8, <1>9, <2>3, SMTT(30) DEF Owner, Life!Server, k
  <2>4. CASE n # m
    BY <1>2, <1>3, <1>5, <1>7, <1>8, <1>9, <2>1, <2>2, <2>4, Zenon DEF Owner, Life!Server
  <2> QED BY <2>3, <2>4, Zenon
<1>14. Descriptors'
  BY <1>11, <1>12, <1>13, Zenon DEF Descriptors
<1>15. Met' /\ ~Life!Stage("exited")'
  BY <1>1, <1>2, Zenon DEF Met, Life!Live, Life!Stage, Life!Server
<1> QED BY <1>4, <1>10, <1>14, <1>15, Zenon DEF LifeInv

(* The worker closes only what is its own or no longer open.               *)
LEMMA WorkerCloses ==
    ASSUME LifeInv, Life!Live,
           \/ Life!cmd_transport_listen /\ thread' = "gone"
           \/ Life!Served \/ Life!WorkerEnds \/ Life!FsmEnds
    PROVE  LifeInv'
<1>1. Typed /\ Numbers /\ Descriptors /\ Met
  BY Zenon DEF LifeInv
<1>2. UNCHANGED <<program, at, held, handlers, asked, cancelled>>
  BY Zenon DEF Life!cmd_transport_listen, Life!Served, Life!WorkerEnds, Life!FsmEnds, Life!Ends,
     Life!control
<1>3. PICK nums, what :
     /\ Life!Closes(nums, "cmd_server_worker", what)
     /\ \/ /\ nums = {} /\ thread \in {"started", "listening", "running"}
           /\ thread' = "gone" /\ socks' = socks
        \/ /\ nums = {socks.lfd} /\ what = {"listener"} /\ thread = "listening"
           /\ thread' = "gone" /\ socks' = socks
        \/ /\ nums = {socks.cfd} /\ what = {"connection"} /\ thread = "serving"
           /\ thread' = "listening" /\ socks' = [socks EXCEPT !.cfd = -1]
  BY Zenon DEF Life!cmd_transport_listen, Life!Served, Life!WorkerEnds, Life!FsmEnds, Life!Ends
<1>4. /\ Numbers' /\ held.urandom = Urandom /\ Initialized
      /\ held.tun \in {-1, Tun} /\ held.udp \in {-1, Tun + 1}
  BY <1>1, <1>2, <1>3, WorkerNumbers, Zenon
<1>5. /\ fds' \in [0 .. MaxFd -> Kinds]
      /\ \A n \in 0 .. MaxFd : fds'[n] = IF n \in nums THEN "free" ELSE fds[n]
      /\ \A h \in hits' : h \in hits \/ \E n \in nums :
            n \in 0 .. MaxFd /\ fds[n] \notin what \cup {"free"} /\ h = <<"cmd_server_worker", fds[n]>>
  BY <1>1, <1>3, Closed
<1>6. \A n \in nums : /\ n \in 0 .. MaxFd /\ fds[n] \in what \cup {"free"}
                      /\ fds[n] \in {"listener", "connection", "free"}
  BY <1>1, <1>3, Zenon DEF Descriptors, WorkerOpen
<1>7. hits' \subseteq hits
  BY <1>5, <1>6, Zenon
<1>8. socks' \in [lfd : Int, cfd : Int] /\ socks'.lfd = socks.lfd
  BY <1>1, <1>3, SMTT(30) DEF Typed
<1>9. Typed'
  BY <1>1, <1>2, <1>5, <1>8, Zenon DEF Typed
<1>10. StandardOpen'
  <2>1. thread # "none" /\ thread' # "none"
    BY <1>3, Zenon
  <2>2. ASSUME NEW n \in 0 .. 2 PROVE n \notin nums /\ fds[n] = Standard[n + 1] /\ n \in 0 .. MaxFd
    BY <1>1, <1>6, <2>1, FdAssumption, SMTT(30) DEF Descriptors, StandardOpen, Standard
  <2> QED BY <1>5, <2>2, Zenon DEF StandardOpen
<1>11. MainOpen'
  <2>1. MainOpen
    BY <1>1, Zenon DEF Descriptors
  <2> QED BY <1>2, <1>5, <1>6, <2>1, Zenon DEF MainOpen, OpenAs, UrandomOpen, Life!Stage
<1>12. WorkerOpen'
  <2>1. WorkerOpen
    BY <1>1, Zenon DEF Descriptors
  <2> QED BY <1>2, <1>3, <1>5, <1>8, <2>1, Zenon DEF WorkerOpen, Life!Server
<1>13. ASSUME NEW n \in 0 .. MaxFd PROVE Owner(n)'
  <2>1. Owner(n)
    BY <1>1, Zenon DEF Descriptors
  <2>2. UNCHANGED <<UrandomOpen, RingOpen>>
    BY <1>2, Zenon DEF UrandomOpen, RingOpen, Life!Stage, Life!Server
  <2>3. CASE n \in nums
    BY <1>5, <2>3, Zenon DEF Owner
  <2>4. CASE n \notin nums
    <3>1. fds'[n] = fds[n]
      BY <1>5, <2>4, Zenon
    <3>2. fds[n] # "connection"
      BY <1>3, <2>1, <2>4, Zenon DEF Owner
    <3>3. fds[n] = "listener" => thread' \in {"listening", "serving", "gone"}
      BY <1>3, Zenon
    <3> QED BY <1>2, <1>8, <2>1, <2>2, <3>1, <3>2, <3>3, Zenon DEF Owner, Life!Server
  <2> QED BY <2>3, <2>4, Zenon
<1>14. Met' /\ ~Life!Stage("exited")'
  BY <1>1, <1>2, <1>7, Zenon DEF Met, Life!Live, Life!Stage, Life!Server
<1> QED BY <1>4, <1>9, <1>10, <1>11, <1>12, <1>13, <1>14, Zenon DEF LifeInv, Descriptors

LEMMA LifeStep == LifeInv /\ Life!Next => LifeInv'
<1> SUFFICES ASSUME LifeInv, Life!Next PROVE LifeInv'
    BY Zenon
<1>1. Life!Live
  BY Zenon DEF Life!Next, Life!Main, Life!Start, Life!vf_user_init, Life!Prepare,
     Life!vfast_setup_signals, Life!vf_tun_init, Life!udp_init_listener, Life!vf_io_init,
     Life!cmd_server_start, Life!vf_fsm_init, Life!StartFails, Life!Starting, Life!EnterLoop,
     Life!LeaveLoop, Life!WaitFails, Life!Stop, Life!vf_user_uninit, Life!udp_close,
     Life!vf_tun_destroy, Life!vf_io_exit, Life!Release, Life!cmd_server_stop,
     Life!vf_fsm_pthread_join, Life!Stopping, Life!Signal, Life!signal_handler,
     Life!client_signal_handler, Life!Killed, Life!Worker, Life!Accept, Life!Live, Life!Stage
<1>2. CASE Life!Start
  BY <1>1, <1>2, LifeOpens, LifeStarts, Zenon DEF Life!Start
<1>3. CASE Life!Signal \/ Life!EnterLoop \/ Life!LeaveLoop \/ Life!WaitFails
  BY <1>1, <1>3, LifeRuns, Zenon
<1>4. CASE Life!Stop
  BY <1>1, <1>4, LifeCloses, LifeReleases, Zenon DEF Life!Stop
<1>5. CASE Life!Worker \/ Life!Accept
  <2>1. CASE thread' = "gone"
    BY <1>1, <1>5, <2>1, WorkerCloses, Zenon DEF Life!Worker, Life!Accept
  <2>2. CASE thread' # "gone"
    BY <1>1, <1>5, <2>2, WorkerOpens, WorkerCloses, Zenon DEF Life!Worker
  <2> QED BY <2>1, <2>2, Zenon
<1> QED BY <1>2, <1>3, <1>4, <1>5, Zenon DEF Life!Next, Life!Main

(***************************************************************************)
(* A program that was told to stop, or whose worker was, leaves open only  *)
(* the listener of a cancelled worker or the ring of the client, and only  *)
(* vf_io_exit, and vf_tun_destroy of a client that never had a TUN device, *)
(* close what another part has opened: whatever fails at startup, whenever *)
(* the signal comes and whatever the worker is doing.                      *)
(***************************************************************************)
THEOREM DescriptorsOwnedAlways == ProcessSpec => []DescriptorsOwned
<1>1. LifeInv => DescriptorsOwned
  BY Zenon DEF LifeInv, Met, Left, DescriptorsOwned, Life!DescriptorsOwned
<1>2. ProcessInit => LifeInv
  <2>1. CASE LifeRests
    BY <2>1, Zenon DEF LifeRests, LifeInv, Met, Left, Life!Live, Life!Stage
  <2>2. ASSUME Life!Init PROVE LifeInv
    <3>1. /\ at[1] = "start" /\ at[2] = 1 /\ hits = {} /\ thread = "none"
          /\ ~asked /\ ~cancelled
          /\ fds = [n \in 0 .. MaxFd |->
                        IF n <= 2 THEN <<"stdin", "stdout", "stderr">>[n + 1] ELSE "free"]
          /\ held = [urandom |-> 0, udp |-> -1, tun |-> 0,
                     io_udp |-> 0, io_tun |-> 0, ring |-> 0]
          /\ socks = [lfd |-> -1, cfd |-> -1]
      BY <2>2, Zenon DEF Life!Init
    <3>2. fds \in [0 .. MaxFd -> Kinds]
      BY <3>1, FdAssumption, SMTT(30) DEF Kinds
    <3>3. Typed
      <4>1. held \in [urandom : Int, udp : Int, tun : Int, io_udp : Int, io_tun : Int,
                      ring : Int]
        <5>1. held = [urandom |-> 0, udp |-> -1, tun |-> 0,
                      io_udp |-> 0, io_tun |-> 0, ring |-> 0]
          BY <3>1, Zenon
        <5> QED BY <5>1
      <4>2. socks \in [lfd : Int, cfd : Int]
        <5>1. socks = [lfd |-> -1, cfd |-> -1]
          BY <3>1, Zenon
        <5> QED BY <5>1
      <4> QED BY <3>1, <3>2, <4>1, <4>2, Zenon DEF Typed
    <3>4. Numbers
      BY <3>1 DEF Numbers, StartNumbers, NotInitialized, Tun, TunStep, SignalStep, Urandom, Life!Stage
    <3>5. \A n \in 0 .. MaxFd : fds[n] = IF n <= 2 THEN Standard[n + 1] ELSE "free"
      BY <3>1, ZenonT(30) DEF Standard
    <3>6. StandardOpen /\ MainOpen /\ WorkerOpen
      <4>1. StandardOpen
        BY <3>5, FdAssumption, SMTT(30) DEF StandardOpen
      <4>2. held.urandom = 0 /\ held.tun = 0 /\ held.udp = -1
        BY <3>1, ZenonT(60)
      <4>3. MainOpen
        BY <4>2 DEF MainOpen
      <4>4. thread = "none"
        BY <3>1, Zenon
      <4>5. WorkerOpen
        BY <4>4, Zenon DEF WorkerOpen
      <4> QED BY <4>1, <4>3, <4>5, Zenon
    <3>7. ASSUME NEW n \in 0 .. MaxFd PROVE Owner(n)
      <4>1. n \in Nat
        BY FdAssumption, SMTT(30)
      <4> QED BY <3>5, <4>1 DEF Owner, Standard
    <3> QED BY <3>1, <3>3, <3>4, <3>6, <3>7, Zenon DEF LifeInv, Descriptors, Met, Life!Stage
  <2> QED BY <2>1, <2>2, Zenon DEF ProcessInit
<1>3. LifeInv /\ [ProcessNext]_processVars => LifeInv'
  <2>1. ASSUME LifeInv, UNCHANGED lifeVars PROVE LifeInv'
    <3> USE <2>1 DEF lifeVars, Life!Stage, Life!Server
    <3>1. Met' = Met /\ Left' = Left /\ Life!Live' = Life!Live
      BY Zenon DEF Met, Left, Life!Live, Life!Leftovers
    <3>2. Typed' = Typed
      BY Zenon DEF Typed
    <3>3. Initialized' = Initialized /\ NotInitialized' = NotInitialized
      BY Zenon DEF Initialized, NotInitialized, Tun, Urandom
    <3>4. Numbers' = Numbers
      BY <3>3, Zenon DEF Numbers, StartNumbers, StopNumbers, Tun, TunStep, SignalStep, Urandom
    <3>5. StandardOpen' = StandardOpen /\ MainOpen' = MainOpen /\ WorkerOpen' = WorkerOpen
      BY Zenon DEF StandardOpen, MainOpen, WorkerOpen, OpenAs, UrandomOpen
    <3>6. ASSUME NEW n PROVE Owner(n)' = Owner(n)
      BY Zenon DEF Owner, RingOpen, UrandomOpen
    <3>7. Descriptors' = Descriptors
      BY <3>5, <3>6, Zenon DEF Descriptors
    <3> QED BY <3>1, <3>2, <3>4, <3>7, Zenon DEF LifeInv
  <2> QED BY <2>1, LifeStep, Zenon DEF ProcessNext, processVars
<1> QED BY <1>1, <1>2, <1>3, PTL DEF ProcessSpec

=============================================================================
