# TLA+ verification of vfast

vfast is a UDP VPN in C (`src/src/`): a server that hands out virtual addresses
and keeps sessions, a client with a connection state machine, an `io_uring`
event loop under both, a small encrypted wire format with key rotation, and a
management socket with a console. This directory models the parts whose
correctness depends on sequences, interleavings or arithmetic, checks them with
TLC and proves the core with TLAPS.

## 1. The system

| Part | Files | State | What changes it | Promise |
|---|---|---|---|---|
| Address pool | `ippool.c` | bitmap, `next_hint` | `vf_ip_pool_alloc/free/destroy`, one lock | an address has one holder; "0 if pool is exhausted" |
| Session table | `session.c` | cells in two hash indexes, split in shards with a lock each | `vf_ss_update`, `_update_by_sid`, `_delete`, `_get_expired`, `_destroy` | both lookups find the same session under the same lock |
| Server control plane | `vfast_server.c`, `vfast.c` | pool + table | AUTH, KEEPALIVE, DPD_RESPONSE handlers, maintenance timer (one thread) | an AUTH_ACK leads to its session; silent clients are reclaimed |
| Key rotation | `key.c`, `key.h`, handlers of client and server | active / previous / next key, pending flag, on each side | rekey timer, REKEY_REQ, REKEY_ACK, AUTH_ACK | packets in flight across a rotation decrypt |
| I/O engine | `io.c` | task pool with `in_use`, submission queue, requests in the kernel | event loop, callbacks, timer | a buffer owned by the kernel is not reused; reads stay posted |
| Client state machine | `fsm.c`, `vfast_client.c` | `fsm->state`, time stamps | FSM worker thread and I/O thread, both write | connect, retry, detect a dead peer, reconnect |
| Wire format | `protocol.c` | none (buffer) | `vf_pack`, `vf_unpack` | what is packed is unpacked; capacity respected |
| Sealing | `crypto.c`, the AEAD of `monocypher.c` | the buffer, nonce prefix and counter | `vf_encrypt`, `vf_decrypt` | opens to what was sealed; a nonce is used once |
| Management | `cmd.c`, `cmdengine.c` | a thread, its sockets, flags and counters | connections, SET and GET commands, start and stop | one thread serves all clients; it stops whenever it is told to |
| Console | `vfreflex.c`, `linenoise.c` | edited line, cursor, history, completion | keys | no key damages the line or loses text |
| Login | `user.c`, `uthash.h` | hash table of tokens | login, verification, logout, expiry | a token is valid from login until it expires or is logged out |
| Key file | `vfast.c`, `option.c` | the file, its durable part | `--keygen`, options, start, power failure | a key reported as generated stays |
| Programs | `vfast_server.c`, `vfast_client.c`, `tun.c`, `udp.c` | descriptors, `running`, second thread | start-up, signals, clean-up | a signal ends the program and everything is released |
| Log, utilities, unused helpers | the rest | – | – | not modelled, section 8 |

On the server everything but the management thread runs in the event loop, and
no handler yields. On the client the FSM worker is a second thread. The network
between them loses and reorders.

## 2. Modules

| Module | Models | Correspondence |
|---|---|---|
| `IpPool` | `ippool.c` | `bitmap` is the set of positions whose bit is set; the scan of `vf_ip_pool_alloc` is `Probe`, `ScanStopsAt`, `ScanFails`; each function is one step because it holds `pool->lock` throughout |
| `AddressAllocator` | abstract | what an allocator promises: no bitmap, no hint |
| `IpPoolSpec` | pool + callers | `held` is what callers own; refines `AddressAllocator` |
| `SessionTable` | `session.c` | `live`/`heap` are the allocated cells and their bytes (a freed cell keeps them), `ip_table`/`sid_table` the two uthash indexes per shard; each operation holds one shard's lock |
| `SessionSpec` | table + two threads | the I/O thread's operations, shutdown, and the management thread with the pointer it carries out of the lock and its shard-by-shard count |
| `SidAlign` | `vf_ss_generate_sid`, `vpn_get_shard_idx` | a word is the set of its bits; masks, shifts and XOR of any width |
| `SessionIds` | `SessionSpec` + `SidAlign` | the ids that the table may draw for an address are those that the bits of `SidAlign` compute |
| `VpnServer` | server handlers and maintenance | composes `IpPool` and `SessionTable`; `granted` records the AUTH_ACKs, `lost` the addresses a failed login keeps |
| `Rekey` | rotation, both ends | the contexts of the client and of each session, two UDP queues, a path that may lose and reorder; the client may time out and reconnect at any moment, whatever is in flight |
| `IoEngine` | `io.c` + what callbacks do to their task | the set of tasks in use and the rotating index; submission queue and kernel as sets of requests, told apart by a number where they are equal; a callback is what it does to its task (`AllOutcomes`); the packets of a timer callback are sent one step at a time. Sizes and callbacks are read once, as `conf` |
| `ClientFsm` | `fsm.c`, client UDP handlers | each thread's load, act and store are separate steps, with any delay between two of them; time passes wherever they are. All the worker compares is read in `Load`; to the state machine the server's packets are HELLO, AUTH_ACK and OTHER, and a stray packet is anything else that arrives |
| `Lifecycle` | start, end and signals of both programs | the list of start-up steps, each of which may fail, and of clean-up steps; descriptor numbers as the kernel assigns them, so that a number closed twice may by then mean something else |
| `CmdServer` | `cmd.c`, `cmdengine.c`, the calls of `vfreflex.c` | the worker's program counter and cancel state, the listen backlog, the connection it holds, the command table with both levels of dispatch, the flags and packet counters; the steps of `cmd_server_stop` |
| `Packet` | `protocol.c`, lengths of `crypto.c` | bytes by their number, header fields by value; words are sets of bits, so that masking and rotation are those of the code at any width |
| `Aead` | `crypto.c`, AEAD of `monocypher.c` | the one buffer that input and output share; a byte is the set of atoms XORed into it, key stream and tag are ideal |
| `Poly1305` | Poly1305 of `monocypher.c` | every sum, product and carry with its word size, on words of any size; the streaming interface with its waiting block |
| `UtHash` | `uthash.h` as used | heads, chains, list links, counts, bucket expansion |
| `UserTable` | `user.c` | its functions on a `UtHash` table; refines `TokenStore` |
| `TokenStore` | abstract | a partial function from tokens to the time they have left |
| `Utf8`, `LineEdit` | `linenoise.c`, `vfreflex.c` | bytes tagged with the class of their character; grapheme steps, editing keys, history, completion, single-line refresh, main loop. `mode` is "cut" while the line ends inside a character (the fetch of a history entry that fills the buffer), "hungup" after an input that ended inside one, "crashed" after a write or read outside the buffers |
| `KeyFile` | `vfast_cmd_keygen`, `vf_option_conf`, `vfast_load_key` | each system call is a step that may fail; power may fail between any two; a program that has opened the file when its name is removed reads what the file held |
| `Processes` | `ClientFsm`, `Lifecycle`, `KeyFile` | the programs around the tunnel side by side: they share no state, each initial state picks one |
| `Crypto` | `Packet`, `Aead`, `Poly1305` | the packet on its way through the cipher, side by side in the same way |
| `MC*` | – | values of the constants for TLC; `MCComponents` puts `SessionIds`, `IpPoolSpec`, `UserTable` and three instances of `LineEdit` beside `Crypto`, `MCPrograms` puts `VpnServer` beside `Processes` |
| `ServerProofs` | – | lemmas on the operations of `IpPool` and `SessionTable`, proofs about `IpPoolSpec`, `SessionIds` and `VpnServer` |
| `RekeyProofs`, `IoProofs`, `CmdServerProofs`, `ProcessProofs` | – | proofs about `Rekey`, `IoEngine`, `CmdServer` and `Processes` |
| `PolyProofs`, `TagProofs` | – | the arithmetic of `Poly1305`, and the tag of a whole message |
| `CryptoProofs` | – | proofs about the wire format and sealing in `Crypto` |

Definitions carry the names of the C functions they model; `PROJECT.json` maps
each to its lines. `Mut...` operators are seeded faults: each stands before the
definition it would replace, and each property is known to fail for one of them.

What is abstracted everywhere: packet payloads, addresses of clients (model
values), log output, statistics other than the packet counters. Elapsed time is
ticks (`VpnServer`, `ClientFsm`, `UserTable`) or a free choice (`Rekey`). `random`
is a free choice; whether it may repeat a live session id is the constant
`RandomIsFresh`.

## 3. Runs that pass

| Run | Properties | Shows |
|---|---|---|
| `management` | `NothingHeld`, `StopReturns`, `ServedInTurn`, `LevelFollowsFlag`, `ReportsMonotone` | no client can hold up the others, make the thread lose a connection or keep it from being joined; the log level is the one the flag claims; reported counters never go back |
| `rekey` | `KeyAgreement`, `PacketsDecrypt`, `RotationEnds` | on every path the client uses a key the server holds, until it takes the REKEY_ACK of a session it has left; without reordering the server reads everything; without loss and reordering the client does too in its first session, and rotations end |
| `io` | `TaskAccounting`, `PipelineFull`, `WritesLeave` | no task is lost whatever callbacks do, and without the acknowledgement of `vfast_server.c:501` a buffer has one owner; a sufficient size for pool and ring; no packet left in the queue while completions arrive |
| `programs` | `ClientReconnects`, `SilenceNoticed`, `ConnectionKept` (`ClientFsm`) | the races of the two threads and late replies delay a connection but do not prevent it; silence ends it; nothing else does but the store of a round that was under way when it was made |
| | `SignalHalts`, `DescriptorsOwned` (`Lifecycle`) | a signal to the event loop ends either program with its thread joined; what was opened is closed, and only two places close a descriptor of another part |
| | `ReportedKeyKept`, `HoldsKeyOfFile` (`KeyFile`) | a key reported as written survives power failure and every other start; a running program holds the whole key of the file |
| | `PoolMatchesSessions`, `GrantsResolve`, `SilentReclaimed` (`VpnServer`) | pool and table agree after any sequence of handlers; each AUTH_ACK resolves by id and by address; a silent client is reclaimed while no more sessions are due than one batch holds |
| `components` | `ExactAccounting`, `RefinesAllocator`, `HintNears` (`IpPoolSpec`) | no address is lost or doubly held; 0 only when all are held; each allocation brings the hint nearer to every address that stays free |
| | `IndexesAgree`, `CountPlausible`, `GeneratorExact` (`SessionIds`) | the two indexes stay equal through creation, refresh, deletion and shutdown; a count taken shard by shard lies between the sessions that lived throughout and those that existed at any time; the bit arithmetic yields for an address all ids of its shard and no other |
| | `RoundTrip` (`Packet`) | type and id survive every padding and every left-over sequence number; what is returned is the payload followed by exactly the padding drawn |
| | `OpensInPlace`, `RefusesDamaged`, `PadsSpentOnce` (`Aead`) | moving, encrypting and decrypting in one buffer reads nothing already overwritten; a changed packet is refused and left alone; no key stream byte is spent twice, random prefix or not |
| | `TagCorrect` (`Poly1305`) | however a message is cut into calls, its blocks are absorbed in order, the accumulator is the polynomial of its blocks, and the tag that polynomial reduced, plus the pad |
| | `TableSound`, `KeepsTokens` (`UserTable`) | chains, list and counts agree through growth and deletion during iteration; the table implements `TokenStore` |
| | `EditorSound`, `RefreshFits`, `NavigationKeepsText` (`LineEdit`) | the cursor never stands inside a character and only a fetch from the history can cut one; history indexes name entries; the refresh ends and shows the cursor (without joiners and flags); moving through the history loses no text but the last byte of an entry that fills the buffer |

Components that share no state run side by side in `programs` and `components`:
each initial state picks one (`part`), its steps are that component's and the
others rest, so the states of the run are the sum and not the product of theirs.

The type invariants are checked, too: by name (`PoolTypeOK`, `ServerTypeOK`), or
as a conjunct of `CountPlausible`, `NothingHeld`, `KeyAgreement` and
`TaskAccounting`.

**Bounds.** `management`: two connections and a backlog of one, so that a client
waits while another is served and a third `connect` blocks; one failing `accept`;
one packet, counted before, between or after the loads. The server stops, so
deadlock is not checked. `rekey`: two sessions, so that the datagrams of the first
are still in flight in the second; five keys (three rotations or a rotation across
a reconnection), two datagrams each way, two losses, key ids of one bit so that ids
repeat on the wire. `io`: one read per device, three writes per flush, two writes
outstanding; two configurations, one too small for its reads and without
acknowledgements, one with all callbacks at the bound of `PipelineFull`, which is
tight: one task or one entry less and it fails.

`programs`: timers of 2, 1 and 3 ticks in the order of the code's, stray packets,
any delay; a kind of datagram is in flight or not, so that duplicates of a request
merge. Both programs, every start-up step failing or not, enough descriptor numbers
for all that are open at a time; two generators and two programs on the key file at
once, three keys. *VpnServer*: three assignable addresses, so three clients fill the
pool; a batch of two, so that the list of expired sessions overflows; probe after
one tick, death after two; one client address, since no guard reads it. The programs
end, so deadlock is not checked.

`components`, whose behaviours end as well:
*IpPoolSpec*: ten positions that cross a block of eight, so that all three kinds of
reserved positions lie inside the range and the hint wraps.
*SessionIds*: three addresses, five ids, four shards, three cells: two sessions in
one shard, one in another, placed there by the hash of `SidAlign` on eight-bit words.
The cells are interchangeable, so they form a symmetry set (the run has safety
properties only). `GeneratorExact` goes over all 256 random words for each address.
*Packet*: the sizes of the code, lengths 0–2, 1400 and the edges of the buffer up to
the longest TUN read; header words of sixteen bits, bytes of four.
*UserTable*: four tokens, three of which collide until the table has 16 buckets,
so that it grows more than once.
*LineEdit*: three times, with history, completion and hints over letters and spaces;
with a history of three lines of up to the whole buffer, some ending in a character
of two bytes; and with every class of characters in lines of up to five bytes and
clusters longer than `tmp`. The terminal leaves three columns beside the prompt.
*Aead*: nonce of three, tag, key stream and tag blocks of two bytes, payloads shorter
and longer than each. *Poly1305*: words of seven bits; extreme words and keys; five
words cross a block, and two calls meet every waiting block.

**Fairness.** `management`: both threads are scheduled; no client has to act and no
call has to fail, and the failures of `accept` that are retried are finitely many
(`MaxFailures`). `rekey`: datagrams that are not lost arrive; the timer keeps firing
and finds a free task from time to time. `io`: a batch of completions ends.
`programs`: main and its second thread are scheduled (no signal and no failure has
to come); on the client, both threads run, time passes and the server handles what
arrives; on the server, the clock and the maintenance timer, which the event loop
calls each round. `ClientReconnects` adds its own premise, `Calm`: from some time on
nothing is lost, and an answer is handled while the worker sleeps, within the second.
Without it the handshake could lose the race of the worker's store with the reply for
ever. `SilenceNoticed` needs no such premise.

## 4. Runs that show a disagreement

| Run | Code | What happens |
|---|---|---|
| `session_show` | `cmdengine.c:598` | GET show formats its reply from a session pointer after the shard lock is released; the I/O thread may free the session in between |
| `server_lost_address` | `vfast_server.c:216` | a failed login returns without freeing the address allocated for it |
| `rekey_null_payload` | `vfast_client.c:384` | after a lost REKEY_ACK the server encrypts with a key the client has not committed; the client passes the NULL payload on |
| `io_shared_buffer` | `vfast_server.c:501` | DATA and REKEY_REQ queue a write of the received buffer and return `IO_TASK_DONE`; the buffer is given to a new read while the write is outstanding |
| `dead_peer` | `vfast_client.c:380` | every packet of header length refreshes `last_rx_time` before its type is looked at and whether or not it decrypts, so a client whose session is gone stays `CONNECTED` while stray packets arrive, although the comment above says this is prevented |
| `padding_kept` | `protocol.h:260` | filling the header clears the padding flag after the padding was added, so `vf_unpack` returns payload and padding although it is to "restore exact length" |
| `pack_overflow` | `protocol.c:88` | the capacity is compared after sealing has written nonce and tag; a TUN read leaves no room for them (an MTU of up to 9000 is accepted, `option.c:139`) |

`dead_peer` is checked under the fairness of `programs`.

## 5. Other behaviour met while modelling

These were seen in the models or in the code; the passing properties above state
the conditions under which they do not occur.

- After a lost REKEY_ACK the server refuses every retry as stale
  (`vfast_server.c:368`), so the rotation stays pending until a reconnection.
  `RotationEnds` therefore asks for a path without loss.
- `vfast_handle_new_key` looks neither at the session nor at `rekey_pending`
  (`vfast_client.c:397`). An ACK of a session the client has left makes it commit the
  next key left over in its context, or the cleared one; a duplicated ACK would, too.
  `misled` records such sessions, and `KeyAgreement` is about the others.
- `vf_io_read` gives up silently when no task is free; nothing posts that read
  later. `PipelineFull` gives the size at which this cannot happen.
- A packet queued by the timer below the submit threshold waits for the next
  completion, unless the library submits when it waits. `WritesLeave` asks for
  completions.
- `pool_idx` is an `int` that only grows and `%` keeps its sign (`io.c:46`).
  The model covers its values up to `INT_MAX`.
- A worker that is delayed between its load and its store can overwrite
  `CONNECTED` with `IDLE` (`fsm.c:156`) when the reply arrives meanwhile; the client
  then connects again. `ConnectionKept` allows for such a round (`Stale`).
- Session ids are not compared with those in use (`session.c:71`);
  `GrantsResolve` needs `RandomIsFresh`, the other properties do not.
- Shutdown destroys the shard locks before the management thread is joined
  (`vfast_server.c:633`). `SessionSpec` models this order, with a destroyed lock
  that can still be taken.
- `cmd_dispatch` searches the whole table by name, groups included
  (`cmd.c:205`), so `debug x 0` acts like `SET debug 0`. `CmdServer` models it.
- The three counters of GET pktstats are loaded one after the other
  (`cmdengine.c:504`): the report may mix moments. `ReportsMonotone` is what
  remains true.
- A worker cancelled in `accept` leaves its listening socket open (`cmd.c:528` is
  not reached); the process ends right after.
- While more than 64 sessions are due, those of the first shards may fill
  `expired_list` on every round and keep a dead session of a later shard from
  being reclaimed. `SilentReclaimed` has this as its premise.
- A signal between the installation of the handlers and `vf_io_run` is lost: the
  loop sets `running` again (`io.c:438`), while `vfast_server.c:588` wants the
  program to end "on the first Ctrl+C". `SignalHalts` is about signals to the loop.
- `vf_io_exit` closes the numbers of the UDP socket and the TUN device after
  `udp_close` and `vf_tun_destroy` have (`io.c:550`); by then the management
  thread may have been given them. A client whose start fails before the TUN
  device exists closes descriptor 0 (`vfast_client.c:82`). `DescriptorsOwned`
  names these two as the only ones.
- Neither program looks at the result of `vf_io_init` (`vfast_server.c:696`);
  if the ring cannot be made, the freed task pool is freed again at the end
  (`io.c:184`, `io.c:560`). `Lifecycle` ends in "crashed" there.
- If the FSM thread cannot be created, the client's main joins a thread that does
  not exist; `Lifecycle` ends in "crashed" there, too.
- `vfast_path_mtu_updated` returns whenever it has an argument (`vfast.c:219`), so
  the TUN device keeps its MTU.
- Reading a configuration with `keyfile` creates an empty file (`option.c:229`),
  after which `--keygen` refuses. `KeyFile` models it; an existing key is never
  touched.
- `--keygen` syncs the file and not its directory (`vfast.c:119`). `KeyFile` takes a
  synced file to have a durable name, as Linux file systems with a journal do.
- TAB on an empty line looks at the byte before the buffer, and on a blank line
  follows a null token (`vfreflex.c:76`). `LineEdit` ends in "crashed", or goes on,
  according to that byte.
- The loops that trim a line to the terminal subtract widths of single characters
  from the width of clusters (`linenoise.c:901`); with joiners or flags they can
  run past the end of the line. `RefreshFits` is about lines without them.
- A history entry of full length loses its last byte when it is fetched
  (`linenoise.c:1186`), which may be half of a character. `LineEdit` models the fetch;
  of the keys on such a line only those that end, replace or clear it.
- CTRL-T copies a cluster of any length through 32 bytes (`linenoise.c:1378`);
  `LineEdit` ends in "crashed" for one that is longer.
- A character whose bytes stop coming is inserted with what the stack held
  (`linenoise.c:1469`); the next read then ends the console.
- The prefix of the nonce is filled without a lock (`crypto.c:39`). The counter
  alone keeps nonces apart within a process, which is what `PadsSpentOnce` shows
  for a prefix that is drawn late; a prefix half written by two threads is below
  the model.
- Time stamps and intervals are unsigned: the skew check of AUTH_REQ
  (`vfast_server.c:198`) and the MTU interval (`io.c:467`) rely on a clock that is
  neither near zero nor set back. The models count ticks.

## 6. Proofs

| Theorem | Module | Says, for all constants |
|---|---|---|
| `PoolTypeCorrect`, `AccountingExact` | `ServerProofs` | `PoolTypeOK`, `ExactAccounting` always hold |
| `Refinement`, `HintNearsAlways` | `ServerProofs` | the pool implements `AddressAllocator`; `HintNears` is true of every step |
| `ServerTypeCorrect`, `PoolMatches`, `ServerIndexesCorrect` | `ServerProofs` | `ServerTypeOK`, `PoolMatchesSessions`, `IndexesAgree` always hold |
| `GrantsCorrect` | `ServerProofs` | `GrantsResolve` always holds when ids are fresh |
| `IndexesCorrect`, `CountCorrect` | `ServerProofs` | `IndexesAgree`, `CountPlausible` always hold under three threads of control |
| `GeneratorCorrect` | `ServerProofs` | `GeneratorExact` always holds, for words of any even width and any number of shards that fits a half |
| `ConnectionsClosed`, `LevelFollows`, `ReportsGrow` | `CmdServerProofs` | `NothingHeld`, `LevelFollowsFlag`, `ReportsMonotone` |
| `KeysAgree` | `RekeyProofs` | `KeyAgreement` always holds, on every path and with timeouts at any moment |
| `PacketsDecryptAlways` | `RekeyProofs` | `PacketsDecrypt` always holds: the uplink on every path that keeps order, the downlink of the first session if nothing is lost either |
| `TaskAccountingAlways`, `PipelineFullAlways` | `IoProofs` | `TaskAccounting`, `PipelineFull` always hold, whatever callbacks do with the buffers they send |
| `ConnectionKeptAlways` | `ProcessProofs` | `ConnectionKept` is true of every step, whatever the timers, the delays and what arrives |
| `ReportedKeyKeptAlways`, `HoldsKeyOfFileAlways` | `ProcessProofs` | `ReportedKeyKept`, `HoldsKeyOfFile` always hold, for any number of generators and programs |
| `DescriptorsOwnedAlways` | `ProcessProofs` | `DescriptorsOwned` always holds, whatever fails, whenever signals come and whatever the worker of the server does |
| `BlockExact`, `InitClamped`, `FinalExact` | `PolyProofs` | a step of `poly_blocks` does not overflow, keeps the accumulator reduced, and multiplies modulo the prime; the key is clamped as this needs; the end reduces completely and adds the pad |
| `TagCorrectAlways` | `TagProofs` | `TagCorrect` always holds, for all keys and messages, however a message is cut into calls |
| `RoundTripAlways` | `CryptoProofs` | `RoundTrip` always holds, for all sizes, words and salts |
| `PadsSpentOnceAlways` | `CryptoProofs` | `PadsSpentOnce` always holds, for all sizes |
| `OpensInPlaceAlways`, `RefusesDamagedAlways` | `CryptoProofs` | `OpensInPlace` always holds and `RefusesDamaged` is true of every step, for all sizes, keys and numbers of messages |

**Assumptions.** `PoolAssumption`: the pool is not empty and its range ends below
the top of the address space (otherwise the range check of `vf_ip_pool_free`
wraps). `SessionAssumption`, `ServerAssumption`: keys map to shards, clients'
addresses are the assignable ones, `PROBE_SEC <= DEAD_SEC`. `CmdAssumption`,
`RekeyAssumption`: bounds are natural numbers, the key id on the wire has at least
two values. `EngineAssumption`: pool, ring, warm-up and threshold are not zero.
`ShardOf` is any function: that ids are drawn in the shard of their address is part
of `vf_ss_generate_sid`, and `GeneratorCorrect` proves it of the bits.
`SizesAssumption`: sizes are natural numbers, a byte holds a message type, the
magic number and the version lie in the bytes before the type (`WireSizes`); the
counter gets at least one byte of the nonce, blocks and tags are not empty, and
there is a longest payload (`SealSizes`). `WordsAssumption`: the number of values of a
word is a multiple of 64, which makes room for the bits that `crypto_poly1305_init`
clamps; keys and messages consist of words. `FdAssumption`: `open` finds a descriptor number
for each of the nine that a server can have open at a time.
`WordAssumption`: addresses and ids are words of `SidAlign`, and two of them share a
shard exactly when `vpn_get_shard_idx` of their bits is the same. `FsmAssumption`: the timers are natural
numbers.
No theorem has a premise beside its specification, except `GrantsCorrect`, which asks
for `RandomIsFresh`.

**Pool.** `PoolInv == PoolTypeOK /\ ExactAccounting` is inductive. Accounting alone is
not: a release keeps it only if the freed address has an unreserved position of
its own, which the type of `held` gives. The scan needs one arithmetic fact:
`PoolSize` probes from any hint reach every position (`ProbesCover`), so a scan
that fails has seen every bit set. Address 0 ends in a reserved byte and is thus
never assignable, so it can serve as "no address". For `HintNears`: the scan passes
over no free position, so the hint, which is left behind the one it took, lies
between the old hint and each address that stays free (`ScanNears`); the remainders
of the code are first written as comparisons (`ProbeAt`, `HintAt`).

**Control plane.** `Base == ServerTypeOK /\ IndexesAgree /\ PoolMatchesSessions` is
inductive only as a whole. An accepted login adds rather than renames a session
because its address is in no session, which is `PoolMatchesSessions`; both lookups
equal the allocated cells with that key, which is `IndexesAgree`; and a KEEPALIVE
finds by address the session it found by id because addresses are unique. Three
lemmas say what steps do (`KeysKept`, `Added`, `Reclaimed`) and three more that
each preserves `Base`. `GrantsResolve` follows from `Base` and `Promises` (ids are
unique, each grant has a session), which is inductive relative to `Base`.

**Session table with threads.** `Inv == TypeOK /\ TableInv /\ Tally`. A count in
progress has passed the shards below `shard`. Of the sessions that live through
it, those `Behind` are in the total; of those that exist, the ones `Ahead` still
fit between the total and the number that ever existed. Deleting shrinks both
sets, creating adds one to `Ahead` and to the bound, and counting a shard moves its
sessions from one set to the other. The lemmas on the table operations
(beginning of `ServerProofs`) serve the control plane as well.

**Management.** A connection is held only while the cancel state is DISABLE
(`Held`), so no cancellation can strike in between; the level follows the flag
because only SET debug, in its two steps, changes either (`Followed`); a report
under construction lies between the last one and the counters (`Counted`).

**Key rotation.** `KeyAgreement` says nothing of the datagrams that will change
the keys, and those of all former connections may still be in flight.
`Inv == TypeOK /\ Traffic /\ Joined`: `Traffic` says what the datagrams of each
session may be, whatever state the client is in, `Joined` what is in flight in the
client's own. What keeps the connections apart is the session id: a session whose
AUTH_ACK is still to come has seen no other datagram. A connected client is either
in step with its session, and then a request the server would take carries the
client's next key and no acknowledgement is under way; or a key behind, and then all
requests in flight are old, there is one acknowledgement at most, and the next key
is the session's active one. An acknowledgement of another session is where this
ends (`misled`). Loss and reordering only remove datagrams or change their order,
which none of this depends on. That nothing is duplicated is an assumption about the
network.
For `PacketsDecrypt`, `Sealing` says which key sealed what. The ids of consecutive
keys differ by one, so an id of at least one bit tells the two keys of a session
apart (`Ids`). On a path that keeps order the queue to the server holds packets of
the grace key, then packets of the active key (`Uplink`), so a rotation, which
drops the grace key, finds none of its packets left: the request that starts it was
sealed with the active key and everything before it has been received. The queue to
the client turns from the client's key to the session's exactly behind the
REKEY_ACK, at whose arrival the client turns, too (`Downlink`); this is what a lost
acknowledgement breaks (`rekey_null_payload`).

**Poly1305.** The comments in `poly_blocks` state bounds for every word; they are
proved for words of any size `Base = 64 * D`, with `D` symbolic. (tlapm folds
integer literals in 63 bits, so no literal near 2^32 may be squared in a proof;
the symbolic base avoids them.) `BlockExact` then follows from one identity per
word of the product, and the prime relation for what is carried around. For
`FinalExact`, the carry of `h + 5` out of 130 bits is 1 exactly when `h` is at least
the prime, and the second carry chain writes the sum of three numbers word by word.
The reference definitions (`Number`, `TimesMod` by halving, `Polynomial`) are
recursive functions. What they compute is proved without an induction theorem: that
such a function exists follows from the sequence of its initial parts, and a least
argument at which a claim fails contradicts its own recursion step (`Least`).
`PolyInv` then says of a message in progress that it consists of whole blocks, whose
polynomial is `h`, and less than a block in `c` (`Standing`). An update completes the
waiting block, hashes the whole ones and keeps the rest (`UpdateStands`), each block
by `BlockExact`; the end pads the rest with a one, hashes it and reduces
(`LastStands`, `FinalStands`), by `FinalExact`.

**Wire format.** `PackInv` says the packet on the wire is `Packed` with some padding
and some left-over sequence number. Masking twice is the identity (`Unmasked`), and
the type is found again because neither the preamble nor another type has bits in
its byte. Lengths are linear arithmetic.

**Sealing.** `PadInv`: every pad spent so far was made with a nonce whose first
counter byte was below the present counter, whether or not it had a prefix. So a
new nonce differs from all earlier ones; within one packet the pads differ because
they stand at different positions of the stream.
`SealInv`: the buffer holds a payload, or the result of sealing one with a nonce used
before, possibly with a byte changed or the end cut off, or what came out of it.
ChaCha20 works byte by byte; where its output starts no later than its input, every
byte is read before it is overwritten (`ChaChaInOrder`, by a least counterexample
over the loop), so decrypting over the nonce yields the payload. A packet that was
changed fails the comparison because the tag covers nonce and text, and one that was
cut because a byte of encrypted text then stands where the tag should begin.

**I/O engine.** `TaskAccounting` says nothing of the moment between taking a task
and queueing its request, nor of a buffer in the hands of a callback. `Owned(e,
held)` does: a task in use has a request that will release it or is in `held`
(`Tracked`), and where no acknowledgement is sent from a buffer that is then
released, exactly one of the two (`Exact`). Each call of a step moves tasks between the two (`TakeHeld`, `QueueOwned`,
`WriteOwned`, `ReapOwned`), and between steps `held` is empty. That a free task is
found whenever there is one needs the modular walk of the index to reach every slot.
For `PipelineFull`, `Counted` gives the number of requests of each kind along the
same calls. A task is free because there are no more tasks in use than requests, and
an entry is free because the queue holds at most the reads and a batch of writes
below the threshold.

**Client state machine.** `HandlersApart`: no handler of the I/O thread is under way
in a connected client, since `client_handle_hello` and `client_handle_auth` start in
a waiting state and only the second of them, at its end, stores `CONNECTED`. So only
the worker ends a connection, and a round of it that loaded `CONNECTED` does so only
for the silence it found then.

**Key file.** `FileOwned`: O_EXCL lets one generator at a time past its open; until
that one is done the file is what it has made of it, and no key has been reported.
`KeyInv` adds both properties, neither of which is inductive without it.

**Life of a program.** `LifeInv` says which number each part holds in each stage and
what each number refers to. Until main stops, its descriptors have fixed numbers:
nothing is closed, and nothing else is opened before the second thread starts. While
main stops it closes each once, and a number that becomes free can only be taken by
the management worker, which holds a listener and at most one connection. So the
closes of main meet what they mean until `vf_io_exit` closes the transports again,
and a client that failed before its TUN device closes 0 (`Met`); and once main has
joined the worker nothing of the program is open but what `Leftovers` lists (`Left`).

**Only model-checked.** All liveness (`SilentReclaimed`,
`RotationEnds`, `WritesLeave`, `StopReturns`, `ServedInTurn`, `ClientReconnects`,
`SilenceNoticed`, `SignalHalts`): fairness and `ENABLED` are beyond the prover.
`TableSound`, `KeepsTokens`, `EditorSound`, `RefreshFits` and `NavigationKeepsText`:
they rest on `RECURSIVE` operators that follow the loops over chains of buckets and
over the bytes of a line (`UtHash`, `Utf8`, `LineEdit`), and what these compute for
every table and every line needs an induction over data that the prover does not
offer. (The recursive functions under the tag and under ChaCha20 count up to a number,
which is why a least counterexample serves there.)

## 7. What could come next

1. A path that duplicates datagrams in `Rekey`. With the code as it is, a second
   REKEY_ACK would be one more exception in `KeyAgreement` (section 5).
2. Composition of `Rekey` with `VpnServer` (a rotation while maintenance reclaims
   the session), and a secure channel that it implements on a reliable path.
3. Theorems about `UtHash`: a table as a list and one chain per bucket, with
   `Moved` and `DeletedFrom` as recursive functions of the number of steps.

## 8. Not modelled

- `auth.c`, `vf_ss_clean_timeout`, `vf_rekey_needed`, `vf_fsm_force_reconnect`,
  `vf_io_raw`: nobody calls them. (`vf_user_verify_pkt`, `vf_user_logout` and
  `vf_user_clean_expired` are not called either; they are modelled because the
  table they share with `vf_user_login` is.)
- The `ioctl` configuration of the TUN device and the socket options: they leave
  no state in the programs; their failure is a choice in the models of their
  callers. Path MTU discovery: its callback never acts.
- `monocypher.c` beyond AEAD and Poly1305 (BLAKE2b, Argon2, curves, signatures):
  not called, or pure functions of their input. The ChaCha20 permutation: an ideal
  key stream in `Aead`.
- `linenoise.c`: multi-line mode, raw terminal mode and escape sequences beyond the
  keys they stand for.
- `log.c`, `utils.c`, `zmalloc.c`; argument splitting, colours, help texts and task
  gauges of the management commands: no state of the protocol.
- The values of options other than `keyfile`: the constants of the modules.
- The race of the two client threads on one `io_uring` queue (`fsm.c:97`): its
  effect lies inside liburing. `ClientFsm` lets a send succeed or fail.
