-------------------------------- MODULE Aead --------------------------------
(***************************************************************************)
(* Sealing and opening a payload where it lies (crypto.c, and the          *)
(* authenticated encryption of monocypher.c beneath it).  vf_pack and      *)
(* vf_unpack pass the same pointer as input and as output, so the payload  *)
(* is moved, encrypted, checked and decrypted inside one buffer.           *)
(*                                                                         *)
(* Bytes are symbolic: a byte is the set of the atoms that were XORed into *)
(* it, and XOR is symmetric difference.  Key streams and tags are taken as *)
(* ideal: they are equal only if everything they are computed from is.     *)
(* Sizes are scaled down; the arithmetic of the tag is in Poly1305.        *)
(***************************************************************************)
EXTENDS Integers, Sequences

CONSTANTS
    CRYPTO_NONCE_SIZE, CRYPTO_TAG_SIZE,
    PrefixSize,         \* random bytes at the front of a nonce (16)
    ChaChaBlock,        \* bytes of key stream per block (64)
    PolyBlock,          \* bytes per block of the tag (16)
    Keys, Lengths,
    MaxMessages         \* bound: payloads sealed by one process

VARIABLES
    phase,      \* "plain", "sealed", "opened" or "refused"
    len,        \* bytes of payload, or of the packet once sealed
    out_len,    \* what vf_decrypt reports
    mem,        \* the buffer, from the payload on
    prefix, counter,    \* static variables of get_fast_nonce
    damaged,            \* whether the packet was damaged on its way
    pads, reused        \* key stream bytes spent so far; whether one was twice

vars == <<phase, len, out_len, mem, prefix, counter, damaged, pads, reused>>

Expansion == CRYPTO_NONCE_SIZE + CRYPTO_TAG_SIZE
Longest == CHOOSE n \in Lengths : \A m \in Lengths : m <= n
Buffer == 0 .. Longest + Expansion - 1

Xor(a, b) == (a \ b) \cup (b \ a)

Load(m, at, n) == [i \in 1 .. n |-> m[at + i - 1]]

Store(m, at, bytes) ==
    [i \in Buffer |-> IF i \in at .. at + Len(bytes) - 1 THEN bytes[i - at + 1]
                      ELSE m[i]]

\* Bytes between x and the next multiple of n.
gap(x, n) == (n - (x % n)) % n

-----------------------------------------------------------------------------
KeyStream(key, nonce, ctr, i) ==
    {<<"pad", key, nonce, ctr + i \div ChaChaBlock, i % ChaChaBlock>>}

\* The nonce is read again where it lies, for every byte.
MutChacha20(m, dst, src, n, key, nonce, ctr) ==
    LET after[i \in 0 .. n] ==
            IF i = 0 THEN m
            ELSE LET b == after[i - 1]
                 IN  [b EXCEPT ![dst + i - 1] =
                        Xor(b[src + i - 1],
                            KeyStream(key, SubSeq(Load(b, 0, CRYPTO_NONCE_SIZE),
                                                  PrefixSize + 1, CRYPTO_NONCE_SIZE),
                                      ctr, i - 1))]
    IN  after[n]

\* Bytes are read and written in order, so that dst may lie before src.
crypto_chacha20_djb(m, dst, src, n, key, nonce, ctr) ==
    LET after[i \in 0 .. n] ==
            IF i = 0 THEN m
            ELSE LET b == after[i - 1]
                 IN  [b EXCEPT ![dst + i - 1] =
                        Xor(b[src + i - 1], KeyStream(key, nonce, ctr, i - 1))]
    IN  after[n]

crypto_chacha20_h(key, in) == <<"sub_key", key, in>>

\* The front of the nonce goes into the key, the rest stays a nonce.
crypto_aead_init_x(key, nonce) ==
    [key |-> crypto_chacha20_h(key, SubSeq(nonce, 1, PrefixSize)),
     nonce |-> SubSeq(nonce, PrefixSize + 1, Len(nonce)), counter |-> 0]

\* The tag covers the text, the zeros that fill its last block, and the sizes
\* of the (empty) additional data and of the text.
lock_auth(auth_key, text) ==
    LET zeros == [i \in 1 .. gap(Len(text), PolyBlock) |-> {}]
        input == text \o zeros \o <<{<<"size", 0>>}, {<<"size", Len(text)>>}>>
    IN  [i \in 1 .. CRYPTO_TAG_SIZE |-> {<<"tag", auth_key, input, i>>}]

\* The first block of the key stream is the key of the tag.
AuthKey(ctx) == KeyStream(ctx.key, ctx.nonce, ctx.counter, 0)

crypto_aead_write(m, ctx, cipher, tag, plain, n) ==
    LET c == crypto_chacha20_djb(m, cipher, plain, n, ctx.key, ctx.nonce,
                                 ctx.counter + 1)
    IN  Store(c, tag, lock_auth(AuthKey(ctx), Load(c, cipher, n)))

\* The text is decrypted before the tag is compared.
MutRead(m, ctx, plain, tag, cipher, n) ==
    [mismatch |-> Load(m, tag, CRYPTO_TAG_SIZE)
                    # lock_auth(AuthKey(ctx), Load(m, cipher, n)),
     mem |-> crypto_chacha20_djb(m, plain, cipher, n, ctx.key, ctx.nonce,
                                 ctx.counter + 1)]

crypto_aead_read(m, ctx, plain, tag, cipher, n) ==
    LET mismatch == Load(m, tag, CRYPTO_TAG_SIZE)
                    # lock_auth(AuthKey(ctx), Load(m, cipher, n))
    IN  [mismatch |-> mismatch,
         mem |-> IF mismatch THEN m
                 ELSE crypto_chacha20_djb(m, plain, cipher, n, ctx.key,
                                          ctx.nonce, ctx.counter + 1)]

crypto_aead_lock(m, cipher, tag, key, nonce, plain, n) ==
    crypto_aead_write(m, crypto_aead_init_x(key, nonce), cipher, tag, plain, n)

crypto_aead_unlock(m, plain, tag, key, nonce, cipher, n) ==
    crypto_aead_read(m, crypto_aead_init_x(key, nonce), plain, tag, cipher, n)

-----------------------------------------------------------------------------
\* The message for which the prefix is drawn is not counted.
MutFastNonce(drawn) ==
    /\ prefix' = IF prefix = "zero" /\ drawn THEN "random" ELSE prefix
    /\ counter' = IF prefix = "zero" /\ drawn THEN counter ELSE counter + 1

\* The random prefix is drawn once; as long as that fails it is all zeros.
get_fast_nonce(drawn) ==
    /\ prefix' = IF prefix = "zero" /\ drawn THEN "random" ELSE prefix
    /\ counter' = counter + 1

Nonce(p, c) ==
    [i \in 1 .. CRYPTO_NONCE_SIZE |->
        IF i <= PrefixSize THEN {<<"prefix", p, i>>} ELSE {<<"counter", c, i>>}]

Payload(n) == [i \in Buffer |-> IF i < n THEN {<<"text", i>>} ELSE {<<"old", i>>}]

\* Key stream bytes that one message spends, the key of its tag first.
Spent(key, nonce, n) ==
    LET ctx == crypto_aead_init_x(key, nonce)
    IN  [i \in 0 .. n |->
            IF i = 0 THEN AuthKey(ctx)
            ELSE KeyStream(ctx.key, ctx.nonce, ctx.counter + 1, i - 1)]

\* They are new, and differ from each other.
Fresh(spent, n) ==
    \A i \in 0 .. n : /\ spent[i] \notin pads
                      /\ \A j \in 0 .. n : spent[i] = spent[j] => i = j

vf_encrypt(key, drawn) ==
    LET nonce == Nonce(prefix', counter)
        cipher == CRYPTO_NONCE_SIZE
        shifted == Store(mem, cipher, Load(mem, 0, len))
        locked == crypto_aead_lock(shifted, cipher, cipher + len, key, nonce,
                                   cipher, len)
        spent == Spent(key, nonce, len)
    IN  /\ phase = "plain"
        /\ get_fast_nonce(drawn)
        /\ mem' = Store(locked, 0, nonce)
        /\ phase' = "sealed"
        /\ len' = len + Expansion
        /\ IF Fresh(spent, len) THEN UNCHANGED reused ELSE reused' = TRUE
        /\ pads' = pads \cup {spent[i] : i \in 0 .. len}
        /\ UNCHANGED <<out_len, damaged>>

\* The network changes a byte or cuts the packet.
Damage ==
    /\ phase = "sealed" /\ ~damaged
    /\ damaged' = TRUE
    /\ \/ /\ \E i \in 0 .. len - 1 :
                mem' = [mem EXCEPT ![i] = Xor(@, {<<"damage">>})]
          /\ UNCHANGED len
       \/ /\ len' \in 0 .. len - 1
          /\ UNCHANGED mem
    /\ UNCHANGED <<phase, out_len, prefix, counter, pads, reused>>

vf_decrypt(key) ==
    LET plain_len == len - Expansion
        cipher == CRYPTO_NONCE_SIZE
        u == crypto_aead_unlock(mem, 0, cipher + plain_len, key,
                Load(mem, 0, CRYPTO_NONCE_SIZE), cipher, plain_len)
        fits == len >= Expansion
    IN  /\ phase = "sealed"
        /\ mem' = IF fits THEN u.mem ELSE mem
        /\ IF fits /\ ~u.mismatch
           THEN phase' = "opened" /\ out_len' = plain_len
           ELSE phase' = "refused" /\ out_len' = 0
        /\ UNCHANGED <<len, prefix, counter, damaged, pads, reused>>

\* The buffer is taken for another payload.
Reuse ==
    /\ phase \in {"opened", "refused"} /\ counter < MaxMessages
    /\ phase' = "plain" /\ out_len' = 0 /\ damaged' = FALSE
    /\ len' \in Lengths
    /\ mem' = Payload(len')
    /\ UNCHANGED <<prefix, counter, pads, reused>>

Init ==
    /\ len \in Lengths /\ mem = Payload(len)
    /\ phase = "plain" /\ out_len = 0
    /\ prefix = "zero" /\ counter = 0
    /\ damaged = FALSE /\ pads = {} /\ reused = FALSE

Next ==
    \/ \E key \in Keys, drawn \in BOOLEAN : vf_encrypt(key, drawn)
    \/ \E key \in Keys : vf_decrypt(key)
    \/ Damage \/ Reuse

Spec == Init /\ [][Next]_vars

-----------------------------------------------------------------------------
\* The buffer as vf_encrypt leaves it for n bytes of payload.
SealedBuffer(n, key, nonce) ==
    Store(crypto_aead_lock(
            Store(Payload(n), CRYPTO_NONCE_SIZE, Load(Payload(n), 0, n)),
            CRYPTO_NONCE_SIZE, CRYPTO_NONCE_SIZE + n, key, nonce,
            CRYPTO_NONCE_SIZE, n), 0, nonce)

\* The buffer holds a packet sealed with the key, under a counter up to now.
SealedBy(m, n, key) ==
    \E p \in {"zero", "random"}, c \in 0 .. counter :
        m = SealedBuffer(n, key, Nonce(p, c))

(***************************************************************************)
(* vf_encrypt and vf_decrypt work in place: a packet that arrives whole    *)
(* and is opened with the key it was sealed with gives back the payload at *)
(* the start of the buffer, although the text is moved over its nonce      *)
(* while it is decrypted.                                                  *)
(***************************************************************************)
OpensInPlace ==
    phase = "opened" =>
        /\ ~damaged
        /\ out_len = len - Expansion
        /\ \A i \in 0 .. out_len - 1 : mem[i] = {<<"text", i>>}

\* Whether a step of vf_decrypt decides rightly.
OpensWhole ==
    \A key \in Keys : vf_decrypt(key) =>
        LET whole == ~damaged /\ SealedBy(mem, len - Expansion, key)
        IN  /\ whole <=> phase' = "opened"
            /\ ~whole => out_len' = 0 /\ mem' = mem

(***************************************************************************)
(* A packet that was damaged or cut, or meets another key, is refused with *)
(* a length of zero and the buffer as it was; one that was not is opened   *)
(* (vf_decrypt: "out_len is zeroed on any error").                         *)
(***************************************************************************)
RefusesDamaged == [][OpensWhole]_vars

(***************************************************************************)
(* No byte of key stream is spent twice under one key by one process, be   *)
(* it on two payloads, within one, or on a payload and the key of a tag:   *)
(* get_fast_nonce never repeats a nonce, also when the prefix is drawn     *)
(* late, and the text starts at block 1.                                   *)
(***************************************************************************)
PadsSpentOnce == ~reused
=============================================================================
