------------------------------ MODULE Poly1305 ------------------------------
(***************************************************************************)
(* The one-time authenticator of monocypher.c, which sums up a message in  *)
(* blocks of four words modulo a prime.  Base is the number of values of a *)
(* u32 (2^32), so a u64 has Base^2 and the prime is 4*Base^4 - 5; a        *)
(* message is a sequence of words, that is, a byte of the buffer c stands  *)
(* for a word here.                                                        *)
(***************************************************************************)
EXTENDS Integers, Sequences

CONSTANTS
    Base,
    KeyWords,       \* keys: sequences of eight words
    Messages,       \* what is passed to one crypto_poly1305_update
    MaxWords        \* bound: words of one message

\* A quarter of a sixteenth of a word is a whole number, as clamping needs, and
\* keys and messages are made of words.
ASSUME WordsAssumption ==
    /\ Base \in Nat \ {0} /\ Base % 64 = 0
    /\ KeyWords \subseteq [1 .. 8 -> 0 .. Base - 1]
    /\ Messages \subseteq Seq(0 .. Base - 1)

VARIABLES
    ctx,        \* crypto_poly1305_ctx: r, pad, h and the words waiting in c
    msg,        \* everything passed to crypto_poly1305_update so far
    mac         \* the tag, or <<>> before crypto_poly1305_final

vars == <<ctx, msg, mac>>

U32(x) == x % Base
U64(x) == x % (Base * Base)
High(x) == x \div Base

-----------------------------------------------------------------------------
\* s4: the word above the block, one for a full block.
Sums(h, in, end) ==
    [s0 |-> U64(h[1] + in[1]), s1 |-> U64(h[2] + in[2]),
     s2 |-> U64(h[3] + in[3]), s3 |-> U64(h[4] + in[4]), s4 |-> U32(h[5] + end)]

\* (h + c) * r without carry propagation.
Products(s, r) ==
    LET rr0 == U32((r[1] \div 4) * 5)
        rr1 == U32((r[2] \div 4) + r[2])
        rr2 == U32((r[3] \div 4) + r[3])
        rr3 == U32((r[4] \div 4) + r[4])
    IN  [x0 |-> U64(s.s0*r[1] + s.s1*rr3 + s.s2*rr2 + s.s3*rr1 + s.s4*rr0),
         x1 |-> U64(s.s0*r[2] + s.s1*r[1] + s.s2*rr3 + s.s3*rr2 + s.s4*rr1),
         x2 |-> U64(s.s0*r[3] + s.s1*r[2] + s.s2*r[1] + s.s3*rr3 + s.s4*rr2),
         x3 |-> U64(s.s0*r[4] + s.s1*r[3] + s.s2*r[2] + s.s3*r[1] + s.s4*rr3),
         x4 |-> U32(s.s4 * (r[1] % 4))]

\* Partial reduction: what is above 2 bits of the fifth word comes back five
\* times at the bottom.
MutReduce(x) ==
    LET u5 == U32(High(x.x3) + x.x4)
        u0 == U64(U32((u5 \div 4) * 5) + U32(x.x0))
        u1 == U64(High(u0) + U32(x.x1))
        u2 == U64(High(u1) + U32(x.x2) + High(x.x1))
        u3 == U64(High(u2) + U32(x.x3) + High(x.x2))
    IN  <<U32(u0), U32(u1), U32(u2), U32(u3), U32(High(u3) + (u5 % 4))>>

Reduce(x) ==
    LET u5 == U32(High(x.x3) + x.x4)
        u0 == U64(U32((u5 \div 4) * 5) + U32(x.x0))
        u1 == U64(High(u0) + U32(x.x1) + High(x.x0))
        u2 == U64(High(u1) + U32(x.x2) + High(x.x1))
        u3 == U64(High(u2) + U32(x.x3) + High(x.x2))
    IN  <<U32(u0), U32(u1), U32(u2), U32(u3), U32(High(u3) + (u5 % 4))>>

poly_block(h, r, in, end) == Reduce(Products(Sums(h, in, end), r))

\* in: the blocks that are hashed, with a word on top of each.
poly_blocks(h, r, in, nb_blocks, end) ==
    LET after[i \in 0 .. nb_blocks] ==
            IF i = 0 THEN h
            ELSE poly_block(after[i - 1], r, SubSeq(in, 4 * i - 3, 4 * i), end)
    IN  after[nb_blocks]

-----------------------------------------------------------------------------
Clamp(w) == w % (Base \div 16)
Clamp4(w) == Clamp(w) - (Clamp(w) % 4)

crypto_poly1305_init(key) ==
    [r |-> <<Clamp(key[1]), Clamp4(key[2]), Clamp4(key[3]), Clamp4(key[4])>>,
     pad |-> SubSeq(key, 5, 8), h |-> <<0, 0, 0, 0, 0>>, c |-> <<>>]

\* Fill up the waiting block, hash whole blocks, keep what is left.
crypto_poly1305_update(k, m) ==
    LET gap == (4 - Len(k.c)) % 4
        aligned == IF Len(m) < gap THEN Len(m) ELSE gap
        c == k.c \o SubSeq(m, 1, aligned)
        full == Len(c) = 4
        rest == SubSeq(m, aligned + 1, Len(m))
        nb_blocks == Len(rest) \div 4
        h == IF full THEN poly_block(k.h, k.r, c, 1) ELSE k.h
    IN  IF m = <<>> THEN k
        ELSE [k EXCEPT !.h = poly_blocks(h, k.r, rest, nb_blocks, 1),
                       !.c = (IF full THEN <<>> ELSE c)
                             \o SubSeq(rest, 4 * nb_blocks + 1, Len(rest))]

\* The last block gets its one behind its last word.
LastHash(k) ==
    IF k.c = <<>> THEN k.h
    ELSE poly_block(k.h, k.r, [i \in 1 .. 4 |->
            IF i <= Len(k.c) THEN k.c[i] ELSE IF i = Len(k.c) + 1 THEN 1 ELSE 0], 0)

\* The carry that adding five would leave at the top says how often the prime
\* is to be subtracted, five at the bottom each time.
Excess(h) ==
    LET c1 == High(5 + h[1])
        c2 == High(c1 + h[2])
        c3 == High(c2 + h[3])
        c4 == High(c3 + h[4])
    IN  ((c4 + h[5]) \div 4) * 5

Tag(h, pad) ==
    LET c1 == Excess(h) + h[1] + pad[1]
        c2 == High(c1) + h[2] + pad[2]
        c3 == High(c2) + h[3] + pad[3]
        c4 == High(c3) + h[4] + pad[4]
    IN  <<U32(c1), U32(c2), U32(c3), U32(c4)>>

crypto_poly1305_final(k) == Tag(LastHash(k), k.pad)

-----------------------------------------------------------------------------
Init ==
    /\ \E key \in KeyWords : ctx = crypto_poly1305_init(key)
    /\ msg = <<>> /\ mac = <<>>

Update(m) ==
    /\ mac = <<>> /\ Len(msg) + Len(m) <= MaxWords
    /\ ctx' = crypto_poly1305_update(ctx, m)
    /\ msg' = msg \o m
    /\ UNCHANGED mac

Final ==
    /\ mac = <<>>
    /\ mac' = crypto_poly1305_final(ctx)
    /\ UNCHANGED <<ctx, msg>>

Next == Final \/ \E m \in Messages : Update(m)

Spec == Init /\ [][Next]_vars

-----------------------------------------------------------------------------
(***************************************************************************)
(* The definition of the authenticator, in integers.                       *)
(***************************************************************************)
Prime == 4 * (Base * Base * Base * Base) - 5

Number(words) ==
    LET top[i \in 0 .. Len(words)] ==      \* the number of the last i words
            IF i = 0 THEN 0 ELSE words[Len(words) - i + 1] + Base * top[i - 1]
    IN  top[Len(words)]

\* a * b modulo the prime, b times a by doubling.
TimesMod(a, b) ==
    LET times[n \in 0 .. b] ==
            IF n = 0 THEN 0
            ELSE ((n % 2) * a + ((2 * times[n \div 2]) % Prime)) % Prime
    IN  times[b]

\* The value after the blocks of m, the last of which may be short.
Polynomial(m, r) ==
    LET block(i) == SubSeq(m, 4 * i - 3, IF 4 * i < Len(m) THEN 4 * i ELSE Len(m))
        upto[i \in 0 .. (Len(m) + 3) \div 4] ==
            IF i = 0 THEN 0
            ELSE TimesMod((upto[i - 1] + (Number(Append(block(i), 1)) % Prime)) % Prime,
                          Number(r))
    IN  upto[(Len(m) + 3) \div 4]

(***************************************************************************)
(* However a message is cut into calls of crypto_poly1305_update, h is the *)
(* polynomial of the blocks passed so far, with the words that fill no     *)
(* block in c, and h stays below the bound that poly_blocks states as its  *)
(* postcondition (h4 <= 4), on which the absence of overflow rests.        *)
(***************************************************************************)
AbsorbsInOrder ==
    LET whole == 4 * (Len(msg) \div 4)
    IN  /\ ctx.c = SubSeq(msg, whole + 1, Len(msg))
        /\ ctx.h[5] <= 4
        /\ Number(ctx.h) % Prime = Polynomial(SubSeq(msg, 1, whole), ctx.r)

(***************************************************************************)
(* The tag is the polynomial of the whole message modulo the prime, plus   *)
(* the second half of the key modulo Base^4: the subtraction of the prime  *)
(* in crypto_poly1305_final is made exactly when it is due.                *)
(***************************************************************************)
TagExact ==
    mac # <<>> =>
        Number(mac) = (Polynomial(msg, ctx.r) + Number(ctx.pad)) % (Base * Base * Base * Base)
=============================================================================
