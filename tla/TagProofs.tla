----------------------------- MODULE TagProofs ------------------------------
(***************************************************************************)
(* The authenticator of monocypher.c from end to end.  PolyProofs shows    *)
(* what one block and the final step do to h; here the reference is        *)
(* brought into closed form, and a message in any number of pieces is      *)
(* followed from crypto_poly1305_init to the tag.                          *)
(***************************************************************************)
EXTENDS Crypto, PolyProofs

-----------------------------------------------------------------------------
\* With this r, hashing a block keeps h in its bound and extends the polynomial.
Extends(r) ==
    /\ \A h, b : Reduced(h) /\ b \in [1 .. 4 -> Words] => Reduced(poly_block(h, r, b, 1))
    /\ \A h, pre, n, b :
        /\ pre \in Seq(Words) /\ n \in Nat /\ Len(pre) = 4 * n /\ Hashes(h, r, pre)
        /\ b \in Seq(Words) /\ Len(b) \in 1 .. 4
        => Hashes(poly_block(h, r, Padded(b), End(b)), r, pre \o b)

LEMMA ClampedExtends ==
    ASSUME NEW D \in Nat, D >= 1, Base = 64 * D, NEW r, Clamped(r, D)
    PROVE  Extends(r)
<1>1. ASSUME NEW h, Reduced(h), NEW b \in [1 .. 4 -> Words]
      PROVE  Reduced(poly_block(h, r, b, 1))
  <2>1. IsBlock(b, 1)
    BY DEF IsBlock
  <2> QED BY <1>1, <2>1, BlockExact, Zenon
<1>2. ASSUME NEW h, NEW pre, NEW n, NEW b,
             pre \in Seq(Words), n \in Nat, Len(pre) = 4 * n, Hashes(h, r, pre),
             b \in Seq(Words), Len(b) \in 1 .. 4
      PROVE  Hashes(poly_block(h, r, Padded(b), End(b)), r, pre \o b)
  BY <1>2, OneBlock, Zenon
<1> QED BY <1>1, <1>2, Zenon DEF Extends

LEMMA JoinWords ==
    \A s, t, u \in Seq(Words) : (s \o t) \o u = s \o (t \o u)
  BY ConcatAssociative

LEMMA FullBlock ==
    ASSUME NEW b \in Seq(Words), Len(b) = 4
    PROVE  Padded(b) = b /\ End(b) = 1
<1>1. b \in [1 .. 4 -> Words]
  BY LenProperties, Zenon
<1>2. Padded(b) = [i \in 1 .. 4 |-> b[i]]
  BY DEF Padded
<1> QED BY <1>1, <1>2, Zenon DEF End

\* The i-th block of in, and the first i of them.
Cut(in, i) == SubSeq(in, 4 * i - 3, 4 * i)
Upto(in, i) == SubSeq(in, 1, 4 * i)

LEMMA Cuts ==
    ASSUME NEW in \in Seq(Words), NEW n \in Nat, 4 * n <= Len(in)
    PROVE  /\ Upto(in, 0) = <<>>
           /\ \A i \in 0 .. n : Upto(in, i) \in Seq(Words) /\ Len(Upto(in, i)) = 4 * i
           /\ \A i \in 1 .. n : /\ Cut(in, i) \in Seq(Words) /\ Len(Cut(in, i)) = 4
                                /\ Upto(in, i) = Upto(in, i - 1) \o Cut(in, i)
<1> DEFINE L == Len(in)
<1>1. L \in Nat /\ in \in [1 .. L -> Words] /\ 4 * n <= L
  BY LenProperties, Zenon
<1> HIDE DEF L
<1>2. Upto(in, 0) = <<>>
  BY SubSeqEmpty DEF Upto
<1>3. ASSUME NEW i \in 0 .. n PROVE Upto(in, i) \in Seq(Words) /\ Len(Upto(in, i)) = 4 * i
  <2> DEFINE e == 4 * i
  <2>1. e \in Nat /\ \A j \in 1 .. e : in[j] \in Words
    BY <1>1
  <2>2. Upto(in, i) = SubSeq(in, 1, e)
    BY Zenon DEF Upto
  <2> HIDE DEF e
  <2>3. SubSeq(in, 1, e) \in Seq(Words) /\ Len(SubSeq(in, 1, e)) = e
    BY <2>1, SubSeqProperties
  <2> QED BY <2>2, <2>3, Zenon DEF e
<1>4. ASSUME NEW i \in 1 .. n PROVE Cut(in, i) \in Seq(Words) /\ Len(Cut(in, i)) = 4
  <2> DEFINE e == 4 * i
             a == 4 * i - 3
  <2>1. e \in Int /\ a \in Int /\ a <= e /\ e - a + 1 = 4 /\ \A j \in a .. e : in[j] \in Words
    BY <1>1
  <2>2. Cut(in, i) = SubSeq(in, a, e)
    BY Zenon DEF Cut
  <2> HIDE DEF e, a
  <2>3. SubSeq(in, a, e) \in Seq(Words) /\ Len(SubSeq(in, a, e)) = e - a + 1
    BY <2>1, SubSeqProperties
  <2> QED BY <2>1, <2>2, <2>3, Zenon
<1>5. ASSUME NEW i \in 1 .. n PROVE Upto(in, i) = Upto(in, i - 1) \o Cut(in, i)
  <2> DEFINE k == 4 * (i - 1)
             e == 4 * i
  <2>1. k \in 1 - 1 .. L /\ e \in k .. L /\ 1 \in 1 .. L + 1 /\ k + 1 = 4 * i - 3
    BY <1>1
  <2>2. SubSeq(in, 1, k) \o SubSeq(in, k + 1, e) = SubSeq(in, 1, e)
    <3> HIDE DEF k, e
    <3> QED BY <2>1, ConcatAdjacentSubSeq, Zenon DEF L
  <2> QED BY <2>1, <2>2, Zenon DEF Upto, Cut
<1> QED BY <1>2, <1>3, <1>4, <1>5, Zenon

(* poly_blocks extends the polynomial by the blocks of its input.          *)
LEMMA ManyBlocks ==
    ASSUME NEW r, Extends(r), NEW pre \in Seq(Words), NEW m \in Nat, Len(pre) = 4 * m,
           NEW h, Hashes(h, r, pre), NEW in \in Seq(Words), NEW n \in Nat, 4 * n <= Len(in)
    PROVE  Hashes(poly_blocks(h, r, in, n, 1), r, pre \o Upto(in, n))
<1> DEFINE S == {x \in [1 .. 5 -> Words] : x[5] <= 4}
           F == [p \in (1 .. n) \X S |-> poly_block(p[2], r, Cut(in, p[1]), 1)]
           After(f) == [i \in 0 .. n |->
                          IF i = 0 THEN h ELSE poly_block(f[i - 1], r, Cut(in, i), 1)]
           after == CHOOSE f : f = After(f)
           Q(i) == Hashes(after[i], r, pre \o Upto(in, i))
<1>1. \A g : g \in S <=> Reduced(g)
  BY Zenon DEF Reduced
<1>2. h \in S
  BY <1>1, Zenon DEF Hashes
<1> HIDE DEF S
<1>3. F \in [(1 .. n) \X S -> S]
  <2>1. ASSUME NEW i \in 1 .. n, NEW g \in S PROVE poly_block(g, r, Cut(in, i), 1) \in S
    <3>1. Cut(in, i) \in Seq(Words) /\ Len(Cut(in, i)) = 4
      BY Cuts, Zenon
    <3>2. Cut(in, i) \in [1 .. 4 -> Words]
      BY <3>1, LenProperties, Zenon
    <3> QED BY <1>1, <3>2, Zenon DEF Extends
  <2> QED BY <2>1, Zenon
<1>4. PICK g \in [0 .. n -> S] : Steps(g, n, h, F)
  <2> HIDE DEF F
  <2> QED BY <1>2, <1>3, StepsExist, Zenon
<1>5. g = After(g)
  <2>1. ASSUME NEW i \in 0 .. n
        PROVE  g[i] = IF i = 0 THEN h ELSE poly_block(g[i - 1], r, Cut(in, i), 1)
    <3>1. g[i] = IF i = 0 THEN h ELSE F[<<i, g[i - 1]>>]
      BY <1>4, Zenon DEF Steps
    <3>2. CASE i = 0
      BY <3>1, <3>2, Zenon
    <3>3. CASE i # 0
      <4>1. i \in 1 .. n /\ g[i - 1] \in S
        BY <3>3
      <4>2. <<i, g[i - 1]>> \in (1 .. n) \X S
        BY <4>1, Zenon
      <4>3. F[<<i, g[i - 1]>>] = poly_block(g[i - 1], r, Cut(in, i), 1)
        BY <4>2, Zenon
      <4> QED BY <3>1, <3>3, <4>3, Zenon
    <3> QED BY <3>2, <3>3, Zenon
  <2>2. g = [i \in 0 .. n |-> g[i]]
    OBVIOUS
  <2> QED BY <2>1, <2>2, Zenon
<1>6. after = After(after)
  BY <1>5, Zenon
<1> HIDE DEF after
<1>7. after[0] = h /\ \A i \in 1 .. n : after[i] = poly_block(after[i - 1], r, Cut(in, i), 1)
  BY <1>6
<1>8. poly_blocks(h, r, in, n, 1) = after[n]
  BY Zenon DEF poly_blocks, after, After, Cut
<1>9. Q(0)
  <2>1. pre \o Upto(in, 0) = pre
    BY Cuts, ConcatEmptySeq, Zenon
  <2> QED BY <1>7, <2>1, Zenon
<1>10. ASSUME NEW i \in 1 .. n, Q(i - 1) PROVE Q(i)
  <2> DEFINE p == pre \o Upto(in, i - 1)
             b == Cut(in, i)
  <2>1. i - 1 \in 0 .. n /\ m + (i - 1) \in Nat /\ 4 * m + 4 * (i - 1) = 4 * (m + (i - 1))
    OBVIOUS
  <2>2. Upto(in, i - 1) \in Seq(Words) /\ Len(Upto(in, i - 1)) = 4 * (i - 1)
    BY <2>1, Cuts, Zenon
  <2>3. p \in Seq(Words) /\ Len(p) = 4 * (m + (i - 1))
    BY <2>1, <2>2, ConcatProperties, Zenon
  <2>4. b \in Seq(Words) /\ Len(b) = 4 /\ 4 \in 1 .. 4 /\ Upto(in, i) = Upto(in, i - 1) \o b
    <3>1. 4 \in 1 .. 4
      OBVIOUS
    <3> QED BY <3>1, Cuts, Zenon
  <2>5. pre \o Upto(in, i) = p \o b
    <3>1. (pre \o Upto(in, i - 1)) \o b = pre \o (Upto(in, i - 1) \o b)
      <4>1. pre \in Seq(Words) /\ Upto(in, i - 1) \in Seq(Words) /\ b \in Seq(Words)
        BY <2>2, <2>4, Zenon
      <4> QED BY ONLY <4>1, JoinWords, Zenon
    <3> QED BY <2>4, <3>1, Zenon
  <2>6. Hashes(after[i - 1], r, p)
    BY <1>10, Zenon
  <2> HIDE DEF p, b
  <2>7. Hashes(poly_block(after[i - 1], r, Padded(b), End(b)), r, p \o b)
    BY <2>1, <2>3, <2>4, <2>6, Zenon DEF Extends
  <2>8. Padded(b) = b /\ End(b) = 1
    BY <2>4, FullBlock, Zenon
  <2>9. after[i] = poly_block(after[i - 1], r, b, 1)
    BY <1>7, Zenon DEF b
  <2> QED BY <2>5, <2>7, <2>8, <2>9, Zenon
<1> HIDE DEF Q
<1>11. \A i \in 0 .. n : Q(i)
  <2> SUFFICES ASSUME \E i \in 0 .. n : ~Q(i) PROVE FALSE
    OBVIOUS
  <2> DEFINE T == {i \in 0 .. n : ~Q(i)}
  <2>1. PICK i \in T : \A k \in T : i <= k
    <3>1. T \subseteq Nat /\ T # {}
      OBVIOUS
    <3> HIDE DEF T
    <3> QED BY <3>1, Least, Zenon
  <2>2. i \in 1 .. n /\ i - 1 \in 0 .. n /\ i - 1 \notin T
    BY <1>9, <2>1
  <2> QED BY <1>10, <2>1, <2>2, Zenon
<1> QED BY <1>8, <1>11 DEF Q

-----------------------------------------------------------------------------
\* s is cut into whole blocks, of which h is the polynomial, and less than one in c.
Standing(h, r, c, s) ==
    \E pre \in Seq(Words), n \in Nat :
        /\ Len(pre) = 4 * n /\ c \in Seq(Words) /\ Len(c) < 4
        /\ s = pre \o c /\ Hashes(h, r, pre)

LEMMA NoWords ==
    ASSUME NEW s \in Seq(Words)
    PROVE  /\ s \o <<>> = s /\ <<>> \o s = s /\ <<>> \in Seq(Words) /\ Len(<<>>) = 0
           /\ Len(s) \in Nat /\ (Len(s) = 0 => s = <<>>)
  BY ConcatEmptySeq, EmptySeq, LenProperties, Zenon

LEMMA Quotient ==
    ASSUME NEW L \in Nat
    PROVE  LET q == L \div 4 IN
           q \in Nat /\ 4 * q \in 0 .. L /\ 4 * q <= L /\ L - 4 * q < 4 /\ (L = 0 => q = 0)
  BY DivMod

(* The whole blocks of what is left are hashed, the rest waits.            *)
LEMMA LeftOver ==
    ASSUME NEW r, Extends(r), NEW pre \in Seq(Words), NEW n \in Nat, Len(pre) = 4 * n,
           NEW h, Hashes(h, r, pre), NEW c \in Seq(Words), Len(c) < 4,
           NEW rest \in Seq(Words), c = <<>> \/ rest = <<>>
    PROVE  LET nb == Len(rest) \div 4
           IN  Standing(poly_blocks(h, r, rest, nb, 1), r,
                        c \o SubSeq(rest, 4 * nb + 1, Len(rest)), (pre \o c) \o rest)
<1> DEFINE L == Len(rest)
           nb == L \div 4
           e == 4 * nb
           u == Upto(rest, nb)
           t == SubSeq(rest, e + 1, L)
           g == poly_blocks(h, r, rest, nb, 1)
           w == pre \o u
<1>1. L \in Nat
  BY LenProperties, Zenon
<1>2. nb \in Nat /\ e \in 0 .. L /\ e <= L /\ L - e < 4 /\ (L = 0 => nb = 0)
  BY <1>1, Quotient, Zenon
<1>3. u \in Seq(Words) /\ Len(u) = e
  <2>1. nb \in 0 .. nb
    BY <1>2
  <2> HIDE DEF nb
  <2> QED BY <1>2, <2>1, Cuts, Zenon
<1>4. Hashes(g, r, w)
  <2> HIDE DEF nb
  <2> QED BY <1>2, ManyBlocks, Zenon
<1>5. t \in Seq(Words) /\ Len(t) = L - e
  <2>1. \A i \in e + 1 .. L : rest[i] \in Words
    <3>1. rest \in [1 .. L -> Words]
      BY LenProperties, Zenon
    <3> HIDE DEF L, nb
    <3> QED BY <1>1, <1>2, <3>1
  <2> HIDE DEF L, e
  <2>2. e + 1 \in Int /\ L \in Int /\ (IF e + 1 <= L THEN L - (e + 1) + 1 ELSE 0) = L - e
    BY <1>1, <1>2
  <2> QED BY <2>1, <2>2, SubSeqProperties
<1>6. u \o t = rest
  <2>1. SubSeq(rest, 1, e) \o SubSeq(rest, e + 1, L) = SubSeq(rest, 1, L)
    <3>1. e \in 1 - 1 .. L /\ L \in e .. L /\ 1 \in 1 .. L + 1
      <4> HIDE DEF L, e
      <4> QED BY <1>1, <1>2
    <3> HIDE DEF e
    <3> QED BY <3>1, ConcatAdjacentSubSeq
  <2>2. SubSeq(rest, 1, L) = rest
    BY SubSeqFull, Zenon
  <2> QED BY <2>1, <2>2, Zenon DEF Upto
<1>7. w \in Seq(Words) /\ Len(w) = 4 * (n + nb) /\ n + nb \in Nat
  <2>1. w \in Seq(Words) /\ Len(w) = Len(pre) + Len(u)
    BY <1>3, ConcatProperties, Zenon
  <2> HIDE DEF w, u, nb
  <2> QED BY <1>2, <1>3, <2>1
<1> HIDE DEF nb, u, t, g
<1>8. CASE c = <<>>
  <2>1. c \o t = t /\ pre \o c = pre
    BY <1>5, <1>8, NoWords, Zenon
  <2>2. pre \o rest = w \o t
    <3>1. (pre \o u) \o t = pre \o (u \o t)
      BY ONLY <1>3, <1>5, JoinWords, Zenon
    <3> QED BY <1>6, <3>1, Zenon
  <2>3. Len(t) < 4
    BY <1>2, <1>5, Zenon
  <2> HIDE DEF w
  <2>4. Standing(g, r, t, pre \o rest)
    BY <1>4, <1>5, <1>7, <2>2, <2>3, Zenon DEF Standing
  <2> QED BY <2>1, <2>4, Zenon DEF t, g, nb
<1>9. CASE rest = <<>>
  <2>1. L = 0
    BY <1>9, NoWords, Zenon
  <2>2. Len(u) = 0 /\ Len(t) = 0
    <3> HIDE DEF L
    <3>1. nb = 0
      BY <1>2, <2>1, Zenon
    <3>2. e = 0 /\ L - e = 0
      BY <2>1, <3>1
    <3> QED BY <1>3, <1>5, <3>2, Zenon
  <2>3. u = <<>> /\ t = <<>>
    BY <1>3, <1>5, <2>2, NoWords, Zenon
  <2>4. c \o t = c /\ w = pre /\ (pre \o c) \o rest = pre \o c
    <3>1. pre \o c \in Seq(Words)
      BY ConcatProperties, Zenon
    <3> QED BY <1>9, <2>3, <3>1, NoWords, Zenon
  <2>5. Standing(g, r, c, pre \o c)
    BY <1>4, <2>4, Zenon DEF Standing
  <2> QED BY <2>4, <2>5, Zenon DEF t, g, nb
<1> QED BY <1>8, <1>9, Zenon

\* The words that fill up the waiting block.
LEMMA Gaps ==
    ASSUME NEW l \in 0 .. 3, NEW L \in Nat, L # 0
    PROVE  LET gap == (4 - l) % 4
               a == IF L < gap THEN L ELSE gap
           IN  /\ a \in 0 .. L /\ l + a \in 0 .. 4
               /\ l + a # 4 => (l = 0 /\ a = 0) \/ a = L
<1>1. (4 - l) % 4 = IF l = 0 THEN 0 ELSE 4 - l
  <2>1. CASE l = 0
    BY <2>1
  <2>2. CASE l = 1
    BY <2>2
  <2>3. CASE l = 2
    BY <2>3
  <2>4. CASE l = 3
    BY <2>4
  <2> QED BY <2>1, <2>2, <2>3, <2>4
<1> DEFINE gap == (4 - l) % 4
<1>2. gap = IF l = 0 THEN 0 ELSE 4 - l
  BY <1>1, Zenon
<1> HIDE DEF gap
<1>3. LET a == IF L < gap THEN L ELSE gap
      IN  /\ a \in 0 .. L /\ l + a \in 0 .. 4
          /\ l + a # 4 => (l = 0 /\ a = 0) \/ a = L
  BY <1>2
<1> QED BY <1>3, Zenon DEF gap

(* crypto_poly1305_update, however the message is cut.                     *)
LEMMA UpdateStands ==
    ASSUME NEW k, k = [r |-> k.r, pad |-> k.pad, h |-> k.h, c |-> k.c], Extends(k.r),
           NEW s \in Seq(Words), Standing(k.h, k.r, k.c, s), NEW m \in Seq(Words)
    PROVE  LET j == crypto_poly1305_update(k, m)
           IN  /\ j = [r |-> k.r, pad |-> k.pad, h |-> j.h, c |-> j.c]
               /\ Standing(j.h, k.r, j.c, s \o m)
<1> DEFINE j == crypto_poly1305_update(k, m)
           L == Len(m)
           l == Len(k.c)
           gap == (4 - l) % 4
           a == IF L < gap THEN L ELSE gap
           front == SubSeq(m, 1, a)
           c1 == k.c \o front
           full == Len(c1) = 4
           rest == SubSeq(m, a + 1, L)
           h1 == IF full THEN poly_block(k.h, k.r, c1, 1) ELSE k.h
           c0 == IF full THEN <<>> ELSE c1
           nb == Len(rest) \div 4
           h2 == poly_blocks(h1, k.r, rest, nb, 1)
           c2 == c0 \o SubSeq(rest, 4 * nb + 1, Len(rest))
<1>1. CASE m = <<>>
  <2>1. j = k
    BY <1>1, Zenon DEF crypto_poly1305_update
  <2>2. s \o m = s
    BY <1>1, NoWords, Zenon
  <2> QED BY <2>1, <2>2, Zenon
<1>2. CASE m # <<>>
  <2>1. j = [k EXCEPT !.h = h2, !.c = c2]
    BY <1>2, Zenon DEF crypto_poly1305_update
  <2>2. PICK pre \in Seq(Words), n \in Nat :
            /\ Len(pre) = 4 * n /\ k.c \in Seq(Words) /\ Len(k.c) < 4
            /\ s = pre \o k.c /\ Hashes(k.h, k.r, pre)
    BY Zenon DEF Standing
  <2>3. L \in Nat /\ L # 0 /\ l \in 0 .. 3
    <3>1. L \in Nat /\ L # 0
      BY <1>2, NoWords, Zenon
    <3>2. Len(k.c) \in Nat
      BY <2>2, LenProperties, Zenon
    <3>3. ASSUME NEW x \in Nat, x < 4 PROVE x \in 0 .. 3
      BY <3>3, SMT
    <3> QED BY <2>2, <3>1, <3>2, <3>3, Zenon
  <2>4. /\ a \in 0 .. L /\ l + a \in 0 .. 4
        /\ l + a # 4 => (l = 0 /\ a = 0) \/ a = L
    <3> HIDE DEF l, L
    <3> QED BY <2>3, Gaps, Zenon
  <2> HIDE DEF a
  <2>5. front \in Seq(Words) /\ Len(front) = a /\ rest \in Seq(Words) /\ Len(rest) = L - a
    <3>1. m \in [1 .. L -> Words]
      BY LenProperties, Zenon
    <3> HIDE DEF L, l
    <3>2. (\A i \in 1 .. a : m[i] \in Words) /\ (\A i \in a + 1 .. L : m[i] \in Words)
      BY <2>3, <2>4, <3>1
    <3>3. /\ a \in Int /\ a + 1 \in Int /\ L \in Int /\ 1 \in Int
          /\ (IF 1 <= a THEN a - 1 + 1 ELSE 0) = a
          /\ (IF a + 1 <= L THEN L - (a + 1) + 1 ELSE 0) = L - a
      BY <2>3, <2>4
    <3> QED BY <3>2, <3>3, SubSeqProperties
  <2>6. front \o rest = m
    <3>1. SubSeq(m, 1, a) \o SubSeq(m, a + 1, L) = SubSeq(m, 1, L)
      <4>1. a \in 1 - 1 .. L /\ L \in a .. L /\ 1 \in 1 .. L + 1
        <5> HIDE DEF L
        <5> QED BY <2>3, <2>4
      <4> QED BY <4>1, ConcatAdjacentSubSeq, Zenon
    <3>2. SubSeq(m, 1, L) = m
      BY SubSeqFull, Zenon
    <3> QED BY <3>1, <3>2, Zenon
  <2>7. c1 \in Seq(Words) /\ Len(c1) = l + a
    BY <2>2, <2>5, ConcatProperties
  <2>8. s \o m = (pre \o c1) \o rest
    <3>1. (s \o front) \o rest = s \o (front \o rest)
      BY ONLY <2>5, s \in Seq(Words), JoinWords, Zenon
    <3>2. (pre \o k.c) \o front = pre \o (k.c \o front)
      BY ONLY <2>2, <2>5, pre \in Seq(Words), JoinWords, Zenon
    <3> QED BY <2>2, <2>6, <3>1, <3>2, Zenon
  <2> HIDE DEF front, rest
  <2>9. Standing(h2, k.r, c2, s \o m)
    <3>1. CASE full
      <4> DEFINE p == pre \o c1
      <4>1. p \in Seq(Words) /\ Len(p) = 4 * (n + 1) /\ n + 1 \in Nat
        <5>1. p \in Seq(Words) /\ Len(p) = Len(pre) + Len(c1)
          BY <2>7, ConcatProperties, Zenon
        <5> HIDE DEF p, c1
        <5> QED BY <2>2, <3>1, <5>1
      <4>2. Hashes(h1, k.r, p)
        <5>1. Padded(c1) = c1 /\ End(c1) = 1
          BY <2>7, <3>1, FullBlock, Zenon
        <5>2. 4 \in 1 .. 4
          OBVIOUS
        <5> HIDE DEF c1
        <5>3. Hashes(poly_block(k.h, k.r, Padded(c1), End(c1)), k.r, p)
          BY <2>2, <2>7, <3>1, <5>2, Zenon DEF Extends
        <5> QED BY <3>1, <5>1, <5>3, Zenon
      <4>3. c0 = <<>> /\ <<>> \in Seq(Words) /\ Len(<<>>) < 4 /\ p \o <<>> = p
        BY <3>1, <4>1, NoWords
      <4> HIDE DEF p, c1, h1, c0
      <4>4. Standing(h2, k.r, c2, (p \o c0) \o rest)
        BY <2>5, <4>1, <4>2, <4>3, LeftOver, Zenon
      <4> QED BY <2>8, <4>3, <4>4, Zenon DEF p
    <3>2. CASE ~full
      <4>1. c0 = c1 /\ h1 = k.h
        BY <3>2, Zenon
      <4>2. Len(c1) < 4
        <5> HIDE DEF c1, l
        <5> QED BY <2>4, <2>7, <3>2
      <4>3. c1 = <<>> \/ rest = <<>>
        <5>1. Len(c1) = 0 \/ Len(rest) = 0
          <6> HIDE DEF c1, l, L
          <6> QED BY <2>3, <2>4, <2>5, <2>7, <3>2
        <5> QED BY <2>5, <2>7, <5>1, NoWords, Zenon
      <4> HIDE DEF c1, c0, h1
      <4>4. Standing(h2, k.r, c2, (pre \o c0) \o rest)
        BY <2>2, <2>5, <2>7, <4>1, <4>2, <4>3, LeftOver, Zenon
      <4> QED BY <2>8, <4>1, <4>4, Zenon
    <3> QED BY <3>1, <3>2, Zenon
  <2> HIDE DEF h2, c2
  <2>10. j = [r |-> k.r, pad |-> k.pad, h |-> h2, c |-> c2]
    BY <2>1, Zenon
  <2> HIDE DEF j
  <2>11. j.h = h2 /\ j.c = c2
    BY <2>10, Zenon
  <2> QED BY <2>9, <2>10, <2>11, Zenon DEF j
<1> QED BY <1>1, <1>2, Zenon

(* The last block, short or not there at all.                              *)
LEMMA LastStands ==
    ASSUME NEW k, Extends(k.r), NEW s \in Seq(Words), Standing(k.h, k.r, k.c, s)
    PROVE  Hashes(LastHash(k), k.r, s)
<1>1. PICK pre \in Seq(Words), n \in Nat :
            /\ Len(pre) = 4 * n /\ k.c \in Seq(Words) /\ Len(k.c) < 4
            /\ s = pre \o k.c /\ Hashes(k.h, k.r, pre)
  BY Zenon DEF Standing
<1>2. CASE k.c = <<>>
  <2>1. pre \o k.c = pre
    BY <1>2, NoWords, Zenon
  <2>2. LastHash(k) = k.h
    BY <1>2, Zenon DEF LastHash
  <2> QED BY <1>1, <2>1, <2>2, Zenon
<1>3. CASE k.c # <<>>
  <2>1. Len(k.c) \in 1 .. 4 /\ Len(k.c) # 4
    <3>1. Len(k.c) \in Nat /\ Len(k.c) # 0
      BY <1>1, <1>3, NoWords, Zenon
    <3>2. ASSUME NEW x \in Nat, x # 0, x < 4 PROVE x \in 1 .. 4 /\ x # 4
      BY <3>2, SMT
    <3> QED BY <1>1, <3>1, <3>2, Zenon
  <2>2. LastHash(k) = poly_block(k.h, k.r, Padded(k.c), 0)
    BY <1>3, Zenon DEF LastHash, Padded
  <2>3. End(k.c) = 0
    BY <2>1, Zenon DEF End
  <2>4. Hashes(poly_block(k.h, k.r, Padded(k.c), End(k.c)), k.r, pre \o k.c)
    BY <1>1, <2>1, Zenon DEF Extends
  <2> QED BY <1>1, <2>2, <2>3, <2>4, Zenon
<1> QED BY <1>2, <1>3, Zenon

LEMMA TagWords ==
    ASSUME Base \in Nat, Base >= 64, NEW h, Reduced(h), NEW pad \in [1 .. 4 -> Words]
    PROVE  Tag(h, pad) \in [1 .. 4 -> Nat]
<1> DEFINE c1 == Excess(h) + h[1] + pad[1]
           c2 == High(c1) + h[2] + pad[2]
           c3 == High(c2) + h[3] + pad[3]
           c4 == High(c3) + h[4] + pad[4]
<1>1. /\ h[1] \in Nat /\ h[2] \in Nat /\ h[3] \in Nat /\ h[4] \in Nat
      /\ pad[1] \in Nat /\ pad[2] \in Nat /\ pad[3] \in Nat /\ pad[4] \in Nat
  BY DEF Reduced, Words
<1>2. Excess(h) \in Nat
  <2>1. Excess(h) \in {0, 5}
    BY FinalExact, Zenon
  <2> QED BY <2>1
<1>3. c1 \in Nat
  BY <1>1, <1>2
<1>4. High(c1) \in Nat /\ U32(c1) \in Nat
  <2> HIDE DEF c1
  <2> QED BY <1>3, Split, Zenon
<1> HIDE DEF c1
<1>5. c2 \in Nat
  BY <1>1, <1>4
<1>6. High(c2) \in Nat /\ U32(c2) \in Nat
  <2> HIDE DEF c2
  <2> QED BY <1>5, Split, Zenon
<1> HIDE DEF c2
<1>7. c3 \in Nat
  BY <1>1, <1>6
<1>8. High(c3) \in Nat /\ U32(c3) \in Nat
  <2> HIDE DEF c3
  <2> QED BY <1>7, Split, Zenon
<1> HIDE DEF c3
<1>9. c4 \in Nat
  BY <1>1, <1>8
<1>10. U32(c4) \in Nat
  <2> HIDE DEF c4
  <2> QED BY <1>9, Split, Zenon
<1> HIDE DEF c4
<1>11. Tag(h, pad) = <<U32(c1), U32(c2), U32(c3), U32(c4)>>
  BY Zenon DEF Tag, c1, c2, c3, c4
<1> QED BY <1>4, <1>6, <1>8, <1>10, <1>11

(* crypto_poly1305_final.                                                  *)
LEMMA FinalStands ==
    ASSUME Base \in Nat, Base >= 64, NEW k, Extends(k.r), k.pad \in [1 .. 4 -> Words],
           NEW s \in Seq(Words), Standing(k.h, k.r, k.c, s)
    PROVE  Number(crypto_poly1305_final(k))
            = (Polynomial(s, k.r) + Number(k.pad)) % (Base * Base * Base * Base)
<1> DEFINE h == LastHash(k)
           p == k.pad
<1>1. Reduced(h) /\ Number(h) % Prime = Polynomial(s, k.r)
  BY LastStands, Zenon DEF Hashes
<1>2. p \in [1 .. 4 -> Words] /\ p \in [1 .. 4 -> Nat]
  BY Zenon DEF Words
<1>3. crypto_poly1305_final(k) = Tag(h, p)
  BY Zenon DEF crypto_poly1305_final
<1> HIDE DEF h, p
<1>4. Value4(Tag(h, p)) = ((Value5(h) % Prime) + Value4(p)) % (Base * Base * Base * Base)
  BY <1>1, <1>2, FinalExact, Zenon
<1>5. Number(h) = Value5(h)
  BY <1>1, Five, Zenon
<1>6. Number(p) = Value4(p)
  BY <1>2, ValuesAreNumbers, Zenon
<1>7. Number(Tag(h, p)) = Value4(Tag(h, p))
  BY <1>1, <1>2, TagWords, ValuesAreNumbers, Zenon
<1> QED BY <1>1, <1>3, <1>4, <1>5, <1>6, <1>7, Zenon DEF p

-----------------------------------------------------------------------------
\* AbsorbsInOrder and TagExact with what they rest on: r is clamped, pad and
\* message are words.
PolyInv ==
    /\ ctx = [r |-> ctx.r, pad |-> ctx.pad, h |-> ctx.h, c |-> ctx.c]
    /\ Clamped(ctx.r, Base \div 64) /\ ctx.pad \in [1 .. 4 -> Words]
    /\ msg \in Seq(Words) /\ Standing(ctx.h, ctx.r, ctx.c, msg)
    /\ TagExact

LEMMA WordSize ==
    /\ Base \in Nat /\ Base >= 64 /\ Base \div 64 \in Nat /\ Base \div 64 >= 1
    /\ Base = 64 * (Base \div 64)
    /\ 0 .. Base - 1 = Words
<1>1. Base \in Nat /\ Base # 0 /\ Base % 64 = 0
  BY WordsAssumption, Zenon
<1> DEFINE q == Base \div 64
<1>2. q \in Nat /\ Base = 64 * q + (Base % 64)
  BY <1>1, DivMod
<1> HIDE DEF q
<1>3. q >= 1 /\ Base = 64 * q /\ Base >= 64
  BY <1>1, <1>2
<1>4. 0 .. Base - 1 = Words
  BY <1>1 DEF Words
<1> QED BY <1>1, <1>2, <1>3, <1>4, Zenon DEF q

LEMMA StandsInOrder ==
    ASSUME NEW h, NEW r, NEW c, NEW s \in Seq(Words), Standing(h, r, c, s)
    PROVE  LET whole == 4 * (Len(s) \div 4)
           IN  /\ c = SubSeq(s, whole + 1, Len(s)) /\ h[5] <= 4
               /\ Number(h) % Prime = Polynomial(SubSeq(s, 1, whole), r)
<1>1. PICK pre \in Seq(Words), n \in Nat :
            /\ Len(pre) = 4 * n /\ c \in Seq(Words) /\ Len(c) < 4
            /\ s = pre \o c /\ Hashes(h, r, pre)
  BY Zenon DEF Standing
<1> DEFINE L == Len(s)
           l == Len(c)
           w == 4 * (L \div 4)
<1>2. l \in Nat /\ l < 4 /\ L = 4 * n + l
  <2>1. l \in Nat /\ l < 4
    BY <1>1, LenProperties, Zenon
  <2>2. L = Len(pre) + Len(c)
    BY <1>1, ConcatProperties, Zenon
  <2> QED BY <1>1, <2>1, <2>2, Zenon
<1>3. w = 4 * n
  <2> HIDE DEF L, l
  <2>1. L \div 4 = n
    BY <1>2
  <2> QED BY <2>1, Zenon
<1>4. SubSeq(s, 1, 4 * n) = pre
  <2>1. SubSeq(pre, 1, 4 * n) = pre
    BY <1>1, SubSeqFull, Zenon
  <2>2. CASE n = 0
    <3>1. pre = <<>> /\ 4 * n = 0
      BY <1>1, <2>2, NoWords
    <3>2. SubSeq(s, 1, 0) = <<>>
      BY SubSeqEmpty
    <3> QED BY <3>1, <3>2, Zenon
  <2>3. CASE n # 0
    <3> DEFINE e == 4 * n
    <3>1. 1 \in 1 .. e /\ e \in 1 .. e
      BY <2>3
    <3> HIDE DEF e
    <3>2. SubSeq(pre \o c, 1, e) = SubSeq(pre, 1, e)
      <4>1. Len(pre) = e
        BY <1>1, Zenon DEF e
      <4> QED BY <1>1, <3>1, <4>1, SubSeqOfConcat1, Zenon
    <3> QED BY <1>1, <2>1, <3>2, Zenon DEF e
  <2> QED BY <2>2, <2>3, Zenon
<1>5. SubSeq(s, 4 * n + 1, L) = c
  <2>1. CASE l = 0
    <3>1. c = <<>>
      BY <1>1, <2>1, NoWords, Zenon
    <3>2. 4 * n + 1 \in Int /\ L \in Int /\ L < 4 * n + 1
      <4> HIDE DEF L, l
      <4> QED BY <1>2, <2>1
    <3> QED BY <3>1, <3>2, SubSeqEmpty, Zenon
  <2>2. CASE l # 0
    <3>1. l \in 1 .. 4
      <4> HIDE DEF l, L
      <4> QED BY <1>2, <2>2
    <3>2. L = Len(pre) + l
      BY <1>1, <1>2, Zenon
    <3>3. Laid(Len(pre), l, L, n)
      BY <1>1, <3>1, <3>2, LaidOut, Zenon
    <3> DEFINE lo == Len(pre) + 1
               hi == L
    <3>4. lo \in Len(pre) + 1 .. Len(pre) + Len(c) /\ hi \in Len(pre) + 1 .. Len(pre) + Len(c)
          /\ lo - Len(pre) = 1 /\ hi - Len(pre) = Len(c)
      BY <3>3, Zenon DEF Laid
    <3> HIDE DEF lo, hi
    <3>5. SubSeq(pre \o c, lo, hi) = SubSeq(c, lo - Len(pre), hi - Len(pre))
      BY <1>1, <3>4, SubSeqOfConcat2
    <3>6. SubSeq(c, 1, Len(c)) = c
      BY <1>1, SubSeqFull, Zenon
    <3> QED BY <1>1, <3>4, <3>5, <3>6, Zenon DEF lo, hi
  <2> QED BY <2>1, <2>2, Zenon
<1>6. h[5] <= 4 /\ Number(h) % Prime = Polynomial(pre, r)
  BY <1>1, Zenon DEF Hashes, Reduced
<1> QED BY <1>3, <1>4, <1>5, <1>6, Zenon

LEMMA InitStands ==
    ASSUME NEW key \in [1 .. 8 -> 0 .. Base - 1]
    PROVE  LET k == crypto_poly1305_init(key)
           IN  /\ k = [r |-> k.r, pad |-> k.pad, h |-> k.h, c |-> k.c]
               /\ Clamped(k.r, Base \div 64) /\ k.pad \in [1 .. 4 -> Words]
               /\ <<>> \in Seq(Words) /\ Standing(k.h, k.r, k.c, <<>>)
<1> DEFINE k == crypto_poly1305_init(key)
           D == Base \div 64
           z == <<0, 0, 0, 0, 0>>
<1>0. key \in [1 .. 8 -> Words] /\ key \in [1 .. 8 -> Nat]
  <2>1. Words \subseteq Nat
    BY Zenon DEF Words
  <2> QED BY <2>1, WordSize, Zenon
<1>1. Clamped(k.r, D) /\ Reduced(k.h)
  BY <1>0, WordSize, InitClamped, Zenon
<1>2. k.pad = SubSeq(key, 5, 8) /\ k.h = z /\ k.c = <<>>
      /\ k = [r |-> k.r, pad |-> k.pad, h |-> k.h, c |-> k.c]
  BY Zenon DEF crypto_poly1305_init
<1>3. SubSeq(key, 5, 8) \in [1 .. 4 -> Words]
  <2>1. \A i \in 5 .. 8 : key[i] \in Words
    BY <1>0
  <2>2. SubSeq(key, 5, 8) \in Seq(Words) /\ Len(SubSeq(key, 5, 8)) = 4
    BY <2>1, SubSeqProperties
  <2> QED BY <2>2, LenProperties, Zenon
<1> HIDE DEF k
<1>4. Hashes(z, k.r, <<>>)
  <2>1. Reduced(z)
    BY <1>1, <1>2, Zenon
  <2>2. Value5(z) = 0
    BY WordSize DEF Value5
  <2>3. Number(z) = 0
    BY <2>1, <2>2, WordSize, Five, Zenon
  <2>4. k.r \in [1 .. 4 -> Nat]
    BY <1>1, Zenon DEF Clamped
  <2>5. Polynomial(<<>>, k.r) = 0
    BY <2>4, WordSize, PolynomialEmpty, Zenon
  <2>6. 0 % Prime = 0
    BY PrimeLarge, WordSize
  <2> QED BY <2>1, <2>3, <2>5, <2>6, Zenon DEF Hashes
<1>5. <<>> \in Seq(Words) /\ Len(<<>>) = 0 /\ <<>> \o <<>> = <<>>
  BY EmptySeq, ConcatEmptySeq, Zenon
<1>6. Standing(z, k.r, <<>>, <<>>)
  <2>1. Len(<<>>) = 4 * 0 /\ Len(<<>>) < 4 /\ 0 \in Nat
    BY <1>5
  <2> QED BY <1>4, <1>5, <2>1, Zenon DEF Standing
<1> QED BY <1>1, <1>2, <1>3, <1>5, <1>6, Zenon DEF k

LEMMA InvAtInit ==
    Init => PolyInv
<1> SUFFICES ASSUME Init PROVE PolyInv
  OBVIOUS
<1>1. PICK key \in KeyWords : ctx = crypto_poly1305_init(key)
  BY Zenon DEF Init
<1>2. msg = <<>> /\ mac = <<>>
  BY Zenon DEF Init
<1>3. key \in [1 .. 8 -> 0 .. Base - 1]
  BY <1>1, WordsAssumption, Zenon
<1>4. /\ ctx = [r |-> ctx.r, pad |-> ctx.pad, h |-> ctx.h, c |-> ctx.c]
      /\ Clamped(ctx.r, Base \div 64) /\ ctx.pad \in [1 .. 4 -> Words]
      /\ <<>> \in Seq(Words) /\ Standing(ctx.h, ctx.r, ctx.c, <<>>)
  BY <1>1, <1>3, InitStands, Zenon
<1> QED BY <1>2, <1>4, Zenon DEF PolyInv, TagExact

LEMMA InvStep ==
    PolyInv /\ Next => PolyInv'
<1> SUFFICES ASSUME PolyInv, Next PROVE PolyInv'
  OBVIOUS
<1>1. /\ ctx = [r |-> ctx.r, pad |-> ctx.pad, h |-> ctx.h, c |-> ctx.c]
      /\ Clamped(ctx.r, Base \div 64) /\ ctx.pad \in [1 .. 4 -> Words]
      /\ msg \in Seq(Words) /\ Standing(ctx.h, ctx.r, ctx.c, msg)
  BY Zenon DEF PolyInv
<1>2. Extends(ctx.r)
  BY <1>1, WordSize, ClampedExtends, Zenon
<1>3. CASE Final
  <2>1. mac' = crypto_poly1305_final(ctx) /\ ctx' = ctx /\ msg' = msg
    BY <1>3, Zenon DEF Final
  <2>2. Number(crypto_poly1305_final(ctx))
            = (Polynomial(msg, ctx.r) + Number(ctx.pad)) % (Base * Base * Base * Base)
    BY <1>1, <1>2, WordSize, FinalStands, Zenon
  <2>3. TagExact'
    BY <2>1, <2>2, Zenon DEF TagExact
  <2> QED BY <1>1, <2>1, <2>3, Zenon DEF PolyInv
<1>4. ASSUME NEW m \in Messages, Update(m) PROVE PolyInv'
  <2>1. mac' = <<>> /\ ctx' = crypto_poly1305_update(ctx, m) /\ msg' = msg \o m
    BY <1>4, Zenon DEF Update
  <2>2. m \in Seq(Words)
    <3>1. m \in Seq(0 .. Base - 1)
      BY WordsAssumption, Zenon
    <3> QED BY <3>1, WordSize, Zenon
  <2>3. /\ ctx' = [r |-> ctx.r, pad |-> ctx.pad, h |-> ctx'.h, c |-> ctx'.c]
        /\ Standing(ctx'.h, ctx.r, ctx'.c, msg')
    <3> DEFINE j == crypto_poly1305_update(ctx, m)
    <3>1. /\ j = [r |-> ctx.r, pad |-> ctx.pad, h |-> j.h, c |-> j.c]
          /\ Standing(j.h, ctx.r, j.c, msg \o m)
      BY <1>1, <1>2, <2>2, UpdateStands, Zenon
    <3> HIDE DEF j
    <3>2. ctx' = j
      BY <2>1, Zenon DEF j
    <3> QED BY <2>1, <3>1, <3>2, Zenon
  <2>4. ctx'.r = ctx.r /\ ctx'.pad = ctx.pad
    BY <2>3
  <2>5. msg' \in Seq(Words)
    BY <1>1, <2>1, <2>2, ConcatProperties, Zenon
  <2>6. TagExact'
    BY <2>1, Zenon DEF TagExact
  <2> QED BY <1>1, <2>3, <2>4, <2>5, <2>6, Zenon DEF PolyInv
<1> QED BY <1>3, <1>4, Zenon DEF Next

LEMMA InvGives ==
    PolyInv => AbsorbsInOrder /\ TagExact
<1> SUFFICES ASSUME PolyInv PROVE AbsorbsInOrder /\ TagExact
  OBVIOUS
<1>1. msg \in Seq(Words) /\ Standing(ctx.h, ctx.r, ctx.c, msg) /\ TagExact
  BY Zenon DEF PolyInv
<1> QED BY <1>1, StandsInOrder, Zenon DEF AbsorbsInOrder

(***************************************************************************)
(* However a message is cut into calls of crypto_poly1305_update, h is the *)
(* polynomial of its whole blocks, in the bound poly_blocks states, and    *)
(* crypto_poly1305_final gives the polynomial of the whole message plus    *)
(* the pad: for every key, every sequence of pieces of any length, and     *)
(* words of any size that is a multiple of 64.                             *)
(***************************************************************************)
THEOREM TagCorrectAlways == CryptoSpec => []TagCorrect
<1> DEFINE I == part = "poly" => PolyInv
<1>1. CryptoInit => I
  <2> SUFFICES ASSUME CryptoInit, part = "poly" PROVE PolyInv
    OBVIOUS
  <2>1. Init
    BY Zenon DEF CryptoInit
  <2> QED BY <2>1, InvAtInit, Zenon
<1>2. I /\ [CryptoNext]_cryptoVars => I'
  <2> SUFFICES ASSUME I, [CryptoNext]_cryptoVars, part' = "poly" PROVE PolyInv'
    OBVIOUS
  <2>1. CASE UNCHANGED cryptoVars
    <3>1. part' = part /\ ctx' = ctx /\ msg' = msg /\ mac' = mac
      BY <2>1, Zenon DEF cryptoVars, vars
    <3>2. PolyInv
      BY <3>1, Zenon
    <3> QED BY <3>1, <3>2, Zenon DEF PolyInv, TagExact
  <2>2. CASE CryptoNext
    <3>1. part' = part /\ part = "poly"
      BY <2>2, Zenon DEF CryptoNext
    <3>2. Next
      BY <2>2, <3>1, Zenon DEF CryptoNext
    <3> QED BY <3>1, <3>2, InvStep, Zenon
  <2> QED BY <2>1, <2>2, Zenon
<1>3. I => TagCorrect
  BY InvGives, Zenon DEF TagCorrect
<1> QED BY <1>1, <1>2, <1>3, PTL DEF CryptoSpec
=============================================================================
