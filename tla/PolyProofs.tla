----------------------------- MODULE PolyProofs -----------------------------
(***************************************************************************)
(* What poly_blocks of monocypher.c states in comments: no step of it      *)
(* overflows, its postcondition follows from its preconditions, and it     *)
(* multiplies modulo the prime; and that the final step reduces and adds   *)
(* the pad exactly.  Proved for every word size that is a multiple of 64   *)
(* (2^32 in the code): Base = 64 * D.                                      *)
(*                                                                         *)
(* Then the reference: TimesMod is multiplication modulo the prime, the    *)
(* polynomial grows by one step per block, and hashing a block, full or    *)
(* short, is that step.  TagProofs follows a whole message.                *)
(***************************************************************************)
EXTENDS Poly1305, FiniteSetTheorems, SequenceTheorems, TLAPS

Words == {w \in Nat : w < Base}

\* ctx->h <= 4_ffffffff_ffffffff_ffffffff_ffffffff
Reduced(h) == h \in [1 .. 5 -> Words] /\ h[5] <= 4

-----------------------------------------------------------------------------
LEMMA MulBound ==
    ASSUME NEW a \in Nat, NEW b \in Nat, NEW A \in Nat, NEW B \in Nat,
           a <= A, b <= B
    PROVE  a * b \in Nat /\ a * b <= A * B
<1>1. a * b <= A * b
  BY SMT
<1>2. A * b <= A * B
  BY SMT
<1> QED
  BY <1>1, <1>2, SMT

LEMMA DivMod ==
    ASSUME NEW n \in Nat, NEW B \in Nat, B > 0
    PROVE  /\ n \div B \in Nat /\ n % B \in Nat /\ n % B < B
           /\ n = B * (n \div B) + (n % B)
  BY SMT

\* A quotient below a bound, and a remainder that is the number itself.
LEMMA DivBound ==
    ASSUME NEW n \in Nat, NEW B \in Nat, B > 0, NEW C \in Nat, n < B * C
    PROVE  n \div B < C
<1> DEFINE q == n \div B
           m == n % B
<1>1. q \in Nat /\ m \in Nat /\ n = B * q + m
  BY DivMod
<1> HIDE DEF q, m
<1>2. SUFFICES ASSUME q >= C PROVE FALSE
  BY <1>1, SMT DEF q
<1>3. B * C <= B * q
  BY <1>1, <1>2, MulBound
<1> QED
  BY <1>1, <1>3, SMT

LEMMA ModSmall ==
    ASSUME NEW n \in Nat, NEW B \in Nat, n < B
    PROVE  n % B = n
<1>1. n \div B < 1
  BY DivBound, SMT
<1>2. n \div B = 0
  BY <1>1, DivMod, SMT
<1> QED
  BY <1>2, DivMod, SMT

-----------------------------------------------------------------------------
LEMMA Split ==
    ASSUME Base \in Nat, Base >= 64, NEW n \in Nat
    PROVE  /\ High(n) \in Nat /\ U32(n) \in Nat /\ U32(n) < Base
           /\ n = Base * High(n) + U32(n)
  BY DivMod, SMT DEF High, U32

LEMMA Fits ==
    ASSUME Base \in Nat, Base >= 64, NEW n \in Nat
    PROVE  /\ n < Base => U32(n) = n
           /\ n < Base * Base => U64(n) = n /\ High(n) < Base
<1>1. Base * Base \in Nat
  BY MulBound
<1>2. ASSUME n < Base PROVE U32(n) = n
  BY <1>2, ModSmall DEF U32
<1>3. ASSUME n < Base * Base PROVE U64(n) = n
  BY <1>1, <1>3, ModSmall DEF U64
<1>4. ASSUME n < Base * Base PROVE High(n) < Base
  BY <1>4, DivBound, SMT DEF High
<1> QED
  BY <1>2, <1>3, <1>4

\* One step of the carry chain: what comes in, a low word and a high word.
Add3(c, lo, hi) == U64(c + lo + hi)

LEMMA Carry ==
    ASSUME Base \in Nat, Base >= 64,
           NEW c \in 0 .. 1, NEW lo \in Nat, lo < Base, NEW hi \in Nat, hi < Base
    PROVE  /\ Add3(c, lo, hi) \in Nat /\ Add3(c, lo, hi) = c + lo + hi
           /\ High(Add3(c, lo, hi)) \in 0 .. 1
<1> DEFINE u == c + lo + hi
<1>1. u \in Nat /\ u < 2 * Base
  BY SMT
<1>2. 2 * Base <= Base * Base /\ u < Base * 2
  BY <1>1, MulBound, SMT
<1> HIDE DEF u
<1>3. u < Base * Base
  <2>1. Base * Base \in Nat
    BY MulBound
  <2> QED
    BY <1>1, <1>2, <2>1, SMT
<1>4. U64(u) = u
  BY <1>1, <1>3, Fits
<1>5. High(u) < 2
  BY <1>1, <1>2, DivBound, SMT DEF High
<1>6. High(u) \in Nat
  BY <1>1, Split
<1> QED
  BY <1>1, <1>4, <1>5, <1>6, SMT DEF u, Add3

\* A word and its carry, put together under the words above them.
LEMMA Regroup ==
    ASSUME NEW B \in Int, NEW c \in Int, NEW w \in Int, NEW u \in Int, NEW z \in Int,
           u = B * c + w
    PROVE  w + B * (c + z) = u + B * z
  BY SMT

\* Four times q at the top is q times the prime and five times q at the bottom.
LEMMA TopComesBack ==
    ASSUME NEW B \in Int, NEW a0 \in Int, NEW a1 \in Int, NEW a2 \in Int,
           NEW a3 \in Int, NEW q \in Int, NEW m \in Int
    PROVE  a0 + B * (a1 + B * (a2 + B * (a3 + B * (4 * q + m))))
            = q * 5 + a0 + B * (a1 + B * (a2 + B * (a3 + B * m)))
              + q * (4 * (B * B * B * B) - 5)
  BY SMT

\* The number that five words, or five columns with their carries, stand for.
Value5(w) == w[1] + Base * (w[2] + Base * (w[3] + Base * (w[4] + Base * w[5])))
Columns(x) == x.x0 + Base * (x.x1 + Base * (x.x2 + Base * (x.x3 + Base * x.x4)))

\* The columns of a product that does not overflow.
Bounded(x, D) ==
    /\ x \in [x0 : Nat, x1 : Nat, x2 : Nat, x3 : Nat, x4 : Nat]
    /\ x.x0 < Base * Base /\ x.x1 < Base * Base /\ x.x2 < Base * Base
    /\ High(x.x3) + x.x4 <= 32 * D - 11

\* The partial reduction keeps the postcondition, and takes a multiple of the
\* prime away.
LEMMA ReduceExact ==
    ASSUME NEW D \in Nat, D >= 1, Base = 64 * D, NEW x, Bounded(x, D)
    PROVE  /\ Reduced(Reduce(x))
           /\ \E q \in Nat : Columns(x) = Value5(Reduce(x)) + q * Prime
<1> DEFINE u5 == U32(High(x.x3) + x.x4)
<1> DEFINE q == u5 \div 4
<1> DEFINE u0 == Add3(0, q * 5, U32(x.x0))
<1> DEFINE u1 == Add3(High(u0), U32(x.x1), High(x.x0))
<1> DEFINE u2 == Add3(High(u1), U32(x.x2), High(x.x1))
<1> DEFINE u3 == Add3(High(u2), U32(x.x3), High(x.x2))
<1>a. Base \in Nat /\ Base >= 64
  BY SMT
<1>b. x.x0 \in Nat /\ x.x1 \in Nat /\ x.x2 \in Nat /\ x.x3 \in Nat /\ x.x4 \in Nat
  BY DEF Bounded
<1>c. /\ High(x.x0) \in Nat /\ High(x.x0) < Base
      /\ High(x.x1) \in Nat /\ High(x.x1) < Base
      /\ High(x.x2) \in Nat /\ High(x.x2) < Base
      /\ High(x.x3) \in Nat
  BY <1>a, <1>b, Fits, Split DEF Bounded
<1>d. /\ U32(x.x0) \in Nat /\ U32(x.x0) < Base /\ U32(x.x1) \in Nat /\ U32(x.x1) < Base
      /\ U32(x.x2) \in Nat /\ U32(x.x2) < Base /\ U32(x.x3) \in Nat /\ U32(x.x3) < Base
  BY <1>a, <1>b, Split
<1>1. u5 \in Nat /\ u5 <= 32 * D - 11 /\ u5 = High(x.x3) + x.x4
  <2>1. High(x.x3) + x.x4 \in Nat /\ High(x.x3) + x.x4 <= 32 * D - 11
    BY <1>b, <1>c, SMT DEF Bounded
  <2>2. High(x.x3) + x.x4 < Base
    BY <2>1, SMT
  <2> QED
    BY <1>a, <2>1, <2>2, Fits
<1>2. q \in Nat /\ u5 = 4 * q + (u5 % 4) /\ u5 % 4 \in 0 .. 3 /\ q * 5 < Base
  <2> HIDE DEF u5
  <2>1. q \in Nat /\ u5 % 4 \in Nat /\ u5 % 4 < 4 /\ u5 = 4 * q + (u5 % 4)
    BY <1>1, DivMod, SMT
  <2> QED
    BY <1>1, <2>1, SMT
<1>3. u0 \in Nat /\ High(u0) \in 0 .. 1 /\ u0 = q * 5 + U32(x.x0)
  <2> HIDE DEF q
  <2>1. q * 5 \in Nat /\ 0 \in 0 .. 1
    BY <1>2, SMT
  <2>2. u0 \in Nat /\ High(u0) \in 0 .. 1 /\ u0 = 0 + q * 5 + U32(x.x0)
    BY <1>a, <1>d, <1>2, <2>1, Carry, ZenonT(30)
  <2> QED
    BY <1>d, <2>1, <2>2, SMT
<1>4. u1 \in Nat /\ High(u1) \in 0 .. 1 /\ u1 = High(u0) + U32(x.x1) + High(x.x0)
  <2> HIDE DEF u0
  <2>1. /\ High(u0) \in 0 .. 1 /\ U32(x.x1) \in Nat /\ U32(x.x1) < Base
        /\ High(x.x0) \in Nat /\ High(x.x0) < Base
    BY <1>c, <1>d, <1>3
  <2> QED
    BY <1>a, <2>1, Carry, ZenonT(30)
<1>5. u2 \in Nat /\ High(u2) \in 0 .. 1 /\ u2 = High(u1) + U32(x.x2) + High(x.x1)
  <2> HIDE DEF u1
  <2>1. /\ High(u1) \in 0 .. 1 /\ U32(x.x2) \in Nat /\ U32(x.x2) < Base
        /\ High(x.x1) \in Nat /\ High(x.x1) < Base
    BY <1>c, <1>d, <1>4
  <2> QED
    BY <1>a, <2>1, Carry, ZenonT(30)
<1>6. u3 \in Nat /\ High(u3) \in 0 .. 1 /\ u3 = High(u2) + U32(x.x3) + High(x.x2)
  <2> HIDE DEF u2
  <2>1. /\ High(u2) \in 0 .. 1 /\ U32(x.x3) \in Nat /\ U32(x.x3) < Base
        /\ High(x.x2) \in Nat /\ High(x.x2) < Base
    BY <1>c, <1>d, <1>5
  <2> QED
    BY <1>a, <2>1, Carry, ZenonT(30)
<1> HIDE DEF u0, u1, u2, u3, q, u5
<1>7. /\ U32(High(u3) + (u5 % 4)) = High(u3) + (u5 % 4)
      /\ High(u3) + (u5 % 4) \in 0 .. 4
  <2>1. High(u3) + (u5 % 4) \in Nat /\ High(u3) + (u5 % 4) <= 4
    BY <1>2, <1>6, SMTT(30)
  <2> QED
    BY <1>a, <2>1, Fits, SMT
<1>8. Reduce(x) = <<U32(u0), U32(u1), U32(u2), U32(u3), High(u3) + (u5 % 4)>>
  <2>1. U32(q * 5) = q * 5
    BY <1>a, <1>2, Fits, SMT
  <2>2. u0 = U64(U32(q * 5) + U32(x.x0))
    <3>1. u0 = U64(0 + q * 5 + U32(x.x0))
      BY DEF u0, Add3
    <3>2. 0 + q * 5 + U32(x.x0) = q * 5 + U32(x.x0)
      BY <1>2, <1>d, SMT
    <3> QED
      BY <2>1, <3>1, <3>2, Zenon
  <2> QED
    BY <1>7, <2>2 DEF Reduce, u1, u2, u3, q, u5, Add3
<1>9. Reduced(Reduce(x))
  <2>1. U32(u0) \in Words /\ U32(u1) \in Words /\ U32(u2) \in Words /\ U32(u3) \in Words
    BY <1>a, <1>3, <1>4, <1>5, <1>6, Split, SMTT(30) DEF Words
  <2>2. High(u3) + (u5 % 4) \in Words
    BY <1>a, <1>7, SMTT(30) DEF Words
  <2> QED
    BY <1>7, <1>8, <2>1, <2>2, SMTT(30) DEF Reduced
<1> DEFINE m == u5 % 4
           w0 == U32(u0)  w1 == U32(u1)  w2 == U32(u2)  w3 == U32(u3)
           c0 == High(u0)  c1 == High(u1)  c2 == High(u2)  c3 == High(u3)
           L0 == U32(x.x0)  L1 == U32(x.x1)  L2 == U32(x.x2)  L3 == U32(x.x3)
           H0 == High(x.x0)  H1 == High(x.x1)  H2 == High(x.x2)  H3 == High(x.x3)
<1>10. /\ m \in Int /\ q \in Int /\ Base \in Int
       /\ w0 \in Int /\ w1 \in Int /\ w2 \in Int /\ w3 \in Int
       /\ c0 \in Int /\ c1 \in Int /\ c2 \in Int /\ c3 \in Int
       /\ L0 \in Int /\ L1 \in Int /\ L2 \in Int /\ L3 \in Int
       /\ H0 \in Int /\ H1 \in Int /\ H2 \in Int /\ H3 \in Int
       /\ u0 \in Int /\ u1 \in Int /\ u2 \in Int /\ u3 \in Int
       /\ x.x0 \in Int /\ x.x1 \in Int /\ x.x2 \in Int /\ x.x3 \in Int /\ x.x4 \in Int
  <2>1. /\ w0 \in Nat /\ w1 \in Nat /\ w2 \in Nat /\ w3 \in Nat
        /\ c0 \in Nat /\ c1 \in Nat /\ c2 \in Nat /\ c3 \in Nat
    BY <1>a, <1>3, <1>4, <1>5, <1>6, Split, SMTT(30)
  <2> QED
    BY <1>a, <1>b, <1>c, <1>d, <1>2, <1>3, <1>4, <1>5, <1>6, <2>1, SMTT(30)
<1>11. /\ u0 = Base * c0 + w0 /\ u1 = Base * c1 + w1
       /\ u2 = Base * c2 + w2 /\ u3 = Base * c3 + w3
  BY <1>a, <1>3, <1>4, <1>5, <1>6, Split, SMTT(30)
<1>12. /\ x.x0 = Base * H0 + L0 /\ x.x1 = Base * H1 + L1
       /\ x.x2 = Base * H2 + L2 /\ x.x3 = Base * H3 + L3
  BY <1>a, <1>b, Split
<1>13. /\ u0 = q * 5 + L0 /\ u1 = c0 + L1 + H0
       /\ u2 = c1 + L2 + H1 /\ u3 = c2 + L3 + H2 /\ H3 + x.x4 = 4 * q + m
  BY <1>1, <1>2, <1>3, <1>4, <1>5, <1>6, SMT
<1>14. Value5(Reduce(x)) = w0 + Base * (w1 + Base * (w2 + Base * (w3 + Base * (c3 + m))))
  BY <1>8, SMT DEF Value5
<1> HIDE DEF m, w0, w1, w2, w3, c0, c1, c2, c3, L0, L1, L2, L3, H0, H1, H2, H3
<1>15. Value5(Reduce(x)) =
        q * 5 + L0 + Base * (L1 + H0 + Base * (L2 + H1 + Base * (L3 + H2 + Base * m)))
  <2>1. w3 + Base * (c3 + m) = u3 + Base * m
    BY <1>10, <1>11, Regroup
  <2>2. w2 + Base * (u3 + Base * m) = u2 + Base * (L3 + H2 + Base * m)
    BY <1>10, <1>11, <1>13, SMTT(30)
  <2>3. w1 + Base * (u2 + Base * (L3 + H2 + Base * m))
            = u1 + Base * (L2 + H1 + Base * (L3 + H2 + Base * m))
    BY <1>10, <1>11, <1>13, SMTT(30)
  <2>4. w0 + Base * (u1 + Base * (L2 + H1 + Base * (L3 + H2 + Base * m)))
            = u0 + Base * (L1 + H0 + Base * (L2 + H1 + Base * (L3 + H2 + Base * m)))
    BY <1>10, <1>11, <1>13, SMTT(30)
  <2> QED
    BY <1>10, <1>13, <1>14, <2>1, <2>2, <2>3, <2>4, SMTT(30)
<1>16. Columns(x) =
        L0 + Base * (L1 + H0 + Base * (L2 + H1 + Base * (L3 + H2 + Base * (4 * q + m))))
  <2>1. x.x3 + Base * x.x4 = L3 + Base * (4 * q + m)
    BY <1>10, <1>12, <1>13, SMTT(30)
  <2>2. x.x2 + Base * (L3 + Base * (4 * q + m))
            = L2 + Base * (L3 + H2 + Base * (4 * q + m))
    BY <1>10, <1>12, SMT
  <2>3. x.x1 + Base * (L2 + Base * (L3 + H2 + Base * (4 * q + m)))
            = L1 + Base * (L2 + H1 + Base * (L3 + H2 + Base * (4 * q + m)))
    BY <1>10, <1>12, SMT
  <2>4. x.x0 + Base * (L1 + Base * (L2 + H1 + Base * (L3 + H2 + Base * (4 * q + m))))
            = L0 + Base * (L1 + H0
                + Base * (L2 + H1 + Base * (L3 + H2 + Base * (4 * q + m))))
    BY <1>10, <1>12, SMT
  <2> QED
    BY <2>1, <2>2, <2>3, <2>4, SMTT(30) DEF Columns
<1>17. Columns(x) = Value5(Reduce(x)) + q * Prime
  <2>1. L1 + H0 \in Int /\ L2 + H1 \in Int /\ L3 + H2 \in Int
    BY <1>10, SMT
  <2> QED
    BY <1>10, <1>15, <1>16, <2>1, TopComesBack, SMTT(30) DEF Prime
<1> QED
  BY <1>2, <1>9, <1>17

-----------------------------------------------------------------------------
\* ctx->r <= 0ffffffc_0ffffffc_0ffffffc_0fffffff; with a quarter of each word.
Clamped(r, D) ==
    /\ r \in [1 .. 4 -> Nat]
    /\ r[1] <= 4 * D - 1
    /\ \A i \in 2 .. 4 : r[i] <= 4 * D - 4 /\ r[i] % 4 = 0

\* A block as poly_blocks takes it: four words, and end.
IsBlock(in, end) == in \in [1 .. 4 -> Words] /\ end \in 0 .. 1

LEMMA SumsExact ==
    ASSUME Base \in Nat, Base >= 64, NEW h, Reduced(h), NEW in, NEW end, IsBlock(in, end)
    PROVE  /\ Sums(h, in, end) = [s0 |-> h[1] + in[1], s1 |-> h[2] + in[2],
                s2 |-> h[3] + in[3], s3 |-> h[4] + in[4], s4 |-> h[5] + end]
           /\ h[1] + in[1] \in Nat /\ h[1] + in[1] <= 2 * Base
           /\ h[2] + in[2] \in Nat /\ h[2] + in[2] <= 2 * Base
           /\ h[3] + in[3] \in Nat /\ h[3] + in[3] <= 2 * Base
           /\ h[4] + in[4] \in Nat /\ h[4] + in[4] <= 2 * Base
           /\ h[5] + end \in Nat /\ h[5] + end <= 5
<1>1. ASSUME NEW a \in Words, NEW b \in Words
      PROVE  U64(a + b) = a + b /\ a + b \in Nat /\ a + b <= 2 * Base
  <2>1. a + b \in Nat /\ a + b < 2 * Base
    BY <1>1, SMT DEF Words
  <2>2. 2 * Base <= Base * Base /\ Base * Base \in Nat
    BY MulBound, SMT
  <2>3. a + b < Base * Base
    BY <2>1, <2>2, SMT
  <2> QED
    BY <2>1, <2>3, Fits, SMT
<1>2. /\ h[1] \in Words /\ h[2] \in Words /\ h[3] \in Words /\ h[4] \in Words
      /\ h[5] \in Nat /\ h[5] <= 4
      /\ in[1] \in Words /\ in[2] \in Words /\ in[3] \in Words /\ in[4] \in Words
  BY SMT DEF Reduced, IsBlock, Words
<1>3. h[5] + end \in Nat /\ h[5] + end <= 5
  BY <1>2, SMT DEF IsBlock
<1>4. U32(h[5] + end) = h[5] + end
  BY <1>3, Fits, SMT
<1>5. /\ U64(h[1] + in[1]) = h[1] + in[1] /\ U64(h[2] + in[2]) = h[2] + in[2]
      /\ U64(h[3] + in[3]) = h[3] + in[3] /\ U64(h[4] + in[4]) = h[4] + in[4]
  BY <1>1, <1>2
<1>6. Sums(h, in, end) = [s0 |-> h[1] + in[1], s1 |-> h[2] + in[2],
        s2 |-> h[3] + in[3], s3 |-> h[4] + in[4], s4 |-> h[5] + end]
  BY <1>4, <1>5 DEF Sums
<1> QED
  BY <1>1, <1>2, <1>3, <1>6

\* A word of r as four times a quarter and what that loses.
LEMMA Quarters ==
    ASSUME NEW D \in Nat, D >= 1, NEW w \in Nat, w <= 4 * D - 1
    PROVE  /\ w \div 4 \in Nat /\ w \div 4 <= D - 1 /\ w % 4 \in 0 .. 3
           /\ w = 4 * (w \div 4) + (w % 4)
  BY SMT

\* What four products and a small one add up to, below their bounds.
LEMMA ColumnBound ==
    ASSUME NEW D \in Nat, D >= 1, Base = 64 * D,
           NEW s0 \in Nat, NEW s1 \in Nat, NEW s2 \in Nat, NEW s3 \in Nat, NEW s4 \in Nat,
           s0 <= 2 * Base, s1 <= 2 * Base, s2 <= 2 * Base, s3 <= 2 * Base, s4 <= 5,
           NEW a \in Nat, NEW b \in Nat, NEW c \in Nat, NEW d \in Nat, NEW e \in Nat,
           a <= 5 * D, b <= 5 * D, c <= 5 * D, d <= 5 * D, e <= 5 * D
    PROVE  /\ s0*a + s1*b + s2*c + s3*d + s4*e \in Nat
           /\ s0*a + s1*b + s2*c + s3*d + s4*e < Base * Base
<1> DEFINE p0 == s0 * a
           p1 == s1 * b
           p2 == s2 * c
           p3 == s3 * d
           p4 == s4 * e
           M == D * D
<1>1. 2 * Base \in Nat /\ 5 * D \in Nat /\ 5 \in Nat
  BY SMT
<1>2. p0 \in Nat /\ p0 <= (2 * Base) * (5 * D)
  BY <1>1, MulBound
<1>3. p1 \in Nat /\ p1 <= (2 * Base) * (5 * D)
  BY <1>1, MulBound
<1>4. p2 \in Nat /\ p2 <= (2 * Base) * (5 * D)
  BY <1>1, MulBound
<1>5. p3 \in Nat /\ p3 <= (2 * Base) * (5 * D)
  BY <1>1, MulBound
<1>6. p4 \in Nat /\ p4 <= 5 * (5 * D)
  BY <1>1, MulBound
<1>7. M \in Nat /\ D <= M
  BY MulBound, SMT
<1>8. (2 * Base) * (5 * D) = 640 * M /\ Base * Base = 4096 * M
  BY SMT
<1> HIDE DEF p0, p1, p2, p3, p4, M
<1>9. p0 + p1 + p2 + p3 + p4 \in Nat /\ p0 + p1 + p2 + p3 + p4 < Base * Base
  BY <1>2, <1>3, <1>4, <1>5, <1>6, <1>7, <1>8, SMTT(30)
<1> QED
  BY <1>9 DEF p0, p1, p2, p3, p4

\* The fourth column, whose upper word goes into u5 <= 7ffffff5.
LEMMA TopColumn ==
    ASSUME NEW D \in Nat, D >= 1, Base = 64 * D,
           NEW s0 \in Nat, NEW s1 \in Nat, NEW s2 \in Nat, NEW s3 \in Nat, NEW s4 \in Nat,
           s0 <= 2 * Base, s1 <= 2 * Base, s2 <= 2 * Base, s3 <= 2 * Base, s4 <= 5,
           NEW a \in Nat, NEW b \in Nat, NEW c \in Nat, NEW d \in Nat, NEW e \in Nat,
           a <= 4 * D - 4, b <= 4 * D - 4, c <= 4 * D - 4, d <= 4 * D - 1, e <= 5 * D
    PROVE  High(s0*a + s1*b + s2*c + s3*d + s4*e) <= 32 * D - 26
<1> DEFINE p0 == s0 * a
           p1 == s1 * b
           p2 == s2 * c
           p3 == s3 * d
           p4 == s4 * e
           M == D * D
           y == p0 + p1 + p2 + p3 + p4
<1>1. /\ 2 * Base \in Nat /\ 5 * D \in Nat /\ 5 \in Nat /\ 4 * D - 4 \in Nat
      /\ 4 * D - 1 \in Nat
  BY SMT
<1>2. p0 \in Nat /\ p0 <= (2 * Base) * (4 * D - 4)
  BY <1>1, MulBound
<1>3. p1 \in Nat /\ p1 <= (2 * Base) * (4 * D - 4)
  BY <1>1, MulBound
<1>4. p2 \in Nat /\ p2 <= (2 * Base) * (4 * D - 4)
  BY <1>1, MulBound
<1>5. p3 \in Nat /\ p3 <= (2 * Base) * (4 * D - 1)
  BY <1>1, MulBound
<1>6. p4 \in Nat /\ p4 <= 5 * (5 * D)
  BY <1>1, MulBound
<1>7. M \in Nat
  BY MulBound
<1>8. /\ (2 * Base) * (4 * D - 4) = 512 * M - 512 * D
      /\ (2 * Base) * (4 * D - 1) = 512 * M - 128 * D
      /\ Base * (32 * D - 25) = 2048 * M - 1600 * D
  BY SMT
<1> HIDE DEF p0, p1, p2, p3, p4, M
<1>9. y \in Nat /\ y < Base * (32 * D - 25)
  BY <1>2, <1>3, <1>4, <1>5, <1>6, <1>7, <1>8, SMTT(30)
<1>10. 32 * D - 25 \in Nat /\ Base \in Nat /\ Base > 0
  BY SMT
<1> HIDE DEF y
<1>11. y \div Base < 32 * D - 25 /\ y \div Base \in Nat
  BY <1>9, <1>10, DivBound, DivMod
<1>12. High(y) <= 32 * D - 26
  BY <1>11, SMT DEF High
<1> QED
  BY <1>12 DEF y, p0, p1, p2, p3, p4

\* The products are the columns of the schoolbook multiplication, unwrapped.
ColumnsAre(r, D, s0, s1, s2, s3, s4, t0, t1, t2, t3, l) ==
    LET x == Products([s0 |-> s0, s1 |-> s1, s2 |-> s2, s3 |-> s3, s4 |-> s4], r)
    IN  /\ x = [x0 |-> s0*r[1] + s1*(5*t3) + s2*(5*t2) + s3*(5*t1) + s4*(5*t0),
                x1 |-> s0*r[2] + s1*r[1] + s2*(5*t3) + s3*(5*t2) + s4*(5*t1),
                x2 |-> s0*r[3] + s1*r[2] + s2*r[1] + s3*(5*t3) + s4*(5*t2),
                x3 |-> s0*r[4] + s1*r[3] + s2*r[2] + s3*r[1] + s4*(5*t3),
                x4 |-> s4 * l]
        /\ Bounded(x, D)

LEMMA ProductsExact ==
    ASSUME NEW D \in Nat, D >= 1, Base = 64 * D, NEW r, Clamped(r, D),
           NEW s0 \in Nat, NEW s1 \in Nat, NEW s2 \in Nat, NEW s3 \in Nat, NEW s4 \in Nat,
           s0 <= 2 * Base, s1 <= 2 * Base, s2 <= 2 * Base, s3 <= 2 * Base, s4 <= 5,
           NEW t0 \in Nat, NEW t1 \in Nat, NEW t2 \in Nat, NEW t3 \in Nat, NEW l \in 0 .. 3,
           t0 <= D - 1, t1 <= D - 1, t2 <= D - 1, t3 <= D - 1,
           r[1] = 4 * t0 + l, r[2] = 4 * t1, r[3] = 4 * t2, r[4] = 4 * t3,
           r[1] \div 4 = t0, r[2] \div 4 = t1, r[3] \div 4 = t2, r[4] \div 4 = t3,
           r[1] % 4 = l
    PROVE  ColumnsAre(r, D, s0, s1, s2, s3, s4, t0, t1, t2, t3, l)
<1> DEFINE rr0 == U32((r[1] \div 4) * 5)
           rr1 == U32((r[2] \div 4) + r[2])
           rr2 == U32((r[3] \div 4) + r[3])
           rr3 == U32((r[4] \div 4) + r[4])
           r0 == r[1]  r1 == r[2]  r2 == r[3]  r3 == r[4]
           f0 == 5 * t0  f1 == 5 * t1  f2 == 5 * t2  f3 == 5 * t3
           y0 == s0*r0 + s1*f3 + s2*f2 + s3*f1 + s4*f0
           y1 == s0*r1 + s1*r0 + s2*f3 + s3*f2 + s4*f1
           y2 == s0*r2 + s1*r1 + s2*r0 + s3*f3 + s4*f2
           y3 == s0*r3 + s1*r2 + s2*r1 + s3*r0 + s4*f3
           s == [s0 |-> s0, s1 |-> s1, s2 |-> s2, s3 |-> s3, s4 |-> s4]
<1>1. Base \in Nat /\ Base >= 64
  BY SMT
<1>2. /\ f0 \in Nat /\ f0 < Base /\ f1 \in Nat /\ f1 < Base
      /\ f2 \in Nat /\ f2 < Base /\ f3 \in Nat /\ f3 < Base
      /\ f0 <= 5 * D /\ f1 <= 5 * D /\ f2 <= 5 * D /\ f3 <= 5 * D
  BY SMT
<1>3. /\ (r[1] \div 4) * 5 = f0 /\ (r[2] \div 4) + r[2] = f1
      /\ (r[3] \div 4) + r[3] = f2 /\ (r[4] \div 4) + r[4] = f3
  BY SMT
<1>4. rr0 = f0 /\ rr1 = f1 /\ rr2 = f2 /\ rr3 = f3
  <2> HIDE DEF f0, f1, f2, f3
  <2> QED
    BY <1>1, <1>2, <1>3, Fits, SMTT(30)
<1>5. /\ r0 \in Nat /\ r0 <= 4 * D - 1 /\ r0 <= 5 * D
      /\ r1 \in Nat /\ r1 <= 4 * D - 4 /\ r1 <= 5 * D
      /\ r2 \in Nat /\ r2 <= 4 * D - 4 /\ r2 <= 5 * D
      /\ r3 \in Nat /\ r3 <= 4 * D - 4 /\ r3 <= 5 * D
  BY SMT
<1>6. Products(s, r) = [x0 |-> U64(s0*r0 + s1*rr3 + s2*rr2 + s3*rr1 + s4*rr0),
                        x1 |-> U64(s0*r1 + s1*r0 + s2*rr3 + s3*rr2 + s4*rr1),
                        x2 |-> U64(s0*r2 + s1*r1 + s2*r0 + s3*rr3 + s4*rr2),
                        x3 |-> U64(s0*r3 + s1*r2 + s2*r1 + s3*r0 + s4*rr3),
                        x4 |-> U32(s4 * l)]
  BY DEF Products
<1>7. Products(s, r) = [x0 |-> U64(y0), x1 |-> U64(y1), x2 |-> U64(y2), x3 |-> U64(y3),
                        x4 |-> U32(s4 * l)]
  <2> HIDE DEF rr0, rr1, rr2, rr3, r0, r1, r2, r3, f0, f1, f2, f3, s
  <2> QED
    BY <1>4, <1>6, ZenonT(30)
<1> HIDE DEF rr0, rr1, rr2, rr3, r0, r1, r2, r3, f0, f1, f2, f3
<1>8. y0 \in Nat /\ y0 < Base * Base
  BY <1>2, <1>5, ColumnBound, SMTT(30)
<1>9. y1 \in Nat /\ y1 < Base * Base
  BY <1>2, <1>5, ColumnBound
<1>10. y2 \in Nat /\ y2 < Base * Base
  BY <1>2, <1>5, ColumnBound
<1>11. y3 \in Nat /\ y3 < Base * Base
  BY <1>2, <1>5, ColumnBound
<1>12. High(y3) <= 32 * D - 26
  BY <1>2, <1>5, TopColumn, ZenonT(30)
<1>13. s4 * l \in Nat /\ s4 * l <= 15
  <2>1. l \in Nat /\ l <= 3 /\ 5 * 3 = 15
    BY SMT
  <2> QED
    BY <2>1, MulBound
<1> HIDE DEF y0, y1, y2, y3, s
<1>14. /\ U64(y0) = y0 /\ U64(y1) = y1 /\ U64(y2) = y2 /\ U64(y3) = y3
       /\ U32(s4 * l) = s4 * l
  <2>1. s4 * l < Base
    BY <1>1, <1>13, SMT
  <2> QED
    BY <1>1, <1>8, <1>9, <1>10, <1>11, <1>13, <2>1, Fits
<1>15. Products(s, r) = [x0 |-> y0, x1 |-> y1, x2 |-> y2, x3 |-> y3, x4 |-> s4 * l]
  BY <1>7, <1>14
<1>16. High(y3) + s4 * l <= 32 * D - 11
  <2>1. High(y3) \in Nat
    BY <1>1, <1>11, Split, SMTT(30)
  <2> QED
    BY <1>12, <1>13, <2>1, SMTT(30)
<1>17. Bounded(Products(s, r), D)
  BY <1>8, <1>9, <1>10, <1>11, <1>13, <1>15, <1>16 DEF Bounded
<1> QED
  BY <1>15, <1>17 DEF ColumnsAre, y0, y1, y2, y3, s, r0, r1, r2, r3, f0, f1, f2, f3

\* The schoolbook product of h + c and r, against its columns: what r loses to
\* the right of the first word is a multiple of the prime.
LEMMA ColumnsOfProduct ==
    ASSUME NEW B \in Int, NEW s0 \in Int, NEW s1 \in Int, NEW s2 \in Int, NEW s3 \in Int,
           NEW s4 \in Int, NEW t0 \in Int, NEW t1 \in Int, NEW t2 \in Int, NEW t3 \in Int,
           NEW l \in Int
    PROVE  (s0 + B*(s1 + B*(s2 + B*(s3 + B*s4)))) * (4*t0 + l + B*(4*t1 + B*(4*t2 + B*(4*t3))))
            = (s0*(4*t0 + l) + s1*(5*t3) + s2*(5*t2) + s3*(5*t1) + s4*(5*t0)) + B*(
              (s0*(4*t1) + s1*(4*t0 + l) + s2*(5*t3) + s3*(5*t2) + s4*(5*t1)) + B*(
              (s0*(4*t2) + s1*(4*t1) + s2*(4*t0 + l) + s3*(5*t3) + s4*(5*t2)) + B*(
              (s0*(4*t3) + s1*(4*t2) + s2*(4*t1) + s3*(4*t0 + l) + s4*(5*t3)) + B*(s4*l))))
              + (s1*t3 + s2*t2 + s3*t1 + s4*t0
                 + B*(s2*t3 + s3*t2 + s4*t1 + B*(s3*t3 + s4*t2 + B*(s4*t3))))
                * (4*(B*B*B*B) - 5)
  BY SMT

\* h + c as a number: the fifth word is end.
Sum(h, in, end) ==
    h[1] + in[1] + Base * (h[2] + in[2] + Base * (h[3] + in[3]
        + Base * (h[4] + in[4] + Base * (h[5] + end))))
Value4(w) == w[1] + Base * (w[2] + Base * (w[3] + Base * w[4]))

(***************************************************************************)
(* poly_blocks, one block: "h = (h + c) * r".  Under the preconditions its *)
(* comment states, with words of any size that is a multiple of 64, the    *)
(* postcondition holds and the new h is (h + c) * r up to a multiple of    *)
(* the prime, although sums, products and carries are computed in u32 and  *)
(* u64.                                                                    *)
(***************************************************************************)
THEOREM BlockExact ==
    ASSUME NEW D \in Nat, D >= 1, Base = 64 * D,
           NEW h, Reduced(h), NEW r, Clamped(r, D), NEW in, NEW end, IsBlock(in, end)
    PROVE  /\ Reduced(poly_block(h, r, in, end))
           /\ \E k \in Int : Sum(h, in, end) * Value4(r)
                                = Value5(poly_block(h, r, in, end)) + k * Prime
<1> DEFINE s0 == h[1] + in[1]
           s1 == h[2] + in[2]
           s2 == h[3] + in[3]
           s3 == h[4] + in[4]
           s4 == h[5] + end
           t0 == r[1] \div 4
           t1 == r[2] \div 4
           t2 == r[3] \div 4
           t3 == r[4] \div 4
           l == r[1] % 4
           x == Products(Sums(h, in, end), r)
<1>1. Base \in Nat /\ Base >= 64
  BY SMT
<1>2. /\ Sums(h, in, end) = [s0 |-> s0, s1 |-> s1, s2 |-> s2, s3 |-> s3, s4 |-> s4]
      /\ s0 \in Nat /\ s0 <= 2 * Base /\ s1 \in Nat /\ s1 <= 2 * Base
      /\ s2 \in Nat /\ s2 <= 2 * Base /\ s3 \in Nat /\ s3 <= 2 * Base
      /\ s4 \in Nat /\ s4 <= 5
  BY <1>1, SumsExact
<1>3. t0 \in Nat /\ t0 <= D - 1 /\ l \in 0 .. 3 /\ r[1] = 4 * t0 + l
  <2>1. r[1] \in Nat /\ r[1] <= 4 * D - 1
    BY DEF Clamped
  <2> QED
    BY <2>1, Quarters
<1>4. ASSUME NEW i \in 2 .. 4
      PROVE  r[i] \div 4 \in Nat /\ r[i] \div 4 <= D - 1 /\ r[i] = 4 * (r[i] \div 4)
  <2>1. r[i] \in Nat /\ r[i] <= 4 * D - 4 /\ r[i] % 4 = 0
    BY <1>4 DEF Clamped
  <2>2. r[i] <= 4 * D - 1
    BY <2>1, SMT
  <2>3. /\ r[i] \div 4 \in Nat /\ r[i] \div 4 <= D - 1
        /\ r[i] = 4 * (r[i] \div 4) + (r[i] % 4)
    BY <2>1, <2>2, Quarters
  <2> QED
    BY <2>1, <2>3, SMT
<1>5. /\ t1 \in Nat /\ t1 <= D - 1 /\ r[2] = 4 * t1
      /\ t2 \in Nat /\ t2 <= D - 1 /\ r[3] = 4 * t2
      /\ t3 \in Nat /\ t3 <= D - 1 /\ r[4] = 4 * t3
  <2>1. 2 \in 2 .. 4 /\ 3 \in 2 .. 4 /\ 4 \in 2 .. 4
    BY SMT
  <2> QED
    BY <1>4, <2>1
<1>5a. /\ r[1] \div 4 = t0 /\ r[2] \div 4 = t1 /\ r[3] \div 4 = t2
       /\ r[4] \div 4 = t3 /\ r[1] % 4 = l
  OBVIOUS
<1> HIDE DEF s0, s1, s2, s3, s4, t0, t1, t2, t3, l
<1>6. /\ x = [x0 |-> s0*r[1] + s1*(5*t3) + s2*(5*t2) + s3*(5*t1) + s4*(5*t0),
              x1 |-> s0*r[2] + s1*r[1] + s2*(5*t3) + s3*(5*t2) + s4*(5*t1),
              x2 |-> s0*r[3] + s1*r[2] + s2*r[1] + s3*(5*t3) + s4*(5*t2),
              x3 |-> s0*r[4] + s1*r[3] + s2*r[2] + s3*r[1] + s4*(5*t3),
              x4 |-> s4 * l]
      /\ Bounded(x, D)
  <2>1. ColumnsAre(r, D, s0, s1, s2, s3, s4, t0, t1, t2, t3, l)
    BY <1>2, <1>3, <1>5, <1>5a, ProductsExact, ZenonT(30)
  <2> QED
    BY <1>2, <2>1, Zenon DEF ColumnsAre
<1>7. /\ Reduced(Reduce(x))
      /\ \E q \in Nat : Columns(x) = Value5(Reduce(x)) + q * Prime
  <2> HIDE DEF x
  <2> QED
    BY <1>6, ReduceExact
<1>8. PICK q \in Nat : Columns(x) = Value5(Reduce(x)) + q * Prime
  BY <1>7, SMTT(30)
<1> DEFINE j == s1*t3 + s2*t2 + s3*t1 + s4*t0
                + Base*(s2*t3 + s3*t2 + s4*t1 + Base*(s3*t3 + s4*t2 + Base*(s4*t3)))
<1>9. Sum(h, in, end) * Value4(r) = Columns(x) + j * Prime
  <2>1. Sum(h, in, end) = s0 + Base*(s1 + Base*(s2 + Base*(s3 + Base*s4)))
    BY DEF Sum, s0, s1, s2, s3, s4
  <2>2. Value4(r) = 4*t0 + l + Base*(4*t1 + Base*(4*t2 + Base*(4*t3)))
    BY <1>3, <1>5 DEF Value4
  <2> HIDE DEF x
  <2>3. Columns(x)
            = (s0*(4*t0 + l) + s1*(5*t3) + s2*(5*t2) + s3*(5*t1) + s4*(5*t0)) + Base*(
              (s0*(4*t1) + s1*(4*t0 + l) + s2*(5*t3) + s3*(5*t2) + s4*(5*t1)) + Base*(
              (s0*(4*t2) + s1*(4*t1) + s2*(4*t0 + l) + s3*(5*t3) + s4*(5*t2)) + Base*(
              (s0*(4*t3) + s1*(4*t2) + s2*(4*t1) + s3*(4*t0 + l) + s4*(5*t3)) + Base*(s4*l))))
    BY <1>3, <1>5, <1>6, ZenonT(30) DEF Columns
  <2>4. /\ Base \in Int /\ s0 \in Int /\ s1 \in Int /\ s2 \in Int /\ s3 \in Int /\ s4 \in Int
        /\ t0 \in Int /\ t1 \in Int /\ t2 \in Int /\ t3 \in Int /\ l \in Int
    BY <1>1, <1>2, <1>3, <1>5, SMTT(30)
  <2> QED
    BY <2>1, <2>2, <2>3, <2>4, ColumnsOfProduct, SMTT(30) DEF Prime
<1>10. j \in Int /\ Prime \in Int /\ Value5(Reduce(x)) \in Int
  <2>1. j \in Int
    BY <1>1, <1>2, <1>3, <1>5, SMTT(30)
  <2>2. Prime \in Int
    BY <1>1, SMT DEF Prime
  <2> HIDE DEF x, j
  <2>3. Value5(Reduce(x)) \in Int
    <3> DEFINE g == Reduce(x)
    <3>1. /\ g[1] \in Int /\ g[2] \in Int /\ g[3] \in Int /\ g[4] \in Int /\ g[5] \in Int
      BY <1>7 DEF Reduced, Words
    <3> HIDE DEF g
    <3>2. Value5(g) \in Int
      BY <1>1, <3>1, SMT DEF Value5
    <3> QED
      BY <3>2 DEF g
  <2> QED
    BY <2>1, <2>2, <2>3, SMTT(30)
<1> HIDE DEF j, x
<1>11. Sum(h, in, end) * Value4(r) = Value5(Reduce(x)) + (q + j) * Prime /\ q + j \in Int
  BY <1>8, <1>9, <1>10, SMTT(30)
<1>12. poly_block(h, r, in, end) = Reduce(x)
  BY DEF poly_block, x
<1> QED
  BY <1>7, <1>11, <1>12, ZenonT(30)

(***************************************************************************)
(* crypto_poly1305_init: whatever the key, the r it loads satisfies the    *)
(* precondition of poly_blocks, and so does the initial h.                 *)
(***************************************************************************)
THEOREM InitClamped ==
    ASSUME NEW D \in Nat, D >= 1, Base = 64 * D, NEW key \in [1 .. 8 -> Nat]
    PROVE  /\ Clamped(crypto_poly1305_init(key).r, D)
           /\ Reduced(crypto_poly1305_init(key).h)
<1>1. Base \div 16 = 4 * D /\ 4 * D \in Nat /\ 4 * D > 0
  BY SMT
<1>2. ASSUME NEW w \in Nat
      PROVE  /\ Clamp(w) \in Nat /\ Clamp(w) <= 4 * D - 1
             /\ Clamp4(w) \in Nat /\ Clamp4(w) <= 4 * D - 4 /\ Clamp4(w) % 4 = 0
  <2> DEFINE c == w % (4 * D)
  <2>1. Clamp(w) = c
    BY <1>1 DEF Clamp
  <2>2. c \in Nat /\ c < 4 * D
    BY <1>1, DivMod
  <2> HIDE DEF c
  <2>3. c <= 4 * D - 1 /\ c - (c % 4) \in Nat /\ c - (c % 4) <= 4 * D - 4
        /\ (c - (c % 4)) % 4 = 0
    BY <2>2, SMT
  <2> QED
    BY <2>1, <2>2, <2>3 DEF Clamp4
<1>3. key[1] \in Nat /\ key[2] \in Nat /\ key[3] \in Nat /\ key[4] \in Nat
  BY SMT
<1> DEFINE r == <<Clamp(key[1]), Clamp4(key[2]), Clamp4(key[3]), Clamp4(key[4])>>
<1>4. crypto_poly1305_init(key).r = r /\ crypto_poly1305_init(key).h = <<0, 0, 0, 0, 0>>
  BY DEF crypto_poly1305_init
<1>5. Clamped(r, D)
  BY <1>2, <1>3 DEF Clamped
<1>6. Reduced(<<0, 0, 0, 0, 0>>)
  <2>1. 0 \in Words
    BY SMT DEF Words
  <2> QED
    BY <2>1, SMT DEF Reduced
<1> QED
  BY <1>4, <1>5, <1>6

-----------------------------------------------------------------------------
\* Four words are added with their carries to a number below.
AddsUp(x, a1, a2, a3, a4, c1, c2, c3, c4) ==
    /\ c1 \in Nat /\ c2 \in Nat /\ c3 \in Nat /\ c4 \in Nat
    /\ x + (a1 + Base * (a2 + Base * (a3 + Base * a4)))
        = U32(c1) + Base * (U32(c2) + Base * (U32(c3) + Base * U32(c4)))
          + (Base * Base * Base * Base) * High(c4)

LEMMA Ripple ==
    ASSUME Base \in Nat, Base >= 64,
           NEW x \in Nat, NEW a1 \in Nat, NEW a2 \in Nat, NEW a3 \in Nat, NEW a4 \in Nat,
           NEW c1, c1 = x + a1, NEW c2, c2 = High(c1) + a2,
           NEW c3, c3 = High(c2) + a3, NEW c4, c4 = High(c3) + a4
    PROVE  AddsUp(x, a1, a2, a3, a4, c1, c2, c3, c4)
<1>1. c1 \in Nat /\ High(c1) \in Nat /\ U32(c1) \in Nat /\ c1 = Base * High(c1) + U32(c1)
  BY Split
<1>2. c2 \in Nat /\ High(c2) \in Nat /\ U32(c2) \in Nat /\ c2 = Base * High(c2) + U32(c2)
  <2>1. c2 \in Nat
    BY <1>1, SMT
  <2> QED
    BY <2>1, Split
<1>3. c3 \in Nat /\ High(c3) \in Nat /\ U32(c3) \in Nat /\ c3 = Base * High(c3) + U32(c3)
  <2>1. c3 \in Nat
    BY <1>2, SMT
  <2> QED
    BY <2>1, Split
<1>4. c4 \in Nat /\ High(c4) \in Nat /\ U32(c4) \in Nat /\ c4 = Base * High(c4) + U32(c4)
  <2>1. c4 \in Nat
    BY <1>3, SMT
  <2> QED
    BY <2>1, Split
<1> DEFINE p1 == High(c1)
           p2 == High(c2)
           p3 == High(c3)
           p4 == High(c4)
           w1 == U32(c1)
           w2 == U32(c2)
           w3 == U32(c3)
           w4 == U32(c4)
<1>5. /\ p1 \in Int /\ p2 \in Int /\ p3 \in Int /\ p4 \in Int
      /\ w1 \in Int /\ w2 \in Int /\ w3 \in Int /\ w4 \in Int
      /\ x + a1 = Base * p1 + w1 /\ p1 + a2 = Base * p2 + w2
      /\ p2 + a3 = Base * p3 + w3 /\ p3 + a4 = Base * p4 + w4
  BY <1>1, <1>2, <1>3, <1>4, SMTT(30)
<1> HIDE DEF p1, p2, p3, p4, w1, w2, w3, w4
<1>6. /\ x = Base * p1 + w1 - a1 /\ a2 = Base * p2 + w2 - p1
      /\ a3 = Base * p3 + w3 - p2 /\ a4 = Base * p4 + w4 - p3
  BY <1>5, SMT
<1>7. ASSUME NEW B \in Int, NEW a \in Int, NEW q1 \in Int, NEW q2 \in Int,
             NEW q3 \in Int, NEW q4 \in Int,
             NEW v1 \in Int, NEW v2 \in Int, NEW v3 \in Int, NEW v4 \in Int
      PROVE  (B * q1 + v1 - a) + (a + B * (B * q2 + v2 - q1 + B * (B * q3 + v3 - q2
                + B * (B * q4 + v4 - q3))))
              = v1 + B * (v2 + B * (v3 + B * v4)) + (B * B * B * B) * q4
  BY SMTT(30)
<1>8. x + (a1 + Base * (a2 + Base * (a3 + Base * a4)))
        = w1 + Base * (w2 + Base * (w3 + Base * w4)) + (Base * Base * Base * Base) * p4
  <2>1. Base \in Int /\ a1 \in Int
    BY SMT
  <2> QED
    BY ONLY <1>5, <1>6, <1>7, <2>1, SMTT(30)
<1> QED
  BY <1>1, <1>2, <1>3, <1>4, <1>8 DEF p4, w1, w2, w3, w4, AddsUp

\* Four words are less than the fourth power of the word size.
LEMMA FourWords ==
    ASSUME NEW B \in Nat, B >= 64, NEW w1 \in 0 .. B - 1, NEW w2 \in 0 .. B - 1,
           NEW w3 \in 0 .. B - 1, NEW w4 \in 0 .. B - 1
    PROVE  /\ w1 + B * (w2 + B * (w3 + B * w4)) \in Nat
           /\ w1 + B * (w2 + B * (w3 + B * w4)) < B * B * B * B
<1>1. ASSUME NEW w \in 0 .. B - 1, NEW n \in Nat, NEW M \in Nat, n < M
      PROVE  w + B * n \in Nat /\ w + B * n < B * M
  <2>1. B * n \in Nat /\ B * (n + 1) <= B * M /\ B * (n + 1) = B * n + B
    BY <1>1, SMT
  <2> QED
    BY <2>1, SMT
<1>2. B * B \in Nat /\ B * (B * B) \in Nat
  BY SMT
<1>3. w4 \in Nat /\ w4 < B
  BY SMT
<1>4. w3 + B * w4 \in Nat /\ w3 + B * w4 < B * B
  BY <1>1, <1>3
<1>5. w2 + B * (w3 + B * w4) \in Nat /\ w2 + B * (w3 + B * w4) < B * (B * B)
  BY <1>1, <1>2, <1>4
<1>6. /\ w1 + B * (w2 + B * (w3 + B * w4)) \in Nat
      /\ w1 + B * (w2 + B * (w3 + B * w4)) < B * (B * (B * B))
  BY <1>1, <1>2, <1>5
<1>7. B * (B * (B * B)) = B * B * B * B
  BY SMT
<1> QED
  BY <1>6, <1>7

\* What is left of a number below twice the modulus.
LEMMA ModOnce ==
    ASSUME NEW n \in Nat, NEW P \in Nat, P > 0, NEW q \in 0 .. 1,
           q * P <= n, n < (q + 1) * P
    PROVE  n % P = n - q * P
<1>1. CASE q = 0
  BY <1>1, ModSmall, SMT
<1>2. CASE q = 1
  <2> DEFINE d == n \div P
             m == n % P
  <2>1. d \in Nat /\ m \in Nat /\ m < P /\ n = P * d + m
    BY DivMod
  <2>2. P <= n /\ n < 2 * P
    BY <1>2, SMT
  <2>3. n < P * 2
    BY <2>2, SMT
  <2>4. d < 2
    BY <2>3, DivBound
  <2> HIDE DEF d, m
  <2>5. d = 1
    <3>1. d # 0
      BY <2>1, <2>2, SMT
    <3> QED
      BY <2>1, <2>4, <3>1, SMT
  <2>6. m = n - P
    BY <2>1, <2>5, SMT
  <2> QED
    BY <1>2, <2>6, SMT DEF m
<1> QED
  BY <1>1, <1>2, SMT

\* A multiple of the modulus on top of a remainder.
LEMMA ModOfSum ==
    ASSUME NEW M \in Nat, M > 0, NEW v \in Nat, v < M, NEW k \in Int, NEW n \in Nat,
           n = M * k + v
    PROVE  n % M = v
<1> DEFINE d == n \div M
           m == n % M
<1>1. d \in Nat /\ m \in Nat /\ m < M /\ n = M * d + m
  BY DivMod
<1> HIDE DEF d, m
<1>2. M * (k - d) = m - v
  <2>1. M * (k - d) = M * k - M * d
    BY <1>1, SMT
  <2>2. M * k \in Int /\ M * d \in Int
    BY <1>1, SMT
  <2> QED
    BY <1>1, <2>1, <2>2, SMT
<1>3. ASSUME k - d >= 1 PROVE FALSE
  <2>1. M * (k - d) >= M
    BY <1>1, <1>3, SMT
  <2> QED
    BY <1>1, <1>2, <2>1, SMT
<1>4. ASSUME k - d <= -1 PROVE FALSE
  <2>1. M * (k - d) <= -M
    BY <1>1, <1>4, SMT
  <2> QED
    BY <1>1, <1>2, <2>1, SMT
<1>5. k = d
  BY <1>1, <1>3, <1>4, SMT
<1> QED
  BY <1>1, <1>5, SMT DEF m

(***************************************************************************)
(* crypto_poly1305_final, behind the last block: "c now indicates how many *)
(* times we should subtract 2^130-5 (0 or 1)".  The carry chain decides    *)
(* rightly, and the tag is the hash modulo the prime plus the second half  *)
(* of the key, modulo 2^128: for every h within the postcondition of       *)
(* poly_blocks, every pad, and words of any size from 64 up.               *)
(***************************************************************************)
THEOREM FinalExact ==
    ASSUME Base \in Nat, Base >= 64, NEW h, Reduced(h), NEW pad \in [1 .. 4 -> Words]
    PROVE  /\ Excess(h) \in {0, 5}
           /\ Value4(Tag(h, pad))
                = ((Value5(h) % Prime) + Value4(pad)) % (Base * Base * Base * Base)
<1> DEFINE B4 == Base * Base * Base * Base
           L == h[1] + Base * (h[2] + Base * (h[3] + Base * h[4]))
           V == Value5(h)
           K == Value4(pad)
<1>1. /\ h[1] \in 0 .. Base - 1 /\ h[2] \in 0 .. Base - 1 /\ h[3] \in 0 .. Base - 1
      /\ h[4] \in 0 .. Base - 1 /\ h[5] \in 0 .. 4
  BY SMTT(30) DEF Reduced, Words
<1>2. /\ pad[1] \in 0 .. Base - 1 /\ pad[2] \in 0 .. Base - 1
      /\ pad[3] \in 0 .. Base - 1 /\ pad[4] \in 0 .. Base - 1
  BY SMTT(30) DEF Words
<1>3. L \in Nat /\ L < B4 /\ K \in Nat /\ K < B4
  BY <1>1, <1>2, FourWords DEF Value4
<1>4. B4 \in Nat /\ B4 >= 64
  <2>1. Base * Base \in Nat /\ Base * Base >= 64
    BY SMT
  <2>2. ASSUME NEW n \in Nat, n >= 64 PROVE n * Base \in Nat /\ n * Base >= 64
    BY <2>2, SMT
  <2> QED
    BY <2>1, <2>2
<1>5. V = L + B4 * h[5]
  <2>1. ASSUME NEW B \in Int, NEW a \in Int, NEW b \in Int, NEW c \in Int, NEW d \in Int,
               NEW e \in Int
        PROVE  a + B * (b + B * (c + B * (d + B * e)))
                = (a + B * (b + B * (c + B * d))) + (B * B * B * B) * e
    BY SMTT(30)
  <2>2. /\ Base \in Int /\ h[1] \in Int /\ h[2] \in Int /\ h[3] \in Int /\ h[4] \in Int
        /\ h[5] \in Int
    BY <1>1, SMT
  <2> QED
    BY <2>1, <2>2 DEF Value5
\* The first chain: 5 + L with its carry C on top.
<1> DEFINE c1 == 5 + h[1]
           c2 == High(c1) + h[2]
           c3 == High(c2) + h[3]
           c4 == High(c3) + h[4]
           C == High(c4)
           R == U32(c1) + Base * (U32(c2) + Base * (U32(c3) + Base * U32(c4)))
           q == (C + h[5]) \div 4
<1>6. /\ c1 \in Nat /\ c2 \in Nat /\ c3 \in Nat /\ c4 \in Nat
      /\ 5 + L = R + B4 * C
  <2>1. /\ h[1] \in Nat /\ h[2] \in Nat /\ h[3] \in Nat /\ h[4] \in Nat /\ 5 \in Nat
    BY <1>1, SMT
  <2>2. /\ c1 = 5 + h[1] /\ c2 = High(c1) + h[2]
        /\ c3 = High(c2) + h[3] /\ c4 = High(c3) + h[4]
    OBVIOUS
  <2> HIDE DEF c1, c2, c3, c4
  <2>3. AddsUp(5, h[1], h[2], h[3], h[4], c1, c2, c3, c4)
    BY <2>1, <2>2, Ripple
  <2> QED
    BY ONLY <2>3, Zenon DEF AddsUp, L, R, C, B4
<1> HIDE DEF c1, c2, c3, c4
<1>7. R \in Nat /\ R < B4 /\ C \in Nat
  <2>1. ASSUME NEW n \in Nat PROVE U32(n) \in 0 .. Base - 1 /\ High(n) \in Nat
    BY <2>1, Split, SMT
  <2>2. /\ U32(c1) \in 0 .. Base - 1 /\ U32(c2) \in 0 .. Base - 1
        /\ U32(c3) \in 0 .. Base - 1 /\ U32(c4) \in 0 .. Base - 1 /\ C \in Nat
    BY <1>6, <2>1
  <2> QED
    BY <2>2, FourWords
<1> HIDE DEF C, R, L, V, K, B4
<1>8. C \in 0 .. 1
  <2>1. ASSUME C >= 2 PROVE FALSE
    <3>1. B4 * C >= 2 * B4
      BY <1>4, <1>7, <2>1, SMT
    <3> QED
      BY <1>3, <1>4, <1>6, <1>7, <3>1, SMT
  <2> QED
    BY <1>7, <2>1, SMT
<1>9. /\ q \in 0 .. 1
      /\ q = 1 => C + h[5] >= 4 /\ C + h[5] <= 5
      /\ q = 0 => C + h[5] <= 3
  BY <1>1, <1>8, SMT
<1> HIDE DEF q
<1>10. Excess(h) = q * 5
  BY DEF Excess, q, C, c1, c2, c3, c4
<1>11. Excess(h) \in {0, 5}
  BY <1>9, <1>10, SMT
<1>12. V \in Nat /\ V + 5 = R + B4 * (C + h[5])
  <2>1. B4 * (C + h[5]) = B4 * C + B4 * h[5] /\ B4 * C \in Nat /\ B4 * h[5] \in Nat
    BY <1>1, <1>4, <1>7, SMT
  <2> QED
    BY <1>3, <1>5, <1>6, <1>7, <2>1, SMT
<1>13. Prime = 4 * B4 - 5 /\ Prime \in Nat /\ Prime > 0
  BY <1>4, SMT DEF Prime, B4
<1>14. q * Prime <= V /\ V < (q + 1) * Prime
  <2> DEFINE s == C + h[5]
  <2>0. s \in 0 .. 5 /\ V + 5 = R + B4 * s
    BY <1>1, <1>8, <1>12, SMT
  <2> HIDE DEF s
  <2>1. CASE q = 0
    <3>1. B4 * s <= 3 * B4 /\ B4 * s \in Nat
      BY <1>4, <1>9, <2>0, <2>1, SMT DEF s
    <3>2. V + 5 < 4 * B4
      BY <1>4, <1>7, <1>12, <2>0, <3>1, SMT
    <3> QED
      BY <1>4, <1>12, <1>13, <2>1, <3>2, SMT
  <2>2. CASE q = 1
    <3>1. B4 * s >= 4 * B4 /\ B4 * s <= 5 * B4
      BY <1>4, <1>9, <2>0, <2>2, SMT DEF s
    <3>2. V + 5 >= 4 * B4 /\ V + 5 < 6 * B4
      BY <1>4, <1>7, <1>12, <2>0, <3>1, SMT
    <3> QED
      BY <1>4, <1>12, <1>13, <2>2, <3>2, SMT
  <2> QED
    BY <1>9, <2>1, <2>2, SMT
<1>15. V % Prime = V - q * Prime
  BY <1>9, <1>12, <1>13, <1>14, ModOnce
\* The second chain: the tag T with a carry E that is dropped.
<1> DEFINE d1 == q * 5 + h[1] + pad[1]
           d2 == High(d1) + h[2] + pad[2]
           d3 == High(d2) + h[3] + pad[3]
           d4 == High(d3) + h[4] + pad[4]
           T == U32(d1) + Base * (U32(d2) + Base * (U32(d3) + Base * U32(d4)))
           E == High(d4)
<1>16. Value4(Tag(h, pad)) = T
  BY <1>10, Zenon DEF Value4, Tag

<1>17. /\ d1 \in Nat /\ d2 \in Nat /\ d3 \in Nat /\ d4 \in Nat
       /\ q * 5 + (h[1] + pad[1] + Base * (h[2] + pad[2] + Base * (h[3] + pad[3]
            + Base * (h[4] + pad[4])))) = T + B4 * E
  <2> DEFINE a1 == h[1] + pad[1]
             a2 == h[2] + pad[2]
             a3 == h[3] + pad[3]
             a4 == h[4] + pad[4]
  <2>1. a1 \in Nat /\ a2 \in Nat /\ a3 \in Nat /\ a4 \in Nat /\ q * 5 \in Nat
    BY <1>1, <1>2, <1>9, SMT
  <2>2. d1 = q * 5 + a1 /\ d1 \in Nat
    BY <1>1, <1>2, <1>9, SMT
  <2> HIDE DEF d1
  <2>3. High(d1) \in Nat
    BY <2>2, Split
  <2>4. d2 = High(d1) + a2 /\ d2 \in Nat
    BY <1>1, <1>2, <2>3, SMT
  <2> HIDE DEF d2
  <2>5. High(d2) \in Nat
    BY <2>4, Split, SMTT(30)
  <2>6. d3 = High(d2) + a3 /\ d3 \in Nat
    BY <1>1, <1>2, <2>5, SMT
  <2> HIDE DEF d3
  <2>7. High(d3) \in Nat
    BY <2>6, Split, SMTT(30)
  <2>8. d4 = High(d3) + a4 /\ d4 \in Nat
    BY <1>1, <1>2, <2>7, SMT
  <2>0. a1 \in Nat /\ a2 \in Nat /\ a3 \in Nat /\ a4 \in Nat /\ q * 5 \in Nat
    BY <2>1
  <2> HIDE DEF d4, a1, a2, a3, a4
  <2>9. q * 5 + (a1 + Base * (a2 + Base * (a3 + Base * a4))) = T + B4 * E
    <3>1. AddsUp(q * 5, a1, a2, a3, a4, d1, d2, d3, d4)
      BY <2>0, <2>2, <2>4, <2>6, <2>8, Ripple
    <3> QED
      BY ONLY <3>1, Zenon DEF AddsUp, B4, T, E
  <2> QED
    BY <2>2, <2>4, <2>6, <2>8, <2>9 DEF a1, a2, a3, a4
<1> HIDE DEF d1, d2, d3, d4
<1>18. T \in Nat /\ T < B4 /\ E \in Nat
  <2>1. ASSUME NEW n \in Nat PROVE U32(n) \in 0 .. Base - 1 /\ High(n) \in Nat
    BY <2>1, Split, SMT
  <2>2. /\ U32(d1) \in 0 .. Base - 1 /\ U32(d2) \in 0 .. Base - 1
        /\ U32(d3) \in 0 .. Base - 1 /\ U32(d4) \in 0 .. Base - 1 /\ E \in Nat
    BY <1>17, <2>1
  <2> QED
    BY <2>2, FourWords DEF B4
<1>19. q * 5 + (L + K) = T + B4 * E
  <2>1. ASSUME NEW B \in Int, NEW a1 \in Int, NEW a2 \in Int, NEW a3 \in Int,
               NEW a4 \in Int, NEW b1 \in Int, NEW b2 \in Int, NEW b3 \in Int, NEW b4 \in Int
        PROVE  a1 + b1 + B * (a2 + b2 + B * (a3 + b3 + B * (a4 + b4)))
                = (a1 + B * (a2 + B * (a3 + B * a4))) + (b1 + B * (b2 + B * (b3 + B * b4)))
    BY SMTT(30)
  <2>2. /\ Base \in Int /\ h[1] \in Int /\ h[2] \in Int /\ h[3] \in Int /\ h[4] \in Int
        /\ pad[1] \in Int /\ pad[2] \in Int /\ pad[3] \in Int /\ pad[4] \in Int
    BY <1>1, <1>2, SMT
  <2>3. h[1] + pad[1] + Base * (h[2] + pad[2] + Base * (h[3] + pad[3]
            + Base * (h[4] + pad[4]))) = L + K
    BY <2>1, <2>2 DEF L, K, Value4
  <2> HIDE DEF T, E
  <2> QED
    BY <1>17, <2>3
<1> HIDE DEF T, E
<1>20. (V - q * Prime) + K = B4 * (E + h[5] - 4 * q) + T
  <2>1. B4 * (E + h[5] - 4 * q) = B4 * E + B4 * h[5] - 4 * (B4 * q)
    BY <1>1, <1>4, <1>9, <1>18, SMTT(30)
  <2>2. q * Prime = 4 * (B4 * q) - 5 * q
    BY <1>4, <1>9, <1>13, SMTT(30)
  <2>3. B4 * E \in Int /\ B4 * h[5] \in Int /\ B4 * q \in Int
    BY <1>1, <1>4, <1>9, <1>18, SMT
  <2> QED
    BY <1>3, <1>5, <1>9, <1>18, <1>19, <2>1, <2>2, <2>3, SMTT(30)
<1>21. ((V - q * Prime) + K) \in Nat
  <2>1. q * Prime \in Nat
    BY <1>9, <1>13, SMT
  <2> QED
    BY <1>3, <1>12, <1>14, <2>1, SMT
<1>22. ((V - q * Prime) + K) % B4 = T
  <2>1. E + h[5] - 4 * q \in Int
    BY <1>1, <1>9, <1>18, SMT
  <2>2. B4 > 0
    BY <1>4, SMT
  <2> DEFINE n == (V - q * Prime) + K
             k == E + h[5] - 4 * q
  <2>3. n \in Nat /\ n = B4 * k + T /\ k \in Int
    BY <1>20, <1>21, <2>1
  <2> HIDE DEF n, k
  <2>4. n % B4 = T
    BY <1>4, <1>18, <2>2, <2>3, ModOfSum
  <2> QED
    BY <2>4 DEF n
<1> QED
  BY <1>11, <1>15, <1>16, <1>22 DEF V, K, B4

-----------------------------------------------------------------------------
(* A set of naturals has a least element.                                  *)
LEMMA Least ==
    ASSUME NEW T, T \subseteq Nat, T # {}
    PROVE  \E n \in T : \A m \in T : n <= m
<1> DEFINE below(n) == {k \in Nat : k < n}
           U == {below(n) : n \in T}
<1>1. \A n \in Nat : IsFiniteSet(below(n))
  <2>1. ASSUME NEW n \in Nat PROVE IsFiniteSet(below(n))
    <3>1. below(n) \subseteq 0 .. n
      OBVIOUS
    <3>2. IsFiniteSet(0 .. n)
      BY FS_Interval
    <3> QED BY <3>1, <3>2, FS_Subset, Zenon
  <2> QED BY <2>1, Zenon
<1>2. U \subseteq FiniteSubsetsOf(Nat) /\ U # {}
  BY <1>1, Zenon DEF FiniteSubsetsOf
<1>3. PICK x \in U : \A y \in U : <<y, x>> \notin StrictSubsetOrdering(Nat)
  <2> HIDE DEF U
  <2> QED BY <1>2, FS_StrictSubsetOrderingWellFounded, WFMin, Zenon
<1>4. PICK n \in T : x = below(n)
  OBVIOUS
<1>5. ASSUME NEW m \in T, m < n PROVE FALSE
  <2>1. below(m) \subseteq below(n) /\ m \in below(n) /\ m \notin below(m)
    BY <1>5
  <2>2. <<below(m), x>> \in StrictSubsetOrdering(Nat)
    BY <1>4, <2>1, Zenon DEF StrictSubsetOrdering
  <2> QED BY <1>3, <2>2, Zenon
<1> QED BY <1>5

(* The modulus and Base^4 are positive numbers.                            *)
LEMMA PrimeLarge ==
    ASSUME Base \in Nat, Base >= 64
    PROVE  /\ Base * Base * Base * Base \in Nat /\ Prime \in Nat /\ Prime > 5
           /\ Base * Base * Base * Base > 0
<1>1. Base * Base \in Nat /\ Base * Base >= 64
  BY SMT
<1>2. Base * Base * Base \in Nat /\ Base * Base * Base >= 64
  <2> DEFINE n == Base * Base
  <2>1. n \in Nat /\ n >= 64
    BY <1>1, Zenon
  <2> HIDE DEF n
  <2>2. n * Base \in Nat /\ n * Base >= 64
    BY <2>1, SMT
  <2> QED BY <2>2, Zenon DEF n
<1>3. Base * Base * Base * Base \in Nat /\ Base * Base * Base * Base >= 64
  <2> DEFINE n == Base * Base * Base
  <2>1. n \in Nat /\ n >= 64
    BY <1>2, Zenon
  <2> HIDE DEF n
  <2>2. n * Base \in Nat /\ n * Base >= 64
    BY <2>1, SMT
  <2> QED BY <2>2, Zenon DEF n
<1> QED BY <1>3, SMT DEF Prime

\* Numbers that differ by a multiple of the modulus have the same remainder.
LEMMA SameRest ==
    ASSUME NEW P \in Nat, P > 0, NEW x \in Nat, NEW y \in Nat, NEW k \in Int,
           x = y + k * P
    PROVE  x % P = y % P
<1> DEFINE v == y % P
           d == y \div P
<1>1. v \in Nat /\ v < P /\ d \in Nat /\ y = P * d + v
  BY DivMod, Zenon
<1> HIDE DEF v, d
<1>2. PICK q \in Int : x = P * q + v
  <2>1. x = P * (d + k) + v /\ d + k \in Int
    BY <1>1, SMT
  <2> QED BY <2>1, Zenon
<1>3. x % P = v
  <2>1. P \in Nat /\ P > 0 /\ v \in Nat /\ v < P /\ q \in Int /\ x \in Nat /\ x = P * q + v
    BY <1>1, <1>2, Zenon
  <2> QED BY ONLY <2>1, ModOfSum, SMTT(30)
<1> QED BY <1>3, Zenon DEF v

(* A remainder is the number less a multiple of the modulus.               *)
LEMMA RestOf ==
    ASSUME NEW P \in Nat, P > 0, NEW x \in Nat
    PROVE  x % P \in Nat /\ x % P < P /\ \E k \in Int : x % P = x + k * P
<1> DEFINE v == x % P
           d == x \div P
<1>1. v \in Nat /\ v < P /\ d \in Nat /\ x = P * d + v
  BY DivMod, Zenon
<1> HIDE DEF v, d
<1>2. -d \in Int /\ v = x + (-d) * P
  BY <1>1, SMT
<1> QED BY <1>1, <1>2, Zenon DEF v

(* Terms may be reduced before they are added.                             *)
LEMMA RestOfSum ==
    ASSUME NEW P \in Nat, P > 0, NEW x \in Nat, NEW y \in Nat
    PROVE  /\ ((x % P) + y) % P = (x + y) % P
           /\ (x + (y % P)) % P = (x + y) % P
<1>1. PICK k \in Int : x % P = x + k * P
  BY RestOf, Zenon
<1>2. PICK j \in Int : y % P = y + j * P
  BY RestOf, Zenon
<1> DEFINE u == x % P
           w == y % P
<1>3. u \in Nat /\ w \in Nat
  BY RestOf, Zenon
<1> HIDE DEF u, w
<1>4. u + y = (x + y) + k * P /\ x + w = (x + y) + j * P
  <2>1. k * P \in Int /\ j * P \in Int
    BY SMT
  <2> QED BY <1>1, <1>2, <1>3, <2>1 DEF u, w
<1>5. u + y \in Nat /\ x + w \in Nat /\ x + y \in Nat
  BY <1>3
<1>6. (u + y) % P = (x + y) % P
  BY <1>4, <1>5, SameRest
<1>7. (x + w) % P = (x + y) % P
  BY <1>4, <1>5, SameRest
<1> QED BY <1>6, <1>7, Zenon DEF u, w

(* A factor may be reduced before the multiplication.                      *)
LEMMA RestOfProduct ==
    ASSUME NEW P \in Nat, P > 0, NEW x \in Nat, NEW y \in Nat
    PROVE  ((x % P) * y) % P = (x * y) % P
<1> DEFINE u == x % P
<1>1. PICK k \in Int : u = x + k * P
  BY RestOf, Zenon
<1>2. u \in Nat
  BY RestOf, Zenon
<1> HIDE DEF u
<1>3. u * y = x * y + (k * y) * P
  BY <1>1, SMT
<1>4. u * y \in Nat /\ x * y \in Nat /\ k * y \in Int
  BY <1>2, SMT
<1>5. (u * y) % P = (x * y) % P
  BY <1>3, <1>4, SameRest, Zenon
<1> QED BY <1>5, Zenon DEF u

LEMMA Halves ==
    ASSUME NEW n \in Nat, n # 0
    PROVE  n \div 2 \in Nat /\ n \div 2 < n /\ n % 2 \in 0 .. 1 /\ n = 2 * (n \div 2) + (n % 2)
  BY DivMod

(* The reference multiplies: b times a modulo the prime.                   *)
LEMMA TimesModIs ==
    ASSUME Base \in Nat, Base >= 64, NEW a \in Nat, NEW b \in Nat
    PROVE  TimesMod(a, b) = (a * b) % Prime
<1> DEFINE Next1(t, n) == ((n % 2) * a + ((2 * t) % Prime)) % Prime
           Times(f) == [n \in 0 .. b |-> IF n = 0 THEN 0 ELSE Next1(f[n \div 2], n)]
           times == CHOOSE f : f = Times(f)
           Value(n) == (n * a) % Prime
           g == [n \in 0 .. b |-> Value(n)]
<1>0. Prime \in Nat /\ Prime > 0
  BY PrimeLarge
<1>1. Value(0) = 0
  BY <1>0, ModSmall
<1>2. ASSUME NEW n \in Nat, n # 0 PROVE Next1(Value(n \div 2), n) = Value(n)
  <2> DEFINE q == n \div 2
             e == n % 2
             v == (q * a) % Prime
  <2>1. q \in Nat /\ e \in Nat /\ n = 2 * q + e
    BY Halves, <1>2
  <2>2. v \in Nat
    <3>1. q * a \in Nat
      BY <2>1, SMT
    <3> QED BY <1>0, <3>1, RestOf, Zenon
  <2> HIDE DEF q, e
  <2>3. (2 * v) % Prime = (2 * (q * a)) % Prime
    <3>1. q * a \in Nat
      BY <2>1, SMT
    <3> DEFINE x == q * a
    <3>2. x \in Nat /\ 2 \in Nat
      BY <3>1, Zenon
    <3> HIDE DEF x
    <3>3. ((x % Prime) * 2) % Prime = (x * 2) % Prime
      BY <1>0, <3>2, RestOfProduct, Zenon
    <3>4. x % Prime \in Nat
      BY <1>0, <3>2, RestOf, Zenon
    <3>5. (2 * (x % Prime)) % Prime = (2 * x) % Prime
      BY <3>2, <3>3, <3>4
    <3> QED BY <3>5, Zenon DEF x
  <2> HIDE DEF v
  <2>4. 2 * (q * a) \in Nat /\ e * a \in Nat /\ 2 * (q * a) + e * a = n * a
    BY <2>1, SMT
  <2> DEFINE y == 2 * (q * a)
             z == e * a
  <2>5. y \in Nat /\ z \in Nat
    BY <2>4, Zenon
  <2> HIDE DEF y, z
  <2>6. (z + (y % Prime)) % Prime = (y + z) % Prime
    <3>1. ((y % Prime) + z) % Prime = (y + z) % Prime
      BY <1>0, <2>5, RestOfSum, Zenon
    <3>2. y % Prime \in Nat
      BY <1>0, <2>5, RestOf, Zenon
    <3>3. (y % Prime) + z = z + (y % Prime)
      BY <2>5, <3>2
    <3> QED BY <3>1, <3>3, Zenon
  <2>7. (e * a + ((2 * v) % Prime)) % Prime = (n * a) % Prime
    BY <2>3, <2>4, <2>6, Zenon DEF y, z
  <2> QED BY <2>7, Zenon DEF v, q, e
<1> HIDE DEF Next1, Value
<1>3. g = Times(g)
  <2>1. ASSUME NEW n \in 0 .. b
        PROVE  g[n] = IF n = 0 THEN 0 ELSE Next1(g[n \div 2], n)
    <3>1. CASE n = 0
      BY <1>1, <3>1, Zenon
    <3>2. CASE n # 0
      <4>1. n \in Nat /\ n \div 2 \in 0 .. b
        <5>1. n \in Nat /\ n <= b
          OBVIOUS
        <5>2. n \div 2 \in Nat /\ n \div 2 < n
          BY <3>2, <5>1, Halves, Zenon
        <5> QED BY <5>1, <5>2
      <4>2. g[n \div 2] = Value(n \div 2) /\ g[n] = Value(n)
        BY <4>1, Zenon
      <4> QED BY <1>2, <3>2, <4>1, <4>2, Zenon
    <3> QED BY <3>1, <3>2, Zenon
  <2> QED BY <2>1, Zenon
<1> HIDE DEF g
<1>4. times = Times(times)
  BY <1>3, Zenon
<1> HIDE DEF times
<1>5. \A n \in 0 .. b : times[n] = g[n]
  <2> SUFFICES ASSUME \E n \in 0 .. b : times[n] # g[n] PROVE FALSE
    OBVIOUS
  <2> DEFINE T == {n \in 0 .. b : times[n] # g[n]}
  <2>1. PICK n \in T : \A k \in T : n <= k
    <3>1. T \subseteq Nat /\ T # {}
      OBVIOUS
    <3> HIDE DEF T
    <3> QED BY <3>1, Least, Zenon
  <2>2. n \in 0 .. b /\ n # 0
    BY <1>3, <1>4, Zenon
  <2>3. n \div 2 \in 0 .. b /\ n \div 2 < n
    <3>1. n \in Nat /\ n <= b
      BY <2>2
    <3>2. n \div 2 \in Nat /\ n \div 2 < n
      BY <2>2, <3>1, Halves, Zenon
    <3> QED BY <3>1, <3>2
  <2>4. times[n \div 2] = g[n \div 2]
    BY <2>1, <2>3
  <2> QED BY <1>3, <1>4, <2>2, <2>4, Zenon
<1>6. TimesMod(a, b) = times[b]
  BY Zenon DEF TimesMod, times, Times, Next1
<1>7. b \in 0 .. b /\ a * b = b * a
  OBVIOUS
<1> QED BY <1>5, <1>6, <1>7, Zenon DEF g, Value

-----------------------------------------------------------------------------
\* f repeats F from s0 on.
Steps(f, n, s0, F) == f = [i \in 0 .. n |-> IF i = 0 THEN s0 ELSE F[<<i, f[i - 1]>>]]

(* What repeats a function on a set can be repeated any number of times.   *)
LEMMA StepsExist ==
    ASSUME NEW S, NEW n \in Nat, NEW s0 \in S, NEW F \in [(1 .. n) \X S -> S]
    PROVE  \E f \in [0 .. n -> S] : Steps(f, n, s0, F)
<1> DEFINE Q(m) == \E f \in [0 .. m -> S] : Steps(f, m, s0, F)
           T == {m \in 0 .. n : ~Q(m)}
<1>1. SUFFICES ASSUME T # {} PROVE FALSE
  OBVIOUS
<1>2. PICK m \in T : \A k \in T : m <= k
  <2>1. T \subseteq Nat
    OBVIOUS
  <2> HIDE DEF T
  <2> QED BY <1>1, <2>1, Least, Zenon
<1>3. m # 0
  <2> DEFINE f == [i \in 0 .. 0 |-> s0]
  <2>1. f \in [0 .. 0 -> S] /\ Steps(f, 0, s0, F)
    BY DEF Steps
  <2> QED BY <2>1, Zenon
<1>4. m \in 1 .. n /\ m - 1 \in 0 .. n /\ m - 1 \notin T
  BY <1>2, <1>3
<1>5. PICK f \in [0 .. m - 1 -> S] : Steps(f, m - 1, s0, F)
  BY <1>4, Zenon
<1> DEFINE e == F[<<m, f[m - 1]>>]
           g == [i \in 0 .. m |-> IF i = m THEN e ELSE f[i]]
<1>6. e \in S
  <2>1. m - 1 \in 0 .. m - 1
    BY <1>4
  <2>2. <<m, f[m - 1]>> \in (1 .. n) \X S
    BY <1>4, <2>1, Zenon
  <2> QED BY <2>2, Zenon
<1>7. g \in [0 .. m -> S]
  BY <1>4, <1>6
<1>8. Steps(g, m, s0, F)
  <2>1. ASSUME NEW i \in 0 .. m
        PROVE  g[i] = IF i = 0 THEN s0 ELSE F[<<i, g[i - 1]>>]
    <3>1. CASE i = m
      <4>1. g[i] = e /\ g[i - 1] = f[m - 1] /\ i # 0
        BY <1>4, <3>1
      <4> QED BY <3>1, <4>1, Zenon
    <3>2. CASE i # m
      <4>1. i \in 0 .. m - 1 /\ g[i] = f[i]
        BY <1>4, <3>2
      <4>2. i # 0 => g[i - 1] = f[i - 1]
        BY <1>4, <4>1
      <4>3. f[i] = IF i = 0 THEN s0 ELSE F[<<i, f[i - 1]>>]
        BY <1>5, <4>1, Zenon DEF Steps
      <4> QED BY <4>1, <4>2, <4>3, Zenon
    <3> QED BY <3>1, <3>2, Zenon
  <2> QED BY <2>1, Zenon DEF Steps
<1> QED BY <1>2, <1>7, <1>8, Zenon

(* A function on 1 .. n is a sequence of length n.                         *)
LEMMA WordSeq ==
    ASSUME NEW S, NEW n \in Nat, NEW s \in [1 .. n -> S]
    PROVE  s \in Seq(S) /\ Len(s) = n
<1>1. s \in Seq(S)
  BY SeqDef, Zenon
<1>2. Len(s) \in Nat /\ DOMAIN s = 1 .. Len(s)
  BY <1>1, LenProperties, Zenon
<1> QED BY <1>1, <1>2

(* Up to five words as a number.                                           *)
LEMMA NumberIs ==
    ASSUME Base \in Nat, NEW n \in 1 .. 5, NEW w \in [1 .. n -> Nat]
    PROVE  LET t1 == w[n]
               t2 == w[n - 1] + Base * t1
               t3 == w[n - 2] + Base * t2
               t4 == w[n - 3] + Base * t3
               t5 == w[n - 4] + Base * t4
           IN  Number(w) = IF n = 1 THEN t1 ELSE IF n = 2 THEN t2 ELSE IF n = 3 THEN t3
                           ELSE IF n = 4 THEN t4 ELSE t5
<1> DEFINE t1 == w[n]
           t2 == w[n - 1] + Base * t1
           t3 == w[n - 2] + Base * t2
           t4 == w[n - 3] + Base * t3
           t5 == w[n - 4] + Base * t4
           G(i) == IF i = 0 THEN 0 ELSE IF i = 1 THEN t1 ELSE IF i = 2 THEN t2
                   ELSE IF i = 3 THEN t3 ELSE IF i = 4 THEN t4 ELSE t5
           W(i) == w[n - i + 1]
           Top(f) == [i \in 0 .. n |-> IF i = 0 THEN 0 ELSE W(i) + Base * f[i - 1]]
           top == CHOOSE f : f = Top(f)
           g == [i \in 0 .. n |-> G(i)]
<1>1. Len(w) = n
  BY WordSeq
<1>2. ASSUME NEW i \in 0 .. n PROVE G(i) = IF i = 0 THEN 0 ELSE W(i) + Base * G(i - 1)
  <2>0. n \in Nat /\ i \in Nat /\ i <= 5
    OBVIOUS
  <2>1. CASE i = 0
    BY <2>1, Zenon
  <2>2. CASE i = 1
    <3>1. W(1) = t1 /\ t1 \in Nat
      OBVIOUS
    <3> QED BY <2>2, <3>1
  <2>3. CASE i = 2
    <3>1. W(2) = w[n - 1]
      OBVIOUS
    <3> QED BY <2>3, <3>1
  <2>4. CASE i = 3
    <3>1. W(3) = w[n - 2]
      OBVIOUS
    <3> QED BY <2>4, <3>1
  <2>5. CASE i = 4
    <3>1. W(4) = w[n - 3]
      OBVIOUS
    <3> QED BY <2>5, <3>1
  <2>6. CASE i = 5
    <3>1. W(5) = w[n - 4]
      OBVIOUS
    <3> QED BY <2>6, <3>1
  <2> QED BY <2>0, <2>1, <2>2, <2>3, <2>4, <2>5, <2>6
<1> HIDE DEF G, W
<1>3. g = Top(g)
  <2>1. ASSUME NEW i \in 0 .. n
        PROVE  g[i] = IF i = 0 THEN 0 ELSE W(i) + Base * g[i - 1]
    <3>1. i # 0 => i - 1 \in 0 .. n
      OBVIOUS
    <3> QED BY <1>2, <3>1, Zenon
  <2> QED BY <2>1, Zenon
<1> HIDE DEF g
<1>4. top = Top(top)
  BY <1>3, Zenon
<1> HIDE DEF top
<1>5. ASSUME NEW i \in 0 .. n PROVE top[i] = g[i]
  <2>1. ASSUME NEW k \in 0 .. n PROVE top[k] = IF k = 0 THEN 0 ELSE W(k) + Base * top[k - 1]
    BY <1>4, Zenon
  <2>2. ASSUME NEW k \in 0 .. n PROVE g[k] = IF k = 0 THEN 0 ELSE W(k) + Base * g[k - 1]
    BY <1>3, Zenon
  <2>3. top[0] = g[0]
    BY <2>1, <2>2
  <2>4. ASSUME NEW k \in 0 .. n, k # 0, top[k - 1] = g[k - 1] PROVE top[k] = g[k]
    BY <2>1, <2>2, <2>4, Zenon
  <2>5. n >= 1 => top[1] = g[1]
    BY <2>3, <2>4
  <2>6. n >= 2 => top[2] = g[2]
    BY <2>5, <2>4
  <2>7. n >= 3 => top[3] = g[3]
    BY <2>6, <2>4
  <2>8. n >= 4 => top[4] = g[4]
    BY <2>7, <2>4
  <2>9. n >= 5 => top[5] = g[5]
    BY <2>8, <2>4
  <2> QED BY <2>3, <2>5, <2>6, <2>7, <2>8, <2>9
<1>6. Number(w) = top[n]
  BY <1>1, Zenon DEF Number, top, Top, W
<1>7. top[n] = G(n)
  BY <1>5 DEF g
<1>8. G(n) = IF n = 1 THEN t1 ELSE IF n = 2 THEN t2 ELSE IF n = 3 THEN t3
             ELSE IF n = 4 THEN t4 ELSE t5
  BY DEF G
<1> QED BY <1>6, <1>7, <1>8, Zenon

-----------------------------------------------------------------------------
Block(m, i) == SubSeq(m, 4 * i - 3, IF 4 * i < Len(m) THEN 4 * i ELSE Len(m))
Blocks(m) == (Len(m) + 3) \div 4
Absorb(v, x, r) == TimesMod((v + (x % Prime)) % Prime, Number(r))

\* f gives the value after each block of m.
Values(f, m, r) ==
    /\ f \in [0 .. Blocks(m) -> Nat] /\ f[0] = 0
    /\ \A i \in 1 .. Blocks(m) :
        f[i] = Absorb(f[i - 1], Number(Append(Block(m, i), 1)), r)

LEMMA NumberNat ==
    ASSUME Base \in Nat, NEW w \in Seq(Nat), Len(w) \in 1 .. 5
    PROVE  Number(w) \in Nat
<1> DEFINE n == Len(w)
           t1 == w[n]
           t2 == w[n - 1] + Base * t1
           t3 == w[n - 2] + Base * t2
           t4 == w[n - 3] + Base * t3
           t5 == w[n - 4] + Base * t4
<1>1. n \in 1 .. 5 /\ w \in [1 .. n -> Nat]
  BY LenProperties, Zenon
<1> HIDE DEF n
<1>2. Number(w) = IF n = 1 THEN t1 ELSE IF n = 2 THEN t2 ELSE IF n = 3 THEN t3
                  ELSE IF n = 4 THEN t4 ELSE t5
  BY <1>1, NumberIs, Zenon
<1>3. ASSUME NEW x \in Nat, NEW y \in Nat PROVE x + Base * y \in Nat
  BY SMT
<1>4. /\ n > 1 => w[n - 1] \in Nat
      /\ n > 2 => w[n - 2] \in Nat
      /\ n > 3 => w[n - 3] \in Nat
      /\ n > 4 => w[n - 4] \in Nat
  BY <1>1
<1>5. t1 \in Nat
  BY <1>1
<1>6. n > 1 => t2 \in Nat
  BY <1>3, <1>4, <1>5, Zenon
<1> HIDE DEF t1, t2
<1>7. n > 2 => t3 \in Nat
  <2>1. n > 2 => n > 1
    BY <1>1
  <2> QED BY <1>3, <1>4, <1>6, <2>1, Zenon
<1> HIDE DEF t3
<1>8. n > 3 => t4 \in Nat
  <2>1. n > 3 => n > 2
    BY <1>1
  <2> QED BY <1>3, <1>4, <1>7, <2>1, Zenon
<1> HIDE DEF t4
<1>9. n > 4 => t5 \in Nat
  <2>1. n > 4 => n > 3
    BY <1>1
  <2> QED BY <1>3, <1>4, <1>8, <2>1, Zenon
<1> HIDE DEF t5
<1> QED BY <1>1, <1>2, <1>5, <1>6, <1>7, <1>8, <1>9

(* A block of a message has one to four words.                             *)
LEMMA BlockIs ==
    ASSUME NEW m \in Seq(Words), NEW i \in 1 .. Blocks(m)
    PROVE  /\ Block(m, i) \in Seq(Words) /\ Len(Block(m, i)) \in 1 .. 4
           /\ Append(Block(m, i), 1) \in Seq(Nat)
           /\ Len(Append(Block(m, i), 1)) = Len(Block(m, i)) + 1
<1> DEFINE L == Len(m)
           lo == 4 * i - 3
           hi == IF 4 * i < L THEN 4 * i ELSE L
           b == Block(m, i)
<1>1. L \in Nat /\ m \in [1 .. L -> Words]
  BY LenProperties, Zenon
<1>2. i \in Nat /\ i >= 1 /\ 4 * i <= L + 3
  BY <1>1 DEF Blocks
<1>3. lo \in Int /\ hi \in Int /\ lo <= hi /\ hi - lo + 1 \in 1 .. 4 /\ lo .. hi \subseteq 1 .. L
  BY <1>1, <1>2
<1>4. \A k \in lo .. hi : m[k] \in Words
  BY <1>1, <1>3, Zenon
<1>5. b = SubSeq(m, lo, hi)
  BY Zenon DEF Block
<1> HIDE DEF L, lo, hi, b
<1>6. b \in Seq(Words) /\ Len(b) \in 1 .. 4
  BY <1>3, <1>4, <1>5, SubSeqProperties
<1>7. b \in Seq(Nat) /\ 1 \in Nat
  <2>1. Words \subseteq Nat
    BY Zenon DEF Words
  <2> QED BY <1>6, <2>1, SeqMonotonic, Zenon
<1>8. Append(b, 1) \in Seq(Nat) /\ Len(Append(b, 1)) = Len(b) + 1
  BY <1>7, AppendProperties, Zenon
<1> QED BY <1>6, <1>8, Zenon DEF b

(* A step of the reference: (v + x) * r modulo the prime.                  *)
LEMMA AbsorbIs ==
    ASSUME Base \in Nat, Base >= 64, NEW r \in [1 .. 4 -> Nat], NEW v \in Nat, NEW x \in Nat
    PROVE  /\ Number(r) \in Nat /\ Absorb(v, x, r) \in Nat
           /\ Absorb(v, x, r) = ((v + x) * Number(r)) % Prime
<1> DEFINE R == Number(r)
           y == v + x
           u == (v + (x % Prime)) % Prime
<1>0. Prime \in Nat /\ Prime > 0
  BY PrimeLarge
<1>1. R \in Nat
  <2>1. r \in Seq(Nat) /\ Len(r) = 4
    BY WordSeq, Zenon
  <2> QED BY <2>1, NumberNat
<1>2. y \in Nat /\ u = y % Prime
  <2>1. u = y % Prime
    BY <1>0, RestOfSum, Zenon
  <2> QED BY <2>1
<1>3. u \in Nat
  BY <1>0, <1>2, RestOf, Zenon
<1> HIDE DEF R, y, u
<1>4. TimesMod(u, R) = (u * R) % Prime
  BY <1>1, <1>3, TimesModIs, Zenon
<1>5. (u * R) % Prime = (y * R) % Prime
  BY <1>0, <1>1, <1>2, RestOfProduct, Zenon
<1>6. (y * R) % Prime \in Nat
  <2> DEFINE z == y * R
  <2>1. z \in Nat
    BY <1>1, <1>2, SMT
  <2> HIDE DEF z
  <2>2. z % Prime \in Nat
    BY <1>0, <2>1, RestOf, Zenon
  <2> QED BY <2>2, Zenon DEF z
<1>7. Absorb(v, x, r) = TimesMod(u, R)
  BY Zenon DEF Absorb, u, R
<1> QED BY <1>1, <1>4, <1>5, <1>6, <1>7, Zenon DEF R, y

(* Polynomial is the value behind the last block.                          *)
LEMMA PolynomialIs ==
    ASSUME Base \in Nat, Base >= 64, NEW r \in [1 .. 4 -> Nat], NEW m \in Seq(Words)
    PROVE  \E f : Values(f, m, r) /\ Polynomial(m, r) = f[Blocks(m)]
<1> DEFINE n == Blocks(m)
           X(i) == Number(Append(Block(m, i), 1))
           F == [p \in (1 .. n) \X Nat |-> Absorb(p[2], X(p[1]), r)]
           Upto(f) == [i \in 0 .. n |-> IF i = 0 THEN 0 ELSE Absorb(f[i - 1], X(i), r)]
           upto == CHOOSE f : f = Upto(f)
<1>1. n \in Nat
  <2>1. Len(m) \in Nat
    BY LenProperties, Zenon
  <2> QED BY <2>1 DEF Blocks
<1>2. ASSUME NEW i \in 1 .. n PROVE X(i) \in Nat
  <2> DEFINE w == Append(Block(m, i), 1)
  <2>1. w \in Seq(Nat) /\ Len(w) \in 1 .. 5
    <3>1. /\ w \in Seq(Nat) /\ Len(w) = Len(Block(m, i)) + 1
          /\ Len(Block(m, i)) \in 1 .. 4
      <4>1. i \in 1 .. Blocks(m)
        OBVIOUS
      <4> QED BY <4>1, BlockIs, Zenon
    <3>2. ASSUME NEW l \in 1 .. 4 PROVE l + 1 \in 1 .. 5
      BY SMT
    <3> QED BY <3>1, <3>2, Zenon
  <2> HIDE DEF w
  <2>2. Number(w) \in Nat
    BY <2>1, NumberNat, Zenon
  <2> QED BY <2>2, Zenon DEF w
<1> HIDE DEF n, X
<1>3. F \in [(1 .. n) \X Nat -> Nat]
  <2>1. ASSUME NEW p \in (1 .. n) \X Nat PROVE Absorb(p[2], X(p[1]), r) \in Nat
    <3>1. p[1] \in 1 .. n /\ p[2] \in Nat
      OBVIOUS
    <3> QED BY <1>2, <3>1, AbsorbIs, Zenon
  <2> QED BY <2>1, Zenon
<1>4. PICK g \in [0 .. n -> Nat] : Steps(g, n, 0, F)
  <2> HIDE DEF F
  <2> QED BY <1>1, <1>3, StepsExist, Zenon
<1>5. g = Upto(g)
  <2>1. ASSUME NEW i \in 0 .. n
        PROVE  g[i] = IF i = 0 THEN 0 ELSE Absorb(g[i - 1], X(i), r)
    <3>1. g[i] = IF i = 0 THEN 0 ELSE F[<<i, g[i - 1]>>]
      BY <1>4, Zenon DEF Steps
    <3>2. CASE i = 0
      BY <3>1, <3>2, Zenon
    <3>3. CASE i # 0
      <4>1. i \in 1 .. n /\ g[i - 1] \in Nat
        BY <1>1, <3>3
      <4>2. <<i, g[i - 1]>> \in (1 .. n) \X Nat
        BY <4>1, Zenon
      <4>3. F[<<i, g[i - 1]>>] = Absorb(g[i - 1], X(i), r)
        BY <4>2, Zenon
      <4> QED BY <3>1, <3>3, <4>3, Zenon
    <3> QED BY <3>2, <3>3, Zenon
  <2>2. g = [i \in 0 .. n |-> g[i]]
    OBVIOUS
  <2> QED BY <2>1, <2>2, Zenon
<1>6. upto = Upto(upto)
  BY <1>5, Zenon
<1> HIDE DEF upto
<1>7. upto[0] = 0 /\ \A i \in 1 .. n : upto[i] = Absorb(upto[i - 1], X(i), r)
  BY <1>1, <1>6
<1>8. \A i \in 0 .. n : upto[i] = g[i]
  <2> SUFFICES ASSUME \E i \in 0 .. n : upto[i] # g[i] PROVE FALSE
    OBVIOUS
  <2> DEFINE T == {i \in 0 .. n : upto[i] # g[i]}
  <2>1. PICK i \in T : \A k \in T : i <= k
    <3>1. T \subseteq Nat /\ T # {}
      OBVIOUS
    <3> HIDE DEF T
    <3> QED BY <3>1, Least, Zenon
  <2>2. g[0] = 0 /\ \A k \in 1 .. n : g[k] = Absorb(g[k - 1], X(k), r)
    BY <1>1, <1>5
  <2>3. i \in 1 .. n /\ i - 1 \in 0 .. n /\ upto[i - 1] = g[i - 1]
    BY <1>1, <1>7, <2>1, <2>2
  <2> QED BY <1>7, <2>1, <2>2, <2>3, Zenon
<1>9. upto \in [0 .. n -> Nat]
  <2>1. upto = [i \in 0 .. n |-> upto[i]]
    BY <1>6, Zenon
  <2> QED BY <1>8, <2>1, Zenon
<1>10. Polynomial(m, r) = upto[n]
  BY Zenon DEF Polynomial, upto, Upto, Absorb, X, n, Block, Blocks
<1> QED BY <1>7, <1>9, <1>10, Zenon DEF Values, n, X

LEMMA PolynomialEmpty ==
    ASSUME Base \in Nat, Base >= 64, NEW r \in [1 .. 4 -> Nat]
    PROVE  Polynomial(<<>>, r) = 0
<1>1. <<>> \in Seq(Words) /\ Len(<<>>) = 0
  BY EmptySeq, Zenon
<1>2. Blocks(<<>>) = 0
  BY <1>1 DEF Blocks
<1>3. PICK f : Values(f, <<>>, r) /\ Polynomial(<<>>, r) = f[Blocks(<<>>)]
  BY <1>1, PolynomialIs, Zenon
<1> QED BY <1>2, <1>3, Zenon DEF Values

\* Where the blocks are in L words of n blocks, and in e words with l words more.
Laid(L, l, e, n) ==
    /\ (L + 3) \div 4 = n /\ (e + 3) \div 4 = n + 1
    /\ 4 * (n + 1) - 3 = L + 1
    /\ (IF 4 * (n + 1) < e THEN 4 * (n + 1) ELSE e) = e
    /\ L + 1 \in L + 1 .. L + l /\ e \in L + 1 .. L + l
    /\ (L + 1) - L = 1 /\ e - L = l
    /\ \A i \in 1 .. n :
        /\ 4 * i - 3 \in 1 .. L /\ 4 * i \in 1 .. L
        /\ (IF 4 * i < L THEN 4 * i ELSE L) = 4 * i
        /\ (IF 4 * i < e THEN 4 * i ELSE e) = 4 * i

LEMMA LaidOut ==
    ASSUME NEW n \in Nat, NEW l \in 1 .. 4, NEW L, L = 4 * n, NEW e, e = L + l
    PROVE  Laid(L, l, e, n)
  BY SMT DEF Laid

(* A block more behind whole blocks is one step of the polynomial.         *)
LEMMA PolynomialAppend ==
    ASSUME Base \in Nat, Base >= 64, NEW r \in [1 .. 4 -> Nat],
           NEW m \in Seq(Words), NEW n \in Nat, Len(m) = 4 * n,
           NEW b \in Seq(Words), Len(b) \in 1 .. 4
    PROVE  Polynomial(m \o b, r) = Absorb(Polynomial(m, r), Number(Append(b, 1)), r)
<1> DEFINE s == m \o b
<1>1. s \in Seq(Words) /\ Len(s) = Len(m) + Len(b)
  BY ConcatProperties, Zenon
<1>a. Laid(Len(m), Len(b), Len(s), n)
  BY <1>1, LaidOut, Zenon
<1>2. Blocks(m) = n /\ Blocks(s) = n + 1
  BY <1>a, Zenon DEF Blocks, Laid
<1>3. ASSUME NEW i \in 1 .. n PROVE Block(s, i) = Block(m, i)
  <2>1. Block(m, i) = SubSeq(m, 4 * i - 3, 4 * i) /\ Block(s, i) = SubSeq(s, 4 * i - 3, 4 * i)
    BY <1>a, Zenon DEF Block, Laid
  <2>2. 4 * i - 3 \in 1 .. Len(m) /\ 4 * i \in 1 .. Len(m)
    BY <1>a, Zenon DEF Laid
  <2>3. SubSeq(s, 4 * i - 3, 4 * i) = SubSeq(m, 4 * i - 3, 4 * i)
    BY <2>2, SubSeqOfConcat1, Zenon
  <2> QED BY <2>1, <2>3, Zenon
<1>4. Block(s, n + 1) = b
  <2> DEFINE lo == Len(m) + 1
             hi == Len(s)
  <2>1. Block(s, n + 1) = SubSeq(s, lo, hi)
    BY <1>a, Zenon DEF Block, Laid
  <2>2. lo \in Len(m) + 1 .. Len(m) + Len(b) /\ hi \in Len(m) + 1 .. Len(m) + Len(b)
        /\ lo - Len(m) = 1 /\ hi - Len(m) = Len(b)
    BY <1>a, Zenon DEF Laid
  <2> HIDE DEF lo, hi
  <2>3. SubSeq(s, lo, hi) = SubSeq(b, lo - Len(m), hi - Len(m))
    BY <2>2, SubSeqOfConcat2
  <2>4. SubSeq(b, 1, Len(b)) = b
    BY SubSeqFull, Zenon
  <2> QED BY <2>1, <2>2, <2>3, <2>4, Zenon
<1> HIDE DEF s
<1>5. PICK f : Values(f, m, r) /\ Polynomial(m, r) = f[Blocks(m)]
  BY PolynomialIs, Zenon
<1>6. PICK g : Values(g, s, r) /\ Polynomial(s, r) = g[Blocks(s)]
  BY <1>1, PolynomialIs, Zenon
<1>7. /\ f[0] = 0 /\ g[0] = 0
      /\ \A i \in 1 .. n : f[i] = Absorb(f[i - 1], Number(Append(Block(m, i), 1)), r)
      /\ \A i \in 1 .. n + 1 : g[i] = Absorb(g[i - 1], Number(Append(Block(s, i), 1)), r)
  BY <1>2, <1>5, <1>6, Zenon DEF Values
<1>8. \A i \in 0 .. n : g[i] = f[i]
  <2> SUFFICES ASSUME \E i \in 0 .. n : g[i] # f[i] PROVE FALSE
    OBVIOUS
  <2> DEFINE T == {i \in 0 .. n : g[i] # f[i]}
  <2>1. PICK i \in T : \A k \in T : i <= k
    <3>1. T \subseteq Nat /\ T # {}
      OBVIOUS
    <3> HIDE DEF T
    <3> QED BY <3>1, Least, Zenon
  <2>2. i \in 1 .. n /\ i \in 1 .. n + 1 /\ g[i - 1] = f[i - 1]
    BY <1>7, <2>1
  <2>3. Block(s, i) = Block(m, i)
    BY <1>3, <2>2, Zenon
  <2> QED BY <1>7, <2>1, <2>2, <2>3, Zenon
<1>9. g[n + 1] = Absorb(g[n], Number(Append(b, 1)), r)
  <2>1. n + 1 \in 1 .. n + 1 /\ (n + 1) - 1 = n
    OBVIOUS
  <2> QED BY <1>4, <1>7, <2>1, Zenon
<1>10. n \in 0 .. n
  OBVIOUS
<1> QED BY <1>2, <1>5, <1>6, <1>8, <1>9, <1>10, Zenon DEF s

-----------------------------------------------------------------------------
\* A block as it is hashed: a one behind its last word, in the fifth for a full block.
Padded(b) == [i \in 1 .. 4 |-> IF i <= Len(b) THEN b[i] ELSE IF i = Len(b) + 1 THEN 1 ELSE 0]
End(b) == IF Len(b) = 4 THEN 1 ELSE 0

LEMMA FourAsNumber ==
    ASSUME Base \in Nat, NEW w \in [1 .. 4 -> Nat]
    PROVE  Number(w) = Value4(w)
<1>1. 4 \in 1 .. 5 /\ 4 - 1 = 3 /\ 4 - 2 = 2 /\ 4 - 3 = 1 /\ 4 # 1 /\ 4 # 2 /\ 4 # 3
  OBVIOUS
<1> QED BY <1>1, NumberIs, Zenon DEF Value4

LEMMA FiveAsNumber ==
    ASSUME Base \in Nat, NEW w \in [1 .. 5 -> Nat]
    PROVE  Number(w) = Value5(w)
<1>1. /\ 5 \in 1 .. 5 /\ 5 - 1 = 4 /\ 5 - 2 = 3 /\ 5 - 3 = 2 /\ 5 - 4 = 1
      /\ 5 # 1 /\ 5 # 2 /\ 5 # 3 /\ 5 # 4
  OBVIOUS
<1> QED BY <1>1, NumberIs, Zenon DEF Value5

(* A block with the one behind it is the same number for code and reference.*)
LEMMA PaddedNumber ==
    ASSUME Base \in Nat, Base >= 64, NEW b \in Seq(Words), Len(b) \in 1 .. 4
    PROVE  LET p == Padded(b) IN
           /\ IsBlock(p, End(b))
           /\ Number(Append(b, 1)) =
                p[1] + Base * (p[2] + Base * (p[3] + Base * (p[4] + Base * End(b))))
<1> DEFINE p == Padded(b)
           w == Append(b, 1)
           l == Len(b)
           n == l + 1
<1>1. b \in [1 .. l -> Words] /\ l \in 1 .. 4
  BY LenProperties, Zenon
<1>2. 0 \in Words /\ 1 \in Words /\ Words \subseteq Nat
  BY DEF Words
<1>3. w \in Seq(Words) /\ Len(w) = n /\ (\A i \in 1 .. l : w[i] = b[i]) /\ w[n] = 1
  BY <1>2, AppendProperties
<1> HIDE DEF l, w
<1>4. w \in [1 .. n -> Nat] /\ n \in 1 .. 5
  <2>1. w \in [1 .. n -> Words]
    BY <1>3, LenProperties, Zenon
  <2>2. n \in 1 .. 5
    BY <1>1
  <2> QED BY <1>2, <2>1, <2>2, Zenon
<1>5. /\ p[1] = b[1]
      /\ p[2] = IF 2 <= l THEN b[2] ELSE 1
      /\ p[3] = IF 3 <= l THEN b[3] ELSE IF 2 = l THEN 1 ELSE 0
      /\ p[4] = IF 4 <= l THEN b[4] ELSE IF 3 = l THEN 1 ELSE 0
      /\ p \in [1 .. 4 -> Words]
  <2>1. p = [i \in 1 .. 4 |-> IF i <= l THEN b[i] ELSE IF i = n THEN 1 ELSE 0]
    BY Zenon DEF Padded, l
  <2> HIDE DEF p
  <2> QED BY <1>1, <1>2, <2>1
<1>6. End(b) = IF l = 4 THEN 1 ELSE 0
  BY Zenon DEF End, l
<1>7. IsBlock(p, End(b))
  BY <1>5, <1>6 DEF IsBlock
<1> DEFINE t1 == w[n]
           t2 == w[n - 1] + Base * t1
           t3 == w[n - 2] + Base * t2
           t4 == w[n - 3] + Base * t3
           t5 == w[n - 4] + Base * t4
<1>8. Number(w) = IF n = 1 THEN t1 ELSE IF n = 2 THEN t2 ELSE IF n = 3 THEN t3
                  ELSE IF n = 4 THEN t4 ELSE t5
  BY <1>4, NumberIs, Zenon
<1> HIDE DEF p
<1>9. Base * 0 = 0 /\ Base + 0 = Base /\ Base * 1 = Base /\ 1 + 0 = 1
  OBVIOUS
<1>10. Number(w) = p[1] + Base * (p[2] + Base * (p[3] + Base * (p[4] + Base * End(b))))
  <2>1. CASE l = 1
    <3>1. Number(w) = b[1] + Base * 1
      BY <1>3, <1>8, <2>1
    <3>2. p[1] = b[1] /\ p[2] = 1 /\ p[3] = 0 /\ p[4] = 0 /\ End(b) = 0
      BY <1>5, <1>6, <2>1
    <3> QED BY <1>9, <3>1, <3>2
  <2>2. CASE l = 2
    <3>1. Number(w) = b[1] + Base * (b[2] + Base * 1)
      BY <1>3, <1>8, <2>2
    <3>2. p[1] = b[1] /\ p[2] = b[2] /\ p[3] = 1 /\ p[4] = 0 /\ End(b) = 0
      BY <1>5, <1>6, <2>2
    <3> QED BY <1>9, <3>1, <3>2
  <2>3. CASE l = 3
    <3>1. Number(w) = b[1] + Base * (b[2] + Base * (b[3] + Base * 1))
      BY <1>3, <1>8, <2>3
    <3>2. p[1] = b[1] /\ p[2] = b[2] /\ p[3] = b[3] /\ p[4] = 1 /\ End(b) = 0
      BY <1>5, <1>6, <2>3
    <3> QED BY <1>9, <3>1, <3>2, Zenon
  <2>4. CASE l = 4
    <3>1. Number(w) = b[1] + Base * (b[2] + Base * (b[3] + Base * (b[4] + Base * 1)))
      BY <1>3, <1>8, <2>4
    <3>2. p[1] = b[1] /\ p[2] = b[2] /\ p[3] = b[3] /\ p[4] = b[4] /\ End(b) = 1
      BY <1>5, <1>6, <2>4
    <3> QED BY <3>1, <3>2, Zenon
  <2> QED BY <1>1, <2>1, <2>2, <2>3, <2>4
<1> QED BY <1>7, <1>10, Zenon DEF p, w

LEMMA AddNumbers ==
    ASSUME NEW B \in Int, NEW a1 \in Int, NEW a2 \in Int, NEW a3 \in Int, NEW a4 \in Int,
           NEW a5 \in Int, NEW b1 \in Int, NEW b2 \in Int, NEW b3 \in Int, NEW b4 \in Int,
           NEW b5 \in Int
    PROVE  a1 + b1 + B * (a2 + b2 + B * (a3 + b3 + B * (a4 + b4 + B * (a5 + b5))))
            = (a1 + B * (a2 + B * (a3 + B * (a4 + B * a5))))
              + (b1 + B * (b2 + B * (b3 + B * (b4 + B * b5))))
  BY SMT

\* h is the polynomial of the blocks of pre.
Hashes(h, r, pre) == Reduced(h) /\ Number(h) % Prime = Polynomial(pre, r)

LEMMA Five ==
    ASSUME Base \in Nat, Base >= 64, NEW h, Reduced(h)
    PROVE  Number(h) = Value5(h) /\ Number(h) \in Nat
<1>1. h \in [1 .. 5 -> Nat]
  BY Zenon DEF Reduced, Words
<1>2. h \in Seq(Nat) /\ Len(h) = 5
  BY <1>1, WordSeq, Zenon
<1> QED BY <1>1, <1>2, FiveAsNumber, NumberNat

\* Reducing before a sum and a product or only behind them.
SameUpTo(P, a, d, b, c, k) ==
    /\ P \in Nat /\ P > 0 /\ a \in Nat /\ d \in Nat /\ b \in Nat /\ c \in Nat /\ k \in Int
    /\ (a + d) * b = c + k * P

LEMMA ReducedBefore ==
    ASSUME NEW P, NEW a, NEW d, NEW b, NEW c, NEW k, SameUpTo(P, a, d, b, c, k)
    PROVE  a % P \in Nat /\ c % P = (((a % P) + d) * b) % P
<1>0. P \in Nat /\ P > 0 /\ a \in Nat /\ d \in Nat /\ b \in Nat /\ c \in Nat /\ k \in Int
  BY Zenon DEF SameUpTo
<1> DEFINE v == a % P
           y == v + d
           z == a + d
           q == z * b
<1>1. v \in Nat /\ z \in Nat
  BY <1>0, RestOf
<1>2. y \in Nat /\ y % P = z % P
  <2>1. y % P = z % P
    BY <1>0, RestOfSum, Zenon
  <2> HIDE DEF v
  <2> QED BY <1>0, <1>1, <2>1
<1> HIDE DEF v, z
<1>3. q \in Nat /\ q = c + k * P
  BY <1>0, <1>1 DEF z, SameUpTo
<1> HIDE DEF y, q
<1>4. q % P = c % P
  BY <1>0, <1>3, SameRest, Zenon
<1>5. ((y % P) * b) % P = (y * b) % P
  BY <1>0, <1>2, RestOfProduct, Zenon
<1>6. ((z % P) * b) % P = (z * b) % P
  BY <1>0, <1>1, RestOfProduct, Zenon
<1> QED BY <1>0, <1>1, <1>2, <1>4, <1>5, <1>6, Zenon DEF q, v, y

LEMMA ValuesAreNumbers ==
    ASSUME Base \in Nat, Base >= 64, NEW r \in [1 .. 4 -> Nat]
    PROVE  Number(r) = Value4(r) /\ Number(r) \in Nat
<1>1. r \in Seq(Nat) /\ Len(r) = 4
  BY WordSeq, Zenon
<1> QED BY <1>1, FourAsNumber, NumberNat

\* Hashing a block is one step of the polynomial, modulo the prime.
LEMMA StepOfPolynomial ==
    ASSUME Base \in Nat, Base >= 64, NEW h, Reduced(h), NEW r \in [1 .. 4 -> Nat],
           NEW in, NEW end, IsBlock(in, end), NEW x \in Nat,
           x = in[1] + Base * (in[2] + Base * (in[3] + Base * (in[4] + Base * end))),
           NEW g, Reduced(g), NEW k \in Int,
           Sum(h, in, end) * Value4(r) = Value5(g) + k * Prime
    PROVE  Number(g) % Prime = Absorb(Number(h) % Prime, x, r)
<1> DEFINE rn == Number(r)
           hn == Number(h)
           gn == Number(g)
           v == hn % Prime
<1>b. Prime \in Nat /\ Prime > 0
  BY PrimeLarge
<1>3. rn = Value4(r) /\ rn \in Nat
  BY ValuesAreNumbers, Zenon
<1>4. hn = Value5(h) /\ hn \in Nat /\ gn = Value5(g) /\ gn \in Nat
  BY Five, Zenon
<1>5. Sum(h, in, end) = hn + x
  <2>1. /\ h[1] \in Int /\ h[2] \in Int /\ h[3] \in Int /\ h[4] \in Int /\ h[5] \in Int
        /\ in[1] \in Int /\ in[2] \in Int /\ in[3] \in Int /\ in[4] \in Int /\ end \in Int
        /\ Base \in Int
    BY DEF Reduced, IsBlock, Words
  <2> DEFINE X == in[1] + Base * (in[2] + Base * (in[3] + Base * (in[4] + Base * end)))
  <2>2. Sum(h, in, end) = Value5(h) + X
    BY ONLY <2>1, AddNumbers, SMTT(30) DEF Sum, Value5
  <2>3. x = X
    OBVIOUS
  <2> HIDE DEF X
  <2> QED BY <1>4, <2>2, <2>3, Zenon
<1>x. x \in Nat /\ k \in Int
  OBVIOUS
<1>6. (hn + x) * rn = gn + k * Prime
  BY <1>3, <1>4, <1>5, Zenon
<1> HIDE DEF rn, hn, gn
<1>7. v \in Nat /\ gn % Prime = ((v + x) * rn) % Prime
  <2>1. rn \in Nat /\ hn \in Nat /\ gn \in Nat
    BY <1>3, <1>4, Zenon
  <2>2. SameUpTo(Prime, hn, x, rn, gn, k)
    BY <1>b, <1>x, <1>6, <2>1, Zenon DEF SameUpTo
  <2>3. hn % Prime \in Nat /\ gn % Prime = (((hn % Prime) + x) * rn) % Prime
    BY ONLY <2>2, ReducedBefore, SMT
  <2> QED BY <2>3, Zenon
<1> HIDE DEF v
<1>8. Absorb(v, x, r) = ((v + x) * rn) % Prime
  BY <1>7, AbsorbIs, Zenon DEF rn
<1> QED BY <1>7, <1>8, Zenon DEF gn, v, hn

(* One block more.                                                         *)
LEMMA OneBlock ==
    ASSUME NEW D \in Nat, D >= 1, Base = 64 * D, NEW r, Clamped(r, D),
           NEW pre \in Seq(Words), NEW n \in Nat, Len(pre) = 4 * n,
           NEW h, Hashes(h, r, pre), NEW b \in Seq(Words), Len(b) \in 1 .. 4
    PROVE  Hashes(poly_block(h, r, Padded(b), End(b)), r, pre \o b)
<1> DEFINE x == Number(Append(b, 1))
<1>a. Base \in Nat /\ Base >= 64
  OBVIOUS
<1>1. x \in Nat
  <2>1. Append(b, 1) \in Seq(Nat) /\ Len(Append(b, 1)) = Len(b) + 1
    <3>1. Words \subseteq Nat /\ 1 \in Nat
      BY Zenon DEF Words
    <3>2. b \in Seq(Nat)
      BY <3>1, SeqMonotonic, Zenon
    <3> QED BY <3>1, <3>2, AppendProperties, Zenon
  <2>2. ASSUME NEW l \in 1 .. 4 PROVE l + 1 \in 1 .. 5
    BY SMT
  <2>3. Len(Append(b, 1)) \in 1 .. 5
    BY <2>1, <2>2, Zenon
  <2> QED BY <1>a, <2>1, <2>3, NumberNat, Zenon
<1>2. /\ IsBlock(Padded(b), End(b))
      /\ x = Padded(b)[1] + Base * (Padded(b)[2] + Base * (Padded(b)[3]
                + Base * (Padded(b)[4] + Base * End(b))))
  BY <1>a, PaddedNumber, Zenon
<1>3. r \in [1 .. 4 -> Nat]
  BY Zenon DEF Clamped
<1>4. Polynomial(pre \o b, r) = Absorb(Polynomial(pre, r), x, r)
  BY <1>a, <1>3, PolynomialAppend, Zenon
<1>5. Reduced(h) /\ Number(h) % Prime = Polynomial(pre, r)
  BY Zenon DEF Hashes
<1> HIDE DEF x
<1> DEFINE p == Padded(b)
           e == End(b)
           g == poly_block(h, r, p, e)
<1> HIDE DEF p, e
<1>6. Reduced(g) /\ \E k \in Int : Sum(h, p, e) * Value4(r) = Value5(g) + k * Prime
  BY <1>2, <1>5, BlockExact DEF p, e
<1> HIDE DEF g
<1>7. PICK k \in Int : Sum(h, p, e) * Value4(r) = Value5(g) + k * Prime
  BY <1>6, Zenon
<1>8. Number(g) % Prime = Absorb(Number(h) % Prime, x, r)
  <2>1. IsBlock(p, e) /\ x = p[1] + Base * (p[2] + Base * (p[3] + Base * (p[4] + Base * e)))
    BY <1>2, Zenon DEF p, e
  <2>2. k \in Int
    BY <1>7, Zenon
  <2> QED BY ONLY <2>2, <1>a, <1>1, <1>3, <1>5, <1>6, <1>7, <2>1, StepOfPolynomial, SMTT(30)
<1> QED BY <1>4, <1>5, <1>6, <1>8, Zenon DEF Hashes, g, p, e
=============================================================================
