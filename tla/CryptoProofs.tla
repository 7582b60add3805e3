---------------------------- MODULE CryptoProofs ----------------------------
(***************************************************************************)
(* Proofs about the packet on its way through the cipher, as composed in   *)
(* Crypto, for all sizes:                                                  *)
(*   Packet     a packed message can be unpacked;                          *)
(*   Aead       no byte of key stream is spent twice; a packet is opened   *)
(*              only if nobody changed it, to the payload that was sealed. *)
(***************************************************************************)
EXTENDS Crypto, FiniteSetTheorems, TLAPS

LEMMA DivMod ==
    ASSUME NEW n \in Nat, NEW B \in Nat, B > 0
    PROVE  /\ n \div B \in Nat /\ n % B \in Nat /\ n % B < B
           /\ n = B * (n \div B) + (n % B)
  BY SMT, Zenon

-----------------------------------------------------------------------------
(***************************************************************************)
(* The wire format: what is packed can be unpacked.                        *)
(***************************************************************************)
\* A packet on the wire is one that vf_pack made, and what was read from it is
\* what RoundTrip says.
PackInv ==
    /\ type \in Wire!Types /\ payload \in PayloadLengths
    /\ wire = Wire!NoPacket
       \/ \E n \in Wire!vf_apply_padding(payload), seq \in HeaderWords :
            wire = Wire!Packed(n, seq)
    /\ wire = Wire!NoPacket => got = Wire!NoPacket
    /\ Wire!RoundTrip

LEMMA PadRange ==
    ASSUME WireSizes, NEW n \in Nat, NEW m \in Wire!vf_apply_padding(n)
    PROVE  m \in Nat /\ m >= n /\ m <= n + MaxPad - 1
  BY DEF WireSizes, Wire!vf_apply_padding

LEMMA Unmasked ==
    ASSUME NEW a, NEW b
    PROVE  Wire!Xor(Wire!Xor(a, b), b) = a
  BY Zenon DEF Wire!Xor

\* Masking twice with the same sequence number gives the header back.
LEMMA ObfsInverse ==
    ASSUME NEW head, NEW id, NEW seq, NEW pad
    PROVE  LET h == [head |-> head, session_id |-> id, flags |-> 0,
                     seq_num |-> seq, padding_len |-> pad]
           IN  Wire!vf_header_obfs(Wire!vf_header_obfs(h)) = h
<1> DEFINE key == Wire!Xor(seq, Salt)
           H(x, y) == [head |-> x, session_id |-> y, flags |-> 0,
                       seq_num |-> seq, padding_len |-> pad]
           x1 == Wire!Xor(head, Wire!RotateByte(key))
           y1 == Wire!Xor(id, key)
<1>1. ASSUME NEW x, NEW y
      PROVE  Wire!vf_header_obfs(H(x, y))
                = H(Wire!Xor(x, Wire!RotateByte(key)), Wire!Xor(y, key))
  BY Zenon DEF Wire!vf_header_obfs
<1>2. Wire!Xor(x1, Wire!RotateByte(key)) = head /\ Wire!Xor(y1, key) = id
  BY Unmasked, Zenon
<1> QED
  BY <1>1, <1>2, ZenonT(30)

LEMMA CodeBits ==
    ASSUME WireSizes, NEW t \in Wire!Types
    PROVE  Wire!Code[t] \subseteq 0 .. Byte - 1
  BY DEF WireSizes, Wire!Code, Wire!Types

\* The type is read from the top byte as it was written there.
LEMMA TypeRead ==
    ASSUME WireSizes, NEW t \in Wire!Types, NEW h,
           h.head = Wire!HeadBlock(Wire!Code[t])
    PROVE  Wire!MsgType(h) = Wire!Code[t]
<1> DEFINE C == Wire!Code[t]
<1>1. C \subseteq 0 .. Byte - 1
  BY CodeBits, Zenon
<1>2. Wire!MsgType(h) = {b \in 0 .. Byte - 1 :
            b + 3 * Byte \in Preamble \cup {c + 3 * Byte : c \in C}}
  BY Zenon DEF Wire!MsgType, Wire!HeadBlock
<1>3. ASSUME NEW b \in 0 .. Byte - 1
      PROVE  b + 3 * Byte \in Preamble \cup {c + 3 * Byte : c \in C} <=> b \in C
  <2> HIDE DEF C
  <2>1. b + 3 * Byte \notin Preamble
    BY DEF WireSizes
  <2> QED
    BY <2>1, <1>1 DEF WireSizes
<1>4. {b \in 0 .. Byte - 1 :
            b + 3 * Byte \in Preamble \cup {c + 3 * Byte : c \in C}} = C
  <2> HIDE DEF C
  <2> QED
    BY <1>1, <1>3, Zenon
<1> QED
  BY <1>2, <1>4, Zenon

LEMMA PackStep ==
    ASSUME WireSizes, PackInv, Wire!vf_pack
    PROVE  PackInv'
<1> USE DEF PackInv
<1>1. UNCHANGED <<type, payload, got, sid>>
  BY Zenon DEF Wire!vf_pack
<1>2. \E n \in Wire!vf_apply_padding(payload), seq \in HeaderWords :
         wire' = Wire!Packed(n, seq)
  BY Zenon DEF Wire!vf_pack
<1>3. got' = Wire!NoPacket /\ Wire!RoundTrip'
  BY <1>1, Zenon DEF Wire!vf_pack, Wire!RoundTrip, Wire!NoPacket
<1>4. wire' = Wire!NoPacket'
      \/ \E n \in (Wire!vf_apply_padding(payload))', seq \in HeaderWords :
            wire' = (Wire!Packed(n, seq))'
  BY <1>1, <1>2 DEF Wire!Packed, Wire!vf_apply_padding
<1> QED
  BY <1>1, <1>3, <1>4, Zenon DEF Wire!Types, Wire!NoPacket

LEMMA UnpackStep ==
    ASSUME WireSizes, PackInv, Wire!vf_unpack
    PROVE  PackInv'
<1>1. PICK n \in Wire!vf_apply_padding(payload), seq \in HeaderWords :
         wire = Wire!Packed(n, seq)
  BY Zenon DEF PackInv, Wire!vf_unpack
<1> DEFINE C == Wire!Code[type]
           h0 == [head |-> Wire!HeadBlock(C), session_id |-> sid, flags |-> 0,
                  seq_num |-> seq, padding_len |-> n - payload]
           h == Wire!vf_header_obfs(wire.hdr)
           out == IF C \in Wire!Plain THEN n ELSE Wire!vf_encrypt(n)
<1>2. h = h0
  <2>1. wire.hdr = Wire!vf_header_obfs(h0)
    BY <1>1, Zenon DEF Wire!Packed
  <2> QED
    BY <2>1, ObfsInverse
<1>3. wire.bytes = VPN_TNL_HLEN + out
  BY <1>1, Zenon DEF Wire!Packed
<1>4. Wire!MsgType(h) = C
  <2> HIDE DEF h, C
  <2>1. h.head = Wire!HeadBlock(C)
    BY <1>2, Zenon
  <2> QED
    BY <2>1, TypeRead, Zenon DEF PackInv, C
<1>5. h.flags = 0 /\ h.session_id = sid
  BY <1>2
<1>6. n \in Nat /\ payload \in Nat /\ n >= payload /\ n <= payload + MaxPad - 1
  BY PadRange, Zenon DEF PackInv, WireSizes
<1> HIDE DEF h, C
<1>7. Wire!UnpackLen(h, wire.bytes - VPN_TNL_HLEN) = n
  BY <1>3, <1>4, <1>6
     DEF WireSizes, Wire!UnpackLen, Wire!vf_encrypt, Wire!vf_decrypt
<1>8. Wire!vf_remove_padding(h, n + VPN_TNL_HLEN) = n + VPN_TNL_HLEN
  BY <1>5, SMTT(30) DEF Wire!vf_remove_padding
<1>9. got' = [bytes |-> n + VPN_TNL_HLEN - VPN_TNL_HLEN,
              ok |-> n + VPN_TNL_HLEN >= 0, msg_type |-> C, session_id |-> sid]
  BY <1>4, <1>5, <1>6, <1>7, <1>8 DEF Wire!vf_unpack, h, WireSizes
<1>10. UNCHANGED <<type, payload, sid, wire>>
  BY Zenon DEF Wire!vf_unpack
<1>11. Wire!RoundTrip'
  <2>1. C' = C
    BY <1>10, Zenon DEF C, Wire!Code, Wire!Types
  <2>2. /\ got'.ok /\ got'.msg_type = C /\ got'.session_id = sid
        /\ got'.bytes = payload + (n - payload)
    <3>1. n + VPN_TNL_HLEN >= 0
      BY <1>6 DEF WireSizes
    <3>2. got'.bytes = n + VPN_TNL_HLEN - VPN_TNL_HLEN
      BY <1>9, Zenon
    <3>3. got'.ok /\ got'.msg_type = C /\ got'.session_id = sid
      BY <1>9, <3>1, Zenon
    <3> QED
      BY <3>2, <3>3, <1>6 DEF WireSizes
  <2>3. wire.hdr.padding_len = n - payload
    BY <1>1, Zenon DEF Wire!Packed, Wire!vf_header_obfs
  <2> QED
    BY <2>1, <2>2, <2>3, <1>10, Zenon DEF Wire!RoundTrip, C
<1>12. \E m \in (Wire!vf_apply_padding(payload))', s \in HeaderWords :
            wire' = (Wire!Packed(m, s))'
  BY <1>1, <1>10, Zenon DEF Wire!Packed, Wire!vf_apply_padding
<1> QED
  BY <1>10, <1>11, <1>12, Zenon DEF PackInv, Wire!Types, Wire!vf_unpack, Wire!NoPacket

LEMMA PackInvariant == CryptoSpec => [](part = "packet" => PackInv)
<1> USE SizesAssumption
<1>1. CryptoInit => (part = "packet" => PackInv)
  BY Zenon DEF CryptoInit, Wire!Init, PackInv, Wire!RoundTrip
<1>2. (part = "packet" => PackInv) /\ [CryptoNext]_cryptoVars
        => (part = "packet" => PackInv)'
  <2> SUFFICES ASSUME PackInv, [CryptoNext]_cryptoVars, part = "packet", part' = "packet"
               PROVE  PackInv'
    <3>1. [CryptoNext]_cryptoVars => part' = part
      BY Zenon DEF CryptoNext, cryptoVars
    <3> QED
      BY <3>1, Zenon
  <2>0. [Wire!Next]_(Wire!vars)
    BY Zenon DEF CryptoNext, cryptoVars, wireVars, Wire!vars
  <2>1. CASE Wire!vf_pack
    BY <2>1, PackStep, Zenon
  <2>2. CASE Wire!vf_unpack
    BY <2>2, UnpackStep, Zenon
  <2>3. CASE UNCHANGED Wire!vars
    <3>1. UNCHANGED <<type, payload, sid, wire, got>>
      BY <2>3, Zenon DEF Wire!vars
    <3>2. Wire!RoundTrip'
      BY <3>1, Zenon DEF PackInv, Wire!RoundTrip, Wire!NoPacket, Wire!Code, Wire!Types
    <3>3. wire' = Wire!NoPacket'
          \/ \E n \in (Wire!vf_apply_padding(payload))', seq \in HeaderWords :
                wire' = (Wire!Packed(n, seq))'
      BY <3>1, Zenon DEF PackInv, Wire!Packed, Wire!vf_apply_padding, Wire!NoPacket
    <3> QED
      BY <3>1, <3>2, <3>3, Zenon DEF PackInv, Wire!Types, Wire!NoPacket
  <2> QED
    BY <2>0, <2>1, <2>2, <2>3, Zenon DEF Wire!Next
<1> QED
  BY <1>1, <1>2, PTL DEF CryptoSpec

(***************************************************************************)
(* For every buffer, payload, padding and left-over sequence number, and   *)
(* every width of a byte that holds a type, vf_unpack reads the type and   *)
(* session id that vf_pack was given, and the payload and all its padding: *)
(* vf_remove_header_obfs undoes vf_apply_header_obfs.                      *)
(***************************************************************************)
THEOREM RoundTripAlways == CryptoSpec => []RoundTrip
<1>1. (part = "packet" => PackInv) => RoundTrip
  BY Zenon DEF PackInv, RoundTrip
<1> QED
  BY <1>1, PackInvariant, PTL

-----------------------------------------------------------------------------
(***************************************************************************)
(* Sealing: no byte of key stream is spent twice.                          *)
(***************************************************************************)
\* The byte of a nonce that follows its random front.
CounterByte(c) == {<<"counter", c, PrefixSize + 1>>}

\* A byte of key stream that was made with counter c.
MadeWith(x, c) == \E y : x = {y} /\ y[3][1] = CounterByte(c)

\* Every byte of key stream spent so far was made with a counter that is past.
PadInv ==
    /\ counter \in Nat
    /\ phase = "plain" => len \in Lengths
    /\ reused = FALSE
    /\ \A x \in pads : \E c \in 0 .. counter - 1 : MadeWith(x, c)

LEMMA NonceTail ==
    ASSUME SealSizes, NEW p, NEW c, NEW key
    PROVE  LET ctx0 == Seal!crypto_aead_init_x(key, Seal!Nonce(p, c))
           IN  ctx0.nonce[1] = CounterByte(c) /\ ctx0.counter = 0
<1> DEFINE n == Seal!Nonce(p, c)
<1>1. n = [i \in 1 .. SealNonce |->
             IF i <= PrefixSize THEN {<<"prefix", p, i>>} ELSE {<<"counter", c, i>>}]
  BY Zenon DEF Seal!Nonce
<1>2. n \in Seq(UNION {{n[i]} : i \in 1 .. SealNonce}) /\ Len(n) = SealNonce
  BY <1>1 DEF SealSizes
<1>3. n[PrefixSize + 1] = CounterByte(c)
  BY <1>1 DEF SealSizes, CounterByte
<1> HIDE DEF n
<1>4. SubSeq(n, PrefixSize + 1, Len(n))[1] = n[PrefixSize + 1]
  BY <1>2 DEF SealSizes
<1> QED
  BY <1>3, <1>4, Zenon DEF Seal!crypto_aead_init_x, n

\* The bytes of key stream for one message, numbered; the first is the tag's.
PadAt(k, n, i) ==
    IF i = 0 THEN Seal!KeyStream(k, n, 0, 0) ELSE Seal!KeyStream(k, n, 1, i - 1)

LEMMA StreamEqual ==
    ASSUME NEW k, NEW n, NEW c, NEW d, NEW i, NEW j,
           Seal!KeyStream(k, n, c, i) = Seal!KeyStream(k, n, d, j)
    PROVE  /\ c + i \div ChaChaBlock = d + j \div ChaChaBlock
           /\ i % ChaChaBlock = j % ChaChaBlock
<1> DEFINE a == c + i \div ChaChaBlock
           b == i % ChaChaBlock
           e == d + j \div ChaChaBlock
           f == j % ChaChaBlock
<1>1. {<<"pad", k, n, a, b>>} = {<<"pad", k, n, e, f>>}
  BY Zenon DEF Seal!KeyStream
<1> HIDE DEF a, b, e, f
<1>2. <<"pad", k, n, a, b>> = <<"pad", k, n, e, f>>
  BY <1>1, Zenon
<1>3. a = e /\ b = f
  BY <1>2, Zenon
<1> QED
  BY <1>3, Zenon DEF a, b, e, f

LEMMA PadDiffers ==
    ASSUME SealSizes, NEW k, NEW n, NEW i \in Nat, NEW j \in Nat, i # j
    PROVE  PadAt(k, n, i) # PadAt(k, n, j)
<1> DEFINE B == ChaChaBlock
<1>1. ASSUME NEW a \in Nat
      PROVE  a \div B \in Nat /\ a % B \in Nat /\ a = B * (a \div B) + (a % B)
  BY DivMod DEF SealSizes
<1>2. ASSUME NEW a \in Nat, NEW b \in Nat, a \div B = b \div B, a % B = b % B
      PROVE  a = b
  BY <1>1, <1>2, Zenon
<1>3. 0 \div B = 0
  BY DEF SealSizes
<1> HIDE DEF B
<1>4. CASE i = 0 \/ j = 0
  <2>1. ASSUME NEW a \in Nat, a # 0
        PROVE  PadAt(k, n, 0) # PadAt(k, n, a)
    <3>1. a - 1 \in Nat /\ 1 + (a - 1) \div B # 0 + 0 \div B
      BY <2>1, <1>1, <1>3
    <3> QED
      BY <2>1, <3>1, StreamEqual DEF PadAt, B
  <2> QED
    BY <1>4, <2>1, Zenon
<1>5. CASE i # 0 /\ j # 0
  <2>1. i - 1 \in Nat /\ j - 1 \in Nat /\ i - 1 # j - 1
    BY <1>5
  <2>2. (i - 1) \div B # (j - 1) \div B \/ (i - 1) % B # (j - 1) % B
    BY <2>1, <1>2, Zenon
  <2>3. 1 + (i - 1) \div B # 1 + (j - 1) \div B \/ (i - 1) % B # (j - 1) % B
    BY <2>1, <2>2, <1>1
  <2> QED
    BY <1>5, <2>3, StreamEqual DEF PadAt, B
<1> QED
  BY <1>4, <1>5, Zenon

LEMMA SpentIs ==
    ASSUME NEW key, NEW nonce, NEW n \in Nat
    PROVE  LET k == Seal!crypto_aead_init_x(key, nonce)
           IN  Seal!Spent(key, nonce, n) = [i \in 0 .. n |-> PadAt(k.key, k.nonce, i)]
<1> DEFINE k == Seal!crypto_aead_init_x(key, nonce)
<1>1. k.counter = 0
  BY Zenon DEF Seal!crypto_aead_init_x
<1> HIDE DEF k
<1>2. Seal!AuthKey(k) = Seal!KeyStream(k.key, k.nonce, 0, 0)
  BY <1>1, Zenon DEF Seal!AuthKey
<1>3. \A i \in 0 .. n :
        (IF i = 0 THEN Seal!AuthKey(k)
         ELSE Seal!KeyStream(k.key, k.nonce, k.counter + 1, i - 1))
            = PadAt(k.key, k.nonce, i)
  BY <1>1, <1>2 DEF PadAt
<1>4. Seal!Spent(key, nonce, n) = [i \in 0 .. n |->
        IF i = 0 THEN Seal!AuthKey(k)
        ELSE Seal!KeyStream(k.key, k.nonce, k.counter + 1, i - 1)]
  BY Zenon DEF Seal!Spent, k
<1>5. Seal!Spent(key, nonce, n) = [i \in 0 .. n |-> PadAt(k.key, k.nonce, i)]
  BY <1>3, <1>4, Zenon
<1> QED
  BY <1>5, Zenon DEF k

LEMMA EncryptStep ==
    ASSUME SealSizes, PadInv, NEW key, NEW drawn, Seal!vf_encrypt(key, drawn)
    PROVE  PadInv'
<1> DEFINE nonce == Seal!Nonce(prefix', counter)
           spent == Seal!Spent(key, nonce, len)
           S == {spent[i] : i \in 0 .. len}
           k == Seal!crypto_aead_init_x(key, nonce)
<1>1. /\ phase = "plain" /\ counter' = counter + 1 /\ phase' = "sealed"
      /\ Seal!Fresh(spent, len) => UNCHANGED reused
      /\ pads' = pads \cup S
  BY Zenon DEF Seal!vf_encrypt, Seal!get_fast_nonce
<1>2. len \in Nat
  BY <1>1, Zenon DEF PadInv, SealSizes
<1>3. k.nonce[1] = CounterByte(counter)
  BY NonceTail, Zenon
<1>4. spent = [i \in 0 .. len |-> PadAt(k.key, k.nonce, i)]
  BY <1>2, SpentIs
<1> HIDE DEF spent, k
<1>5. ASSUME NEW x \in S PROVE MadeWith(x, counter)
  <2>1. PICK i \in 0 .. len : x = PadAt(k.key, k.nonce, i)
    BY <1>4, Zenon DEF S
  <2>2. PICK a, j : x = {<<"pad", k.key, k.nonce, a, j>>}
    BY <2>1, Zenon DEF PadAt, Seal!KeyStream
  <2> DEFINE y == <<"pad", k.key, k.nonce, a, j>>
  <2>3. x = {y} /\ y[3] = k.nonce
    BY <2>2, Zenon
  <2> QED
    BY <2>3, <1>3, Zenon DEF MadeWith
<1>6. S \cap pads = {}
  <2> SUFFICES ASSUME NEW x \in S, x \in pads PROVE FALSE
    OBVIOUS
  <2>1. MadeWith(x, counter)
    BY <1>5, Zenon
  <2>2. PICK c \in 0 .. counter - 1 : MadeWith(x, c)
    BY Zenon DEF PadInv
  <2>3. CounterByte(c) = CounterByte(counter)
    BY <2>1, <2>2, Zenon DEF MadeWith
  <2>4. c = counter
    <3>1. <<"counter", c, PrefixSize + 1>> = <<"counter", counter, PrefixSize + 1>>
      BY <2>3, Zenon DEF CounterByte
    <3> QED
      BY <3>1, Zenon
  <2> QED
    BY <2>4 DEF PadInv
<1>7. counter \in 0 .. counter' - 1 /\ 0 .. counter - 1 \subseteq 0 .. counter' - 1
  BY <1>1 DEF PadInv
<1>8. \A x \in pads' : \E c \in 0 .. counter' - 1 : MadeWith(x, c)
  BY <1>1, <1>5, <1>7, Zenon DEF PadInv
<1>9. reused' = FALSE
  <2>1. \A i, j \in 0 .. len : spent[i] = spent[j] => i = j
    BY <1>4, PadDiffers
  <2>2. \A i \in 0 .. len : spent[i] \notin pads
    BY <1>6, Zenon
  <2>3. Seal!Fresh(spent, len)
    BY <2>1, <2>2, Zenon DEF Seal!Fresh
  <2> QED
    BY <1>1, <2>3, Zenon DEF PadInv
<1> QED
  BY <1>1, <1>8, <1>9, SMTT(30) DEF PadInv, MadeWith, CounterByte

(***************************************************************************)
(* For every size of nonce and block, every number of messages and every   *)
(* length, one process never spends a byte of key stream twice:            *)
(* get_fast_nonce counts on whether or not the prefix could be drawn, and  *)
(* crypto_aead_write starts the text one block after the key of the tag.   *)
(***************************************************************************)
THEOREM PadsSpentOnceAlways == CryptoSpec => []PadsSpentOnce
<1> USE SizesAssumption
<1>1. CryptoInit => (part = "aead" => PadInv)
  BY DEF CryptoInit, Seal!Init, PadInv
<1>2. (part = "aead" => PadInv) /\ [CryptoNext]_cryptoVars => (part = "aead" => PadInv)'
  <2> SUFFICES ASSUME PadInv, [CryptoNext]_cryptoVars, part = "aead", part' = "aead"
               PROVE  PadInv'
    <3>1. [CryptoNext]_cryptoVars => part' = part
      BY Zenon DEF CryptoNext, cryptoVars
    <3> QED
      BY <3>1, Zenon
  <2>0. [Seal!Next]_(Seal!vars)
    BY Zenon DEF CryptoNext, cryptoVars, sealVars, Seal!vars
  <2>1. ASSUME NEW key \in Keys, NEW drawn \in BOOLEAN, Seal!vf_encrypt(key, drawn)
        PROVE  PadInv'
    BY <2>1, EncryptStep, Zenon
  <2>2. ASSUME NEW key \in Keys, Seal!vf_decrypt(key)
        PROVE  PadInv'
    <3>1. phase' # "plain" /\ UNCHANGED <<counter, pads, reused>>
      BY <2>2, Zenon DEF Seal!vf_decrypt
    <3> QED
      BY <3>1, Zenon DEF PadInv, MadeWith, CounterByte
  <2>3. CASE Seal!Damage
    <3>1. phase' # "plain" /\ UNCHANGED <<counter, pads, reused>>
      BY <2>3, Zenon DEF Seal!Damage
    <3> QED
      BY <3>1, Zenon DEF PadInv, MadeWith, CounterByte
  <2>4. CASE Seal!Reuse
    BY <2>4, Zenon DEF Seal!Reuse, PadInv, MadeWith, CounterByte
  <2>5. CASE UNCHANGED Seal!vars
    BY <2>5, Zenon DEF Seal!vars, PadInv, MadeWith, CounterByte
  <2> QED
    BY <2>0, <2>1, <2>2, <2>3, <2>4, <2>5, Zenon DEF Seal!Next
<1>3. (part = "aead" => PadInv) => PadsSpentOnce
  BY Zenon DEF PadInv, PadsSpentOnce, Seal!PadsSpentOnce
<1> QED
  BY <1>1, <1>2, <1>3, PTL DEF CryptoSpec

-----------------------------------------------------------------------------
(***************************************************************************)
(* Sealing in place.  A buffer is a function on its bytes; the loops over  *)
(* it are recursive functions, which are shown to be their closed forms by *)
(* the least step at which the two would differ.                           *)
(***************************************************************************)
LEMMA Least ==
    ASSUME NEW T, T \subseteq Nat, T # {}
    PROVE  \E n \in T : \A m \in T : n <= m
<1> DEFINE below(n) == {k \in Nat : k < n}
           U == {below(n) : n \in T}
<1>1. \A n \in Nat : IsFiniteSet(below(n))
  <2>1. ASSUME NEW n \in Nat PROVE IsFiniteSet(below(n))
    <3>1. below(n) \subseteq 0 .. n
      OBVIOUS
    <3>2. IsFiniteSet(0 .. n)
      BY FS_Interval
    <3> QED BY <3>1, <3>2, FS_Subset, Zenon
  <2> QED BY <2>1, Zenon
<1>2. U \subseteq FiniteSubsetsOf(Nat) /\ U # {}
  BY <1>1, Zenon DEF FiniteSubsetsOf
<1>3. PICK x \in U : \A y \in U : <<y, x>> \notin StrictSubsetOrdering(Nat)
  <2> HIDE DEF U
  <2> QED BY <1>2, FS_StrictSubsetOrderingWellFounded, WFMin, Zenon
<1>4. PICK n \in T : x = below(n)
  OBVIOUS
<1>5. ASSUME NEW m \in T, m < n PROVE FALSE
  <2>1. below(m) \subseteq below(n) /\ m \in below(n) /\ m \notin below(m)
    BY <1>5
  <2>2. <<below(m), x>> \in StrictSubsetOrdering(Nat)
    BY <1>4, <2>1, Zenon DEF StrictSubsetOrdering
  <2> QED BY <1>3, <2>2, Zenon
<1> QED BY <1>5

\* f is a function on S.
On(f, S) == f = [x \in S |-> f[x]]

\* The n numbers from at on are in S.
Within(at, n, S) == \A i \in Nat : i < n => at + i \in S

\* The n bytes of c from dst on are those of m from src on, under the key stream.
Ciphered(c, dst, m, src, n, key, nonce, ctr) ==
    \A i \in Nat : i < n =>
        c[dst + i] = Seal!Xor(m[src + i], Seal!KeyStream(key, nonce, ctr, i))

(* crypto_chacha20_djb reads and writes in order: where the output starts  *)
(* no later than the input, every byte is read before it is overwritten.   *)
LEMMA ChaChaInOrder ==
    ASSUME NEW D, NEW m, On(m, D),
           NEW dst \in Nat, NEW src \in Nat, dst <= src, NEW n \in Nat,
           Within(dst, n, D), Within(src, n, D),
           NEW key, NEW nonce, NEW ctr
    PROVE  LET c == Seal!crypto_chacha20_djb(m, dst, src, n, key, nonce, ctr)
           IN  On(c, D) /\ Ciphered(c, dst, m, src, n, key, nonce, ctr)
<1> USE DEF On, Within
<1> DEFINE c == Seal!crypto_chacha20_djb(m, dst, src, n, key, nonce, ctr)
<1> DEFINE Byte1(j) == Seal!Xor(m[src + (j - dst)],
                                Seal!KeyStream(key, nonce, ctr, j - dst))
           Written(i) == [j \in D |-> IF j \in dst .. dst + i - 1 THEN Byte1(j) ELSE m[j]]
           Next1(b, i) == [b EXCEPT ![dst + i - 1] =
                             Seal!Xor(b[src + i - 1], Seal!KeyStream(key, nonce, ctr, i - 1))]
           Steps(f) == [i \in 0 .. n |-> IF i = 0 THEN m ELSE Next1(f[i - 1], i)]
           g == [i \in 0 .. n |-> Written(i)]
           after == CHOOSE f : f = Steps(f)
<1>1. Written(0) = m
  <2>1. \A j \in D : ~(j \in dst .. dst + 0 - 1)
    OBVIOUS
  <2> QED BY <2>1, Zenon
<1>2. ASSUME NEW i \in 1 .. n PROVE Next1(Written(i - 1), i) = Written(i)
  <2> DEFINE b == Written(i - 1)
             x == dst + i - 1
             y == src + i - 1
  <2>1. x \in D /\ y \in D /\ x \in Nat /\ y \in Nat /\ y >= x
    <3>1. i - 1 \in Nat /\ i - 1 < n /\ x = dst + (i - 1) /\ y = src + (i - 1)
      OBVIOUS
    <3> QED BY <3>1
  <2>2. On(b, D)
        /\ \A j \in D : b[j] = IF j \in dst .. x - 1 THEN Byte1(j) ELSE m[j]
    BY <2>1
  <2>3. b[y] = m[y]
    BY <2>1, <2>2
  <2>4. Next1(b, i) = [j \in D |-> IF j = x THEN Seal!Xor(m[y],
                                       Seal!KeyStream(key, nonce, ctr, i - 1))
                                   ELSE b[j]]
    <3> HIDE DEF b
    <3> QED BY <2>1, <2>2, <2>3, Zenon
  <2>5. Byte1(x) = Seal!Xor(m[y], Seal!KeyStream(key, nonce, ctr, i - 1))
    <3>1. x - dst = i - 1 /\ src + (x - dst) = y
      OBVIOUS
    <3> QED BY <3>1, Zenon
  <2> HIDE DEF b, Byte1
  <2>6. \A j \in D : (IF j = x THEN Byte1(x) ELSE b[j])
                        = IF j \in dst .. dst + i - 1 THEN Byte1(j) ELSE m[j]
    BY <2>1, <2>2
  <2>7. Next1(b, i) = Written(i)
    BY <2>4, <2>5, <2>6, Zenon
  <2> QED BY <2>7, Zenon DEF b
<1> HIDE DEF Written, Next1
<1>3. g = Steps(g)
  <2>1. ASSUME NEW i \in 0 .. n
        PROVE  g[i] = IF i = 0 THEN m ELSE Next1(g[i - 1], i)
    <3>1. CASE i = 0
      BY <1>1, <3>1, Zenon
    <3>2. CASE i # 0
      <4>1. i \in 1 .. n /\ i - 1 \in 0 .. n
        BY <3>2
      <4> QED BY <1>2, <3>2, <4>1, Zenon
    <3> QED BY <3>1, <3>2, Zenon
  <2> QED BY <2>1, Zenon
<1> HIDE DEF g
<1>4. after = Steps(after)
  BY <1>3, Zenon
<1> HIDE DEF after
<1>5. \A i \in 0 .. n : after[i] = g[i]
  <2> SUFFICES ASSUME \E i \in 0 .. n : after[i] # g[i] PROVE FALSE
    OBVIOUS
  <2> DEFINE T == {i \in 0 .. n : after[i] # g[i]}
  <2>1. PICK i \in T : \A k \in T : i <= k
    <3>1. T \subseteq Nat /\ T # {}
      OBVIOUS
    <3> HIDE DEF T
    <3> QED BY <3>1, Least, Zenon
  <2>2. i # 0
    BY <1>3, <1>4, Zenon
  <2>3. i \in 0 .. n /\ i - 1 \in 0 .. n /\ after[i - 1] = g[i - 1]
    BY <2>1, <2>2
  <2> QED BY <1>3, <1>4, <2>2, <2>3, Zenon
<1>6. c = after[n]
  BY Zenon DEF Seal!crypto_chacha20_djb, after, Steps, Next1
<1> HIDE DEF c
<1>7. after[n] = Written(n)
  BY <1>5 DEF g
<1>8. c = [j \in D |-> IF j \in dst .. dst + n - 1 THEN Byte1(j) ELSE m[j]]
  BY <1>6, <1>7, Zenon DEF Written
<1> HIDE DEF Byte1
<1>9. ASSUME NEW i \in Nat, i < n PROVE c[dst + i] = Byte1(dst + i)
  <2>1. dst + i \in dst .. dst + n - 1 /\ dst + i \in D
    BY <1>9
  <2> QED BY <1>8, <2>1, Zenon
<1>10. ASSUME NEW i \in Nat, i < n
       PROVE  c[dst + i] = Seal!Xor(m[src + i], Seal!KeyStream(key, nonce, ctr, i))
  <2>1. (dst + i) - dst = i
    OBVIOUS
  <2> QED BY <1>9, <1>10, <2>1, Zenon DEF Byte1
<1> QED BY <1>8, <1>10, Zenon DEF Ciphered, c

(* A function on 1 .. n is a sequence of that length.                      *)
LEMMA SeqOf ==
    ASSUME NEW n \in Nat, NEW s, On(s, 1 .. n)
    PROVE  Len(s) = n /\ s \in Seq({s[i] : i \in 1 .. n})
<1> DEFINE S == {s[i] : i \in 1 .. n}
<1>1. s \in [1 .. n -> S]
  BY Zenon DEF On
<1> QED BY <1>1

LEMMA BufferRoom ==
    ASSUME SealSizes, NEW n \in Lengths
    PROVE  /\ n \in Nat /\ Seal!Longest \in Nat /\ n <= Seal!Longest
           /\ Seal!Expansion = SealNonce + SealTag
           /\ \A i \in Nat : i < n + SealNonce + SealTag => i \in Seal!Buffer
<1>1. Seal!Longest \in Lengths /\ \A m \in Lengths : m <= Seal!Longest
  BY Zenon DEF SealSizes, Seal!Longest
<1>2. n \in Nat /\ Seal!Longest \in Nat /\ n <= Seal!Longest
  BY <1>1, Zenon DEF SealSizes
<1> QED BY <1>2 DEF Seal!Expansion, Seal!Buffer, SealSizes

\* s is m with the n bytes from at on replaced.
Stored(s, m, at, n, bytes) ==
    /\ On(s, Seal!Buffer)
    /\ \A i \in Nat : i < n /\ at + i \in Seal!Buffer => s[at + i] = bytes[i + 1]
    /\ \A j \in Seal!Buffer : j < at \/ j >= at + n => s[j] = m[j]

LEMMA StoreIs ==
    ASSUME NEW m, NEW at \in Nat, NEW bytes, Len(bytes) \in Nat
    PROVE  Stored(Seal!Store(m, at, bytes), m, at, Len(bytes), bytes)
<1> DEFINE s == Seal!Store(m, at, bytes)
           n == Len(bytes)
<1>1. Seal!Buffer \subseteq Int
  BY DEF Seal!Buffer
<1>2. /\ On(s, Seal!Buffer)
      /\ \A j \in Seal!Buffer :
           s[j] = IF j \in at .. at + n - 1 THEN bytes[j - at + 1] ELSE m[j]
  BY Zenon DEF Seal!Store, On
<1>3. ASSUME NEW i \in Nat, i < n, at + i \in Seal!Buffer
      PROVE  s[at + i] = bytes[i + 1]
  <2>1. at + i \in at .. at + n - 1 /\ (at + i) - at + 1 = i + 1
    BY <1>3
  <2> QED BY <1>2, <1>3, <2>1, Zenon
<1> QED BY <1>1, <1>2, <1>3 DEF Stored

\* The n bytes of m from at on are those of s.
Holds(m, at, n, s) == \A i \in Nat : i < n => m[at + i] = s[i + 1]

LEMMA LoadIs ==
    ASSUME NEW m, NEW at \in Nat, NEW n \in Nat
    PROVE  /\ On(Seal!Load(m, at, n), 1 .. n) /\ Len(Seal!Load(m, at, n)) = n
           /\ Holds(m, at, n, Seal!Load(m, at, n))
<1> DEFINE s == Seal!Load(m, at, n)
<1>1. On(s, 1 .. n) /\ \A i \in 1 .. n : s[i] = m[at + i - 1]
  BY Zenon DEF Seal!Load, On
<1> HIDE DEF s
<1>2. Len(s) = n
  BY <1>1, SeqOf, Zenon
<1>3. ASSUME NEW i \in Nat, i < n PROVE m[at + i] = s[i + 1]
  <2>1. i + 1 \in 1 .. n /\ at + (i + 1) - 1 = at + i
    BY <1>3
  <2> QED BY <1>1, <2>1, Zenon
<1> QED BY <1>1, <1>2, <1>3, Zenon DEF s, Holds

(* A sequence is what was loaded if its bytes are.                         *)
LEMMA Loaded ==
    ASSUME NEW m, NEW at \in Nat, NEW n \in Nat, NEW s, On(s, 1 .. n),
           Holds(m, at, n, s)
    PROVE  Seal!Load(m, at, n) = s
<1>1. ASSUME NEW i \in 1 .. n PROVE m[at + i - 1] = s[i]
  <2>1. i - 1 \in Nat /\ i - 1 < n /\ at + i - 1 = at + (i - 1) /\ (i - 1) + 1 = i
    OBVIOUS
  <2> QED BY <2>1, Zenon DEF Holds
<1> QED BY <1>1, Zenon DEF Seal!Load, On

LEMMA LoadsEqual ==
    ASSUME NEW m, NEW s, NEW at \in Nat, NEW n \in Nat,
           \A i \in Nat : i < n => m[at + i] = s[at + i]
    PROVE  Seal!Load(m, at, n) = Seal!Load(s, at, n)
<1> DEFINE l == Seal!Load(s, at, n)
<1>1. On(l, 1 .. n) /\ Holds(s, at, n, l)
  BY LoadIs, Zenon
<1> HIDE DEF l
<1>2. Holds(m, at, n, l)
  BY <1>1, Zenon DEF Holds
<1>3. Seal!Load(m, at, n) = l
  BY <1>1, <1>2, Loaded, Zenon
<1> QED BY <1>3, Zenon DEF l

LEMMA TagIs ==
    ASSUME SealSizes, NEW k, NEW text
    PROVE  LET t == Seal!lock_auth(k, text)
           IN  On(t, 1 .. SealTag) /\ Len(t) = SealTag
<1> DEFINE t == Seal!lock_auth(k, text)
<1>1. On(t, 1 .. SealTag)
  BY Zenon DEF Seal!lock_auth, On
<1> HIDE DEF t
<1>2. SealTag \in Nat
  BY Zenon DEF SealSizes
<1>3. Len(t) = SealTag
  BY <1>1, <1>2, SeqOf, Zenon
<1> QED BY <1>1, <1>3, Zenon DEF t

(* vf_encrypt leaves the nonce, the text under its key stream, and the tag *)
(* of both one behind the other, although the text was moved first.        *)
LEMMA SealedIs ==
    ASSUME SealSizes, NEW n \in Lengths, NEW key, NEW nonce,
           On(nonce, 1 .. SealNonce)
    PROVE  LET s == Seal!SealedBuffer(n, key, nonce)
               k == Seal!crypto_aead_init_x(key, nonce)
           IN  /\ On(s, Seal!Buffer)
               /\ Seal!Load(s, 0, SealNonce) = nonce
               /\ Ciphered(s, SealNonce, Seal!Payload(n), 0, n, k.key, k.nonce, 1)
               /\ Seal!Load(s, SealNonce + n, SealTag)
                     = Seal!lock_auth(Seal!AuthKey(k), Seal!Load(s, SealNonce, n))
<1> DEFINE N == SealNonce
           k == Seal!crypto_aead_init_x(key, nonce)
           P == Seal!Payload(n)
           moved == Seal!Store(P, N, Seal!Load(P, 0, n))
           c == Seal!crypto_chacha20_djb(moved, N, N, n, k.key, k.nonce, k.counter + 1)
           tag == Seal!lock_auth(Seal!AuthKey(k), Seal!Load(c, N, n))
           w == Seal!Store(c, N + n, tag)
           s == Seal!Store(w, 0, nonce)
           D == Seal!Buffer
<1>1. Seal!SealedBuffer(n, key, nonce) = s
  BY Zenon DEF Seal!SealedBuffer, Seal!crypto_aead_lock, Seal!crypto_aead_write
<1>2. /\ n \in Nat /\ N \in Nat /\ SealTag \in Nat
      /\ \A i \in Nat : i < n + N + SealTag => i \in D
      /\ D \subseteq Nat
  BY BufferRoom DEF SealSizes, Seal!Buffer
<1>3. k.counter + 1 = 1
  BY DEF Seal!crypto_aead_init_x
<1>4. Len(nonce) = N /\ Len(nonce) \in Nat
  BY <1>2, SeqOf, Zenon
<1> DEFINE text == Seal!Load(P, 0, n)
<1>6. Len(text) = n /\ Len(text) \in Nat /\ Holds(P, 0, n, text)
  BY <1>2, LoadIs, Zenon
<1> HIDE DEF P, text
<1>7. /\ On(moved, D) /\ Within(N, n, D)
      /\ \A i \in Nat : i < n => moved[N + i] = P[0 + i]
  <2>1. Stored(Seal!Store(P, N, text), P, N, n, text)
    BY <1>2, <1>6, StoreIs, Zenon
  <2>2. moved = Seal!Store(P, N, text)
    BY Zenon DEF text
  <2> HIDE DEF moved
  <2>3. Within(N, n, D)
    BY <1>2 DEF Within
  <2> QED BY <1>6, <2>1, <2>2, <2>3, Zenon DEF Stored, Holds, Within
<1> HIDE DEF moved, D, k
<1>9. On(c, D) /\ Ciphered(c, N, moved, N, n, k.key, k.nonce, 1)
  BY <1>2, <1>3, <1>7, ChaChaInOrder
<1> HIDE DEF c
<1>10. On(tag, 1 .. SealTag) /\ Len(tag) = SealTag /\ Len(tag) \in Nat
  BY <1>2, TagIs, Zenon
<1> HIDE DEF tag
<1>11. /\ \A i \in Nat : i < SealTag /\ N + n + i \in D => w[N + n + i] = tag[i + 1]
       /\ \A j \in D : j < N + n \/ j >= N + n + SealTag => w[j] = c[j]
  <2>1. N + n \in Nat
    BY <1>2
  <2>2. Stored(w, c, N + n, SealTag, tag)
    BY <1>2, <1>10, <2>1, StoreIs, Zenon
  <2> HIDE DEF w
  <2> QED BY <2>2, Zenon DEF D, Stored
<1> HIDE DEF w
<1>12. /\ On(s, D)
       /\ \A i \in Nat : i < N /\ 0 + i \in D => s[0 + i] = nonce[i + 1]
       /\ \A j \in D : j < 0 \/ j >= 0 + N => s[j] = w[j]
  <2>1. 0 \in Nat
    OBVIOUS
  <2>2. Stored(s, w, 0, N, nonce)
    BY <1>2, <1>4, <2>1, StoreIs, Zenon
  <2> HIDE DEF s
  <2> QED BY <2>2, Zenon DEF D, Stored
<1> HIDE DEF s
<1>13. Seal!Load(s, 0, N) = nonce
  <2>1. \A i \in Nat : i < N => s[0 + i] = nonce[i + 1]
    BY <1>2, <1>12
  <2>2. Holds(s, 0, N, nonce) /\ 0 \in Nat
    BY <2>1, Zenon DEF Holds
  <2> QED BY <1>2, <2>2, Loaded, Zenon
<1>14. \A i \in Nat : i < n => s[N + i] = c[N + i]
  BY <1>2, <1>11, <1>12
<1>15. Seal!Load(s, N, n) = Seal!Load(c, N, n)
  BY <1>2, <1>14, LoadsEqual, Zenon
<1>16. Seal!Load(s, N + n, SealTag) = tag
  <2>1. N + n \in Nat /\ \A i \in Nat : i < SealTag => s[N + n + i] = tag[i + 1]
    <3>1. ASSUME NEW i \in Nat, i < SealTag
          PROVE  N + n + i \in D /\ N + n + i < N + n + SealTag /\ N + n + i >= 0 + N
      BY <1>2, <3>1
    <3>2. ASSUME NEW i \in Nat, i < SealTag
          PROVE  s[N + n + i] = tag[i + 1]
      <4> DEFINE j == N + n + i
      <4>1. j \in D /\ j >= 0 + N
        BY <3>1, <3>2, Zenon
      <4>2. s[j] = w[j]
        BY <1>12, <4>1, Zenon
      <4> QED BY <1>11, <3>2, <4>1, <4>2, Zenon
    <3> QED BY <1>2, <3>2
  <2>2. Holds(s, N + n, SealTag, tag)
    BY <2>1, Zenon DEF Holds
  <2> QED BY <1>2, <1>10, <2>1, <2>2, Loaded, Zenon
<1>17. Ciphered(s, N, P, 0, n, k.key, k.nonce, 1)
  BY <1>7, <1>9, <1>14, Zenon DEF Ciphered
<1> QED BY <1>1, <1>12, <1>13, <1>15, <1>16, <1>17, Zenon DEF tag, D, k, P

LEMMA GapIs ==
    ASSUME NEW x \in Nat, NEW n \in Nat \ {0}
    PROVE  Seal!gap(x, n) \in Nat
<1>1. x % n \in Nat /\ x % n < n
  OBVIOUS
<1>2. n - (x % n) \in Nat
  BY <1>1
<1> QED BY <1>2 DEF Seal!gap

(* Equal tags come from equal keys and, of texts of one length, from equal *)
(* texts (lock_auth).                                                      *)
LEMMA TagsEqual ==
    ASSUME SealSizes, NEW k, NEW l, NEW n \in Nat, NEW s, NEW t, On(s, 1 .. n), On(t, 1 .. n),
           Seal!lock_auth(k, s) = Seal!lock_auth(l, t)
    PROVE  k = l /\ s = t
<1> DEFINE zeros(x) == [i \in 1 .. Seal!gap(Len(x), PolyBlock) |-> {}]
           sizes(x) == <<{<<"size", 0>>}, {<<"size", Len(x)>>}>>
           input(x) == x \o zeros(x) \o sizes(x)
<1>1. 1 \in 1 .. SealTag
  BY DEF SealSizes
<1>2. /\ Seal!lock_auth(k, s)[1] = {<<"tag", k, input(s), 1>>}
      /\ Seal!lock_auth(l, t)[1] = {<<"tag", l, input(t), 1>>}
  BY <1>1, Zenon DEF Seal!lock_auth
<1> HIDE DEF input
<1>3. <<"tag", k, input(s), 1>> = <<"tag", l, input(t), 1>>
  BY <1>2, Zenon
<1>4. k = l /\ input(s) = input(t)
  BY <1>3, Zenon
<1>5. ASSUME NEW x, On(x, 1 .. n) PROVE \A i \in 1 .. n : input(x)[i] = x[i]
  <2> DEFINE S == {x[i] : i \in 1 .. n} \cup {{}} \cup {{<<"size", 0>>}, {<<"size", Len(x)>>}}
  <2>1. Len(x) = n /\ x \in Seq({x[i] : i \in 1 .. n})
    BY <1>5, SeqOf, Zenon
  <2>2. x \in Seq(S)
    BY <2>1
  <2>3. Seal!gap(Len(x), PolyBlock) \in Nat
    BY <2>1, GapIs, Zenon DEF SealSizes
  <2>4. zeros(x) \in Seq(S)
    BY <2>3
  <2>5. sizes(x) \in Seq(S)
    OBVIOUS
  <2> HIDE DEF zeros, sizes, S
  <2>6. x \o zeros(x) \in Seq(S) /\ Len(x \o zeros(x)) >= n
        /\ \A i \in 1 .. n : (x \o zeros(x))[i] = x[i]
    BY <2>1, <2>2, <2>4
  <2> DEFINE y == x \o zeros(x)
  <2> HIDE DEF y
  <2>7. \A i \in 1 .. n : (y \o sizes(x))[i] = y[i]
    BY <2>5, <2>6 DEF y
  <2> QED BY <2>6, <2>7, Zenon DEF y, input
<1>6. \A i \in 1 .. n : s[i] = t[i]
  BY <1>4, <1>5, Zenon
<1> QED BY <1>4, <1>6, Zenon DEF On

(* The key of a tag is made of the key and of the whole nonce.             *)
LEMMA AuthKeysEqual ==
    ASSUME SealSizes, NEW key, NEW other, NEW p, NEW q,
           On(p, 1 .. SealNonce), On(q, 1 .. SealNonce),
           Seal!AuthKey(Seal!crypto_aead_init_x(key, p))
              = Seal!AuthKey(Seal!crypto_aead_init_x(other, q))
    PROVE  key = other /\ p = q
<1> DEFINE N == SealNonce
           front(x) == SubSeq(x, 1, PrefixSize)
           rest(x) == SubSeq(x, PrefixSize + 1, Len(x))
<1>1. ASSUME NEW a, NEW x
      PROVE  Seal!AuthKey(Seal!crypto_aead_init_x(a, x)) =
                {<<"pad", <<"sub_key", a, front(x)>>, rest(x),
                   0 + 0 \div ChaChaBlock, 0 % ChaChaBlock>>}
  BY Zenon DEF Seal!AuthKey, Seal!crypto_aead_init_x, Seal!crypto_chacha20_h, Seal!KeyStream
<1> DEFINE atom(a, x) == <<"pad", <<"sub_key", a, front(x)>>, rest(x),
                           0 + 0 \div ChaChaBlock, 0 % ChaChaBlock>>
<1>2. {atom(key, p)} = {atom(other, q)}
  BY <1>1, ZenonT(40)
<1>3. atom(key, p) = atom(other, q)
  BY <1>2, Zenon
<1>4. <<"sub_key", key, front(p)>> = <<"sub_key", other, front(q)>> /\ rest(p) = rest(q)
  BY <1>3, Zenon
<1>5. key = other /\ front(p) = front(q)
  BY <1>4, Zenon
<1>6. ASSUME NEW x, On(x, 1 .. N)
      PROVE  /\ \A i \in 1 .. PrefixSize : x[i] = front(x)[i]
             /\ \A i \in 1 .. N - PrefixSize : x[PrefixSize + i] = rest(x)[i]
  <2>1. N \in Nat /\ PrefixSize \in Nat /\ PrefixSize < N
    BY Zenon DEF SealSizes
  <2>2. Len(x) = N /\ x \in Seq({x[i] : i \in 1 .. N})
    BY <1>6, <2>1, SeqOf, Zenon
  <2> QED BY <2>1, <2>2
<1> HIDE DEF front, rest
<1>7. ASSUME NEW i \in 1 .. N PROVE p[i] = q[i]
  <2>1. N \in Nat /\ PrefixSize \in Nat
    BY Zenon DEF SealSizes
  <2>2. CASE i <= PrefixSize
    BY <1>5, <1>6, <2>1, <2>2
  <2>3. CASE i > PrefixSize
    <3>1. i - PrefixSize \in 1 .. N - PrefixSize /\ PrefixSize + (i - PrefixSize) = i
      BY <2>1, <2>3
    <3>2. p[i] = rest(p)[i - PrefixSize] /\ q[i] = rest(q)[i - PrefixSize]
      BY <1>6, <3>1, Zenon
    <3> QED BY <1>4, <3>2, Zenon
  <2> QED BY <2>1, <2>2, <2>3
<1> QED BY <1>5, <1>7, Zenon DEF On

\* What crypto_aead_read compares, for a packet with n bytes of text in m.
Matches(m, n, key) ==
    Seal!Load(m, SealNonce + n, SealTag) =
        Seal!lock_auth(Seal!AuthKey(
            Seal!crypto_aead_init_x(key, Seal!Load(m, 0, SealNonce))),
            Seal!Load(m, SealNonce, n))

LEMMA LoadOn ==
    ASSUME NEW m, NEW at \in Nat, NEW n \in Nat
    PROVE  On(Seal!Load(m, at, n), 1 .. n)
  BY LoadIs, Zenon

(* A packet as vf_encrypt made it passes with its key and no other.        *)
LEMMA WholeMatches ==
    ASSUME SealSizes, NEW n \in Lengths, NEW key, NEW other, NEW nonce,
           On(nonce, 1 .. SealNonce)
    PROVE  Matches(Seal!SealedBuffer(n, key, nonce), n, other) <=> other = key
<1> DEFINE s == Seal!SealedBuffer(n, key, nonce)
           text == Seal!Load(s, SealNonce, n)
           auth(a) == Seal!AuthKey(Seal!crypto_aead_init_x(a, nonce))
<1>1. /\ Seal!Load(s, 0, SealNonce) = nonce
      /\ Seal!Load(s, SealNonce + n, SealTag) = Seal!lock_auth(auth(key), text)
  BY SealedIs
<1>2. n \in Nat /\ SealNonce \in Nat
  BY Zenon DEF SealSizes
<1>3. On(text, 1 .. n)
  BY <1>2, LoadOn, Zenon
<1> HIDE DEF text, s
<1>4. Matches(s, n, other) <=> Seal!lock_auth(auth(key), text) = Seal!lock_auth(auth(other), text)
  BY <1>1, Zenon DEF Matches, text
<1> HIDE DEF auth
<1>5. Seal!lock_auth(auth(key), text) = Seal!lock_auth(auth(other), text) => auth(key) = auth(other)
  BY <1>2, <1>3, TagsEqual, Zenon
<1>6. auth(key) = auth(other) => other = key
  BY AuthKeysEqual, Zenon DEF auth
<1> QED BY <1>4, <1>5, <1>6, Zenon DEF s

LEMMA XorTwice ==
    ASSUME NEW a, NEW b
    PROVE  Seal!Xor(Seal!Xor(a, b), b) = a
  BY Zenon DEF Seal!Xor

(* Decrypting over the nonce gives back the text.                          *)
LEMMA WholeOpens ==
    ASSUME SealSizes, NEW n \in Lengths, NEW key, NEW nonce, On(nonce, 1 .. SealNonce),
           NEW i \in Nat, i < n
    PROVE  LET k == Seal!crypto_aead_init_x(key, nonce)
           IN  Seal!crypto_chacha20_djb(Seal!SealedBuffer(n, key, nonce), 0, SealNonce, n,
                    k.key, k.nonce, k.counter + 1)[i] = {<<"text", i>>}
<1> DEFINE s == Seal!SealedBuffer(n, key, nonce)
           k == Seal!crypto_aead_init_x(key, nonce)
           c == Seal!crypto_chacha20_djb(s, 0, SealNonce, n, k.key, k.nonce, k.counter + 1)
           D == Seal!Buffer
           P == Seal!Payload(n)
           pad == Seal!KeyStream(k.key, k.nonce, 1, i)
<1>1. On(s, D) /\ Ciphered(s, SealNonce, P, 0, n, k.key, k.nonce, 1)
  BY SealedIs, Zenon
<1>2. k.counter + 1 = 1
  BY DEF Seal!crypto_aead_init_x
<1>3. /\ n \in Nat /\ SealNonce \in Nat /\ 0 \in Nat /\ 0 <= SealNonce
      /\ \A j \in Nat : j < n => 0 + j \in D /\ SealNonce + j \in D
  BY BufferRoom DEF SealSizes
<1>4. Within(0, n, D) /\ Within(SealNonce, n, D)
  BY <1>3, Zenon DEF Within
<1>5. P[0 + i] = {<<"text", i>>}
  BY <1>3 DEF Seal!Payload
<1> HIDE DEF s, D, k, P
<1>6. Ciphered(c, 0, s, SealNonce, n, k.key, k.nonce, k.counter + 1)
  BY <1>1, <1>3, <1>4, ChaChaInOrder, Zenon
<1> HIDE DEF c
<1>7. c[0 + i] = Seal!Xor(s[SealNonce + i], pad) /\ s[SealNonce + i] = Seal!Xor(P[0 + i], pad)
  BY <1>1, <1>2, <1>6, Zenon DEF Ciphered
<1>8. c[0 + i] = {<<"text", i>>} /\ 0 + i = i
  <2> HIDE DEF pad
  <2> QED BY <1>5, <1>7, XorTwice
<1> QED BY <1>8, Zenon DEF c, s, k

(* A packet of which a byte was changed passes with no key.                *)
LEMMA ChangedRefused ==
    ASSUME SealSizes, NEW n \in Lengths, NEW key, NEW other, NEW nonce,
           On(nonce, 1 .. SealNonce),
           NEW i \in Nat, i < n + SealNonce + SealTag, NEW m,
           m = [Seal!SealedBuffer(n, key, nonce) EXCEPT ![i] = Seal!Xor(@, {<<"damage">>})]
    PROVE  ~Matches(m, n, other)
<1> SUFFICES ASSUME Matches(m, n, other) PROVE FALSE
  OBVIOUS
<1> DEFINE N == SealNonce
           s == Seal!SealedBuffer(n, key, nonce)
           auth(a, p) == Seal!AuthKey(Seal!crypto_aead_init_x(a, p))
           p == Seal!Load(m, 0, N)
           text == Seal!Load(s, N, n)
           found == Seal!Load(m, N, n)
<1>1. n \in Nat /\ N \in Nat /\ SealTag \in Nat /\ i \in Seal!Buffer /\ N + n \in Nat
  BY BufferRoom DEF SealSizes
<1>2. /\ On(s, Seal!Buffer) /\ Seal!Load(s, 0, N) = nonce
      /\ Seal!Load(s, N + n, SealTag) = Seal!lock_auth(auth(key, nonce), text)
  BY SealedIs
<1> HIDE DEF s, auth
<1>3. /\ m[i] = Seal!Xor(s[i], {<<"damage">>})
      /\ \A j \in Seal!Buffer : j # i => m[j] = s[j]
  BY <1>1, <1>2, Zenon DEF On, s
<1>4. m[i] # s[i]
  BY <1>3, Zenon DEF Seal!Xor
<1>5. \A j \in Nat : j < n + N + SealTag => j \in Seal!Buffer
  BY BufferRoom, Zenon
<1>6. Seal!Load(m, N + n, SealTag) = Seal!lock_auth(auth(other, p), found)
  BY Zenon DEF Matches, auth
<1>7. On(text, 1 .. n) /\ On(found, 1 .. n) /\ On(p, 1 .. N)
  BY <1>1, LoadOn, Zenon
<1>8. CASE i < N + n
  <2>1. Seal!Load(m, N + n, SealTag) = Seal!Load(s, N + n, SealTag)
    <3>1. \A j \in Nat : j < SealTag => m[N + n + j] = s[N + n + j]
      BY <1>1, <1>3, <1>5, <1>8
    <3> QED BY <1>1, <3>1, LoadsEqual, ZenonT(40)
  <2> HIDE DEF p, text, found
  <2>2. auth(key, nonce) = auth(other, p) /\ text = found
    BY <1>1, <1>2, <1>6, <1>7, <2>1, TagsEqual
  <2>3. p = nonce
    BY <1>7, <2>2, AuthKeysEqual, Zenon DEF auth
  <2>4. CASE i < N
    <3>1. 0 \in Nat /\ Holds(m, 0, N, p)
      BY <1>1, LoadIs, Zenon DEF p
    <3>2. Holds(s, 0, N, nonce)
      BY <1>1, <1>2, <3>1, LoadIs, Zenon
    <3>3. p[i + 1] = m[i] /\ nonce[i + 1] = s[i]
      BY <2>4, <3>1, <3>2 DEF Holds
    <3> QED BY <1>4, <2>3, <3>3, Zenon
  <2>5. CASE i >= N
    <3>1. Holds(m, N, n, found) /\ Holds(s, N, n, text)
      BY <1>1, LoadIs, Zenon DEF found, text
    <3>2. PICK j \in Nat : j < n /\ N + j = i
      <4>1. i - N \in Nat /\ i - N < n /\ N + (i - N) = i
        BY <1>1, <1>8, <2>5
      <4> QED BY <4>1, Zenon
    <3>3. found[j + 1] = m[i] /\ text[j + 1] = s[i]
      BY <3>1, <3>2, Zenon DEF Holds
    <3> QED BY <1>4, <2>2, <3>3, Zenon
  <2> QED BY <1>1, <2>4, <2>5
<1>9. CASE i >= N + n
  <2>1. PICK j \in Nat : j < SealTag /\ N + n + j = i
    <3>1. i - (N + n) \in Nat /\ i - (N + n) < SealTag /\ N + n + (i - (N + n)) = i
      BY <1>1, <1>9
    <3> QED BY <3>1, Zenon
  <2>2. j + 1 \in 1 .. SealTag
    BY <1>1, <2>1
  <2>3. /\ Seal!Load(m, N + n, SealTag)[j + 1] = m[i]
        /\ Seal!Load(s, N + n, SealTag)[j + 1] = s[i]
    <3> DEFINE a == Seal!Load(m, N + n, SealTag)
               b == Seal!Load(s, N + n, SealTag)
    <3>1. Holds(m, N + n, SealTag, a) /\ Holds(s, N + n, SealTag, b)
      BY <1>1, LoadIs, Zenon
    <3> HIDE DEF a, b
    <3>2. a[j + 1] = m[i] /\ b[j + 1] = s[i]
      BY <2>1, <3>1, Zenon DEF Holds
    <3> QED BY <3>2, Zenon DEF a, b
  <2>4. ASSUME NEW a, NEW x
        PROVE  \E y : Seal!lock_auth(a, x)[j + 1] = {<<"tag", a, y, j + 1>>}
    BY <2>2, Zenon DEF Seal!lock_auth
  <2>5. PICK y : m[i] = {<<"tag", auth(other, p), y, j + 1>>}
    <3>1. m[i] = Seal!lock_auth(auth(other, p), found)[j + 1]
      BY <1>6, <2>3, Zenon
    <3> HIDE DEF p, found
    <3> QED BY <3>1, <2>4, Zenon
  <2>6. PICK z : s[i] = {<<"tag", auth(key, nonce), z, j + 1>>}
    <3>1. s[i] = Seal!lock_auth(auth(key, nonce), text)[j + 1]
      BY <1>2, <2>3, Zenon
    <3> HIDE DEF text
    <3> QED BY <3>1, <2>4, Zenon
  <2>7. ASSUME NEW a, NEW x PROVE <<"damage">> # <<"tag", a, x, j + 1>>
    OBVIOUS
  <2>8. <<"damage">> \in m[i]
    BY <1>3, <2>6, <2>7, Zenon DEF Seal!Xor
  <2> QED BY <2>5, <2>7, <2>8, Zenon
<1> QED BY <1>1, <1>8, <1>9

(* A packet that was cut, but not below an empty one, passes with no key.  *)
LEMMA CutRefused ==
    ASSUME SealSizes, NEW n \in Lengths, NEW key, NEW other, NEW nonce,
           On(nonce, 1 .. SealNonce), NEW l \in Nat, l < n
    PROVE  ~Matches(Seal!SealedBuffer(n, key, nonce), l, other)
<1> DEFINE s == Seal!SealedBuffer(n, key, nonce)
           k == Seal!crypto_aead_init_x(key, nonce)
           tag == Seal!Load(s, SealNonce + l, SealTag)
<1> SUFFICES ASSUME Matches(s, l, other) PROVE FALSE
  OBVIOUS
<1>1. s[SealNonce + l] = Seal!Xor({<<"text", l>>}, Seal!KeyStream(k.key, k.nonce, 1, l))
  <2> DEFINE P == Seal!Payload(n)
  <2>1. Ciphered(s, SealNonce, P, 0, n, k.key, k.nonce, 1)
    BY SealedIs, Zenon
  <2>2. P[0 + l] = {<<"text", l>>}
    <3>1. l \in Seal!Buffer
      BY BufferRoom DEF SealSizes
    <3> QED BY <3>1 DEF Seal!Payload
  <2> HIDE DEF s, k, P
  <2> QED BY <2>1, <2>2, Zenon DEF Ciphered
<1> HIDE DEF s, k
<1>2. SealNonce \in Nat /\ SealNonce + l \in Nat /\ SealTag \in Nat /\ 0 < SealTag /\ 0 \in Nat
  BY DEF SealSizes
<1>3. Holds(s, SealNonce + l, SealTag, tag)
  BY <1>2, LoadIs, Zenon
<1>4. tag[1] = s[SealNonce + l]
  <2>1. SealNonce + l + 0 = SealNonce + l /\ 0 + 1 = 1
    BY <1>2
  <2> HIDE DEF tag
  <2> QED BY <1>2, <1>3, <2>1, Zenon DEF Holds
<1>5. PICK a, x : tag = Seal!lock_auth(a, x)
  BY Zenon DEF Matches
<1>6. PICK y : tag[1] = {<<"tag", a, y, 1>>}
  <2>1. 1 \in 1 .. SealTag
    BY <1>2
  <2> HIDE DEF tag
  <2> QED BY <1>5, <2>1, Zenon DEF Seal!lock_auth
<1>7. PICK b : Seal!KeyStream(k.key, k.nonce, 1, l) = {<<"pad", k.key, k.nonce, b, l % ChaChaBlock>>}
  BY Zenon DEF Seal!KeyStream
<1>8. <<"text", l>> # <<"pad", k.key, k.nonce, b, l % ChaChaBlock>>
  OBVIOUS
<1>9. <<"text", l>> \in tag[1]
  BY <1>1, <1>4, <1>7, <1>8, Zenon DEF Seal!Xor
<1>10. <<"text", l>> # <<"tag", a, y, 1>>
  OBVIOUS
<1> QED BY <1>6, <1>9, <1>10, Zenon

LEMMA NonceOn ==
    ASSUME NEW p, NEW c
    PROVE  On(Seal!Nonce(p, c), 1 .. SealNonce)
  BY Zenon DEF On, Seal!Nonce

\* A packet as it was sealed, changed in one byte, or cut.
OnItsWay(n, s) ==
    \/ ~damaged /\ len = n + Seal!Expansion /\ mem = s
    \/ /\ damaged /\ len = n + Seal!Expansion
       /\ \E i \in 0 .. len - 1 : mem = [s EXCEPT ![i] = Seal!Xor(@, {<<"damage">>})]
    \/ damaged /\ len \in 0 .. n + Seal!Expansion - 1 /\ mem = s

\* The buffer holds a payload, a packet on its way, or a payload again.
SealInv ==
    /\ counter \in Nat /\ prefix \in {"zero", "random"} /\ damaged \in BOOLEAN
    /\ phase \in {"plain", "sealed", "opened", "refused"}
    /\ phase = "plain" => len \in Lengths /\ mem = Seal!Payload(len) /\ ~damaged
    /\ phase = "sealed" =>
        \E n \in Lengths, key \in Keys, p \in {"zero", "random"}, c \in 0 .. counter - 1 :
            OnItsWay(n, Seal!SealedBuffer(n, key, Seal!Nonce(p, c)))
    /\ Seal!OpensInPlace

(* What vf_decrypt does, by what it compares.                              *)
LEMMA DecryptIs ==
    ASSUME SealSizes, NEW key, Seal!vf_decrypt(key)
    PROVE  LET n == len - Seal!Expansion
               k == Seal!crypto_aead_init_x(key, Seal!Load(mem, 0, SealNonce))
               opens == len >= Seal!Expansion /\ Matches(mem, n, key)
           IN  /\ phase = "sealed"
               /\ UNCHANGED <<len, prefix, counter, damaged, pads, reused>>
               /\ opens => /\ phase' = "opened" /\ out_len' = n
                           /\ mem' = Seal!crypto_chacha20_djb(mem, 0, SealNonce, n,
                                        k.key, k.nonce, k.counter + 1)
               /\ ~opens => phase' = "refused" /\ out_len' = 0 /\ mem' = mem
<1> DEFINE n == len - Seal!Expansion
           k == Seal!crypto_aead_init_x(key, Seal!Load(mem, 0, SealNonce))
           u == Seal!crypto_aead_unlock(mem, 0, SealNonce + n, key,
                    Seal!Load(mem, 0, SealNonce), SealNonce, n)
<1>1. u.mismatch <=> ~Matches(mem, n, key)
  BY Zenon DEF Seal!crypto_aead_unlock, Seal!crypto_aead_read, Matches
<1>2. u.mem = IF Matches(mem, n, key)
              THEN Seal!crypto_chacha20_djb(mem, 0, SealNonce, n, k.key, k.nonce, k.counter + 1)
              ELSE mem
  BY Zenon DEF Seal!crypto_aead_unlock, Seal!crypto_aead_read, Matches
<1>3. /\ phase = "sealed"
      /\ mem' = IF len >= Seal!Expansion THEN u.mem ELSE mem
      /\ IF len >= Seal!Expansion /\ ~u.mismatch
         THEN phase' = "opened" /\ out_len' = n
         ELSE phase' = "refused" /\ out_len' = 0
      /\ UNCHANGED <<len, prefix, counter, damaged, pads, reused>>
  BY Zenon DEF Seal!vf_decrypt
<1> HIDE DEF u, k, n
<1> QED BY <1>1, <1>2, <1>3, Zenon DEF k, n

(* vf_decrypt opens exactly the packets that arrive as they were sealed    *)
(* with its key, and gives back their payload.                             *)
LEMMA DecryptRight ==
    ASSUME SealSizes, SealInv, NEW key, Seal!vf_decrypt(key)
    PROVE  LET whole == ~damaged /\ Seal!SealedBy(mem, len - Seal!Expansion, key)
           IN  /\ whole <=> phase' = "opened"
               /\ ~whole => out_len' = 0 /\ mem' = mem
               /\ SealInv'
<1> DEFINE E == Seal!Expansion
           l == len - E
           whole == ~damaged /\ Seal!SealedBy(mem, l, key)
           opens == len >= E /\ Matches(mem, l, key)
<1>1. /\ phase = "sealed" /\ UNCHANGED <<len, prefix, counter, damaged>>
      /\ opens => phase' = "opened" /\ out_len' = l
      /\ ~opens => phase' = "refused" /\ out_len' = 0 /\ mem' = mem
  BY DecryptIs, Zenon
<1>2. PICK n \in Lengths, first \in Keys, p \in {"zero", "random"}, c \in 0 .. counter - 1 :
        OnItsWay(n, Seal!SealedBuffer(n, first, Seal!Nonce(p, c)))
  BY <1>1, Zenon DEF SealInv
<1> DEFINE nonce == Seal!Nonce(p, c)
           s == Seal!SealedBuffer(n, first, nonce)
<1>3. On(nonce, 1 .. SealNonce)
  BY NonceOn, Zenon
<1>4. n \in Nat /\ E \in Nat /\ E = SealNonce + SealTag /\ SealNonce \in Nat /\ SealTag \in Nat
  BY BufferRoom DEF SealSizes
<1>5. OnItsWay(n, s)
  BY <1>2, Zenon
<1>6. opens <=> whole
  <2>1. CASE ~damaged
    <3>1. len = n + E /\ mem = s /\ l = n /\ len >= E
      BY <1>4, <1>5, <2>1 DEF OnItsWay
    <3>2. Matches(s, n, key) <=> key = first
      BY <1>3, WholeMatches, Zenon
    <3>3. ASSUME Seal!SealedBy(mem, l, key) PROVE key = first
      <4>1. PICK q \in {"zero", "random"}, d \in 0 .. counter :
              mem = Seal!SealedBuffer(l, key, Seal!Nonce(q, d))
        BY <3>3, Zenon DEF Seal!SealedBy
      <4>2. Matches(Seal!SealedBuffer(n, key, Seal!Nonce(q, d)), n, key)
        BY NonceOn, WholeMatches, Zenon
      <4> HIDE DEF s
      <4> QED BY <3>1, <3>2, <4>1, <4>2, Zenon
    <3>4. ASSUME key = first PROVE Seal!SealedBy(mem, l, key)
      <4>1. c \in 0 .. counter
        BY DEF SealInv
      <4> QED BY <3>1, <3>4, <4>1, Zenon DEF Seal!SealedBy
    <3> HIDE DEF s
    <3> QED BY <2>1, <3>1, <3>2, <3>3, <3>4, Zenon
  <2>2. CASE damaged
    <3> SUFFICES ASSUME opens PROVE FALSE
      BY <2>2, Zenon
    <3>1. CASE len = n + E /\ \E i \in 0 .. len - 1 :
                    mem = [s EXCEPT ![i] = Seal!Xor(@, {<<"damage">>})]
      <4>1. PICK i \in 0 .. len - 1 : mem = [s EXCEPT ![i] = Seal!Xor(@, {<<"damage">>})]
        BY <3>1, Zenon
      <4>2. i \in Nat /\ i < n + SealNonce + SealTag /\ l = n
        BY <1>4, <3>1
      <4>3. ~Matches(mem, n, key)
        BY <1>3, <4>1, <4>2, ChangedRefused, Zenon
      <4> QED BY <4>2, <4>3, Zenon
    <3>2. CASE len \in 0 .. n + E - 1 /\ mem = s
      <4>1. l \in Nat /\ l < n
        BY <1>4, <3>2
      <4>2. ~Matches(s, l, key)
        BY <1>3, <4>1, CutRefused, Zenon
      <4> QED BY <3>2, <4>2, Zenon
    <3> QED BY <1>5, <2>2, <3>1, <3>2, Zenon DEF OnItsWay
  <2> QED BY <2>1, <2>2, Zenon DEF SealInv
<1>7. Seal!OpensInPlace'
  <2> SUFFICES ASSUME phase' = "opened"
               PROVE  /\ ~damaged' /\ out_len' = len' - E
                      /\ \A i \in 0 .. out_len' - 1 : mem'[i] = {<<"text", i>>}
    BY Zenon DEF Seal!OpensInPlace, Seal!Expansion
  <2>1. opens /\ whole
    BY <1>1, <1>6, Zenon
  <2>2. len = n + E /\ mem = s /\ l = n /\ ~damaged
    BY <1>4, <1>5, <2>1 DEF OnItsWay
  <2>3. key = first /\ Seal!Load(mem, 0, SealNonce) = nonce
    <3>1. Matches(s, n, key) <=> key = first
      BY <1>3, WholeMatches, Zenon
    <3>2. Seal!Load(s, 0, SealNonce) = nonce
      BY <1>3, SealedIs, Zenon
    <3> HIDE DEF s
    <3> QED BY <2>1, <2>2, <3>1, <3>2, Zenon
  <2> DEFINE k == Seal!crypto_aead_init_x(key, Seal!Load(mem, 0, SealNonce))
             m == Seal!SealedBuffer(n, key, nonce)
             j == Seal!crypto_aead_init_x(key, nonce)
  <2>4. mem' = Seal!crypto_chacha20_djb(mem, 0, SealNonce, l, k.key, k.nonce, k.counter + 1)
    BY <2>1, DecryptIs, Zenon
  <2>5. mem' = Seal!crypto_chacha20_djb(m, 0, SealNonce, n, j.key, j.nonce, j.counter + 1)
    BY <2>2, <2>3, <2>4, Zenon
  <2>6. ASSUME NEW i \in Nat, i < n PROVE mem'[i] = {<<"text", i>>}
    BY <1>3, <2>5, <2>6, WholeOpens
  <2> QED BY <1>1, <1>4, <2>1, <2>2, <2>6
<1>8. SealInv'
  BY <1>1, <1>6, <1>7, Zenon DEF SealInv
<1> QED BY <1>1, <1>6, <1>8, Zenon

(* A packet that is as it was sealed, is changed or is cut stays what it   *)
(* was until it is opened.                                                 *)
LEMMA SealStep ==
    ASSUME SealSizes, SealInv, [Seal!Next]_(Seal!vars)
    PROVE  SealInv'
<1> DEFINE P == {"zero", "random"}
           Packet(n, key, p, c) == Seal!SealedBuffer(n, key, Seal!Nonce(p, c))
<1>a. ASSUME NEW n, NEW s, ~damaged', len' = n + Seal!Expansion, mem' = s
      PROVE  OnItsWay(n, s)'
  BY <1>a, Zenon DEF OnItsWay
<1>b. ASSUME NEW n, NEW s, damaged', len' = n + Seal!Expansion,
             \E i \in 0 .. len' - 1 :
                mem' = [s EXCEPT ![i] = Seal!Xor(@, {<<"damage">>})]
      PROVE  OnItsWay(n, s)'
  BY <1>b, Zenon DEF OnItsWay
<1>c. ASSUME NEW n, NEW s, damaged', len' \in 0 .. n + Seal!Expansion - 1, mem' = s
      PROVE  OnItsWay(n, s)'
  BY <1>c, Zenon DEF OnItsWay
<1>0. ASSUME phase' = "sealed", counter' \in Nat, prefix' \in P, damaged' \in BOOLEAN,
             NEW n \in Lengths, NEW key \in Keys, NEW p \in P, NEW c \in 0 .. counter' - 1,
             OnItsWay(n, Packet(n, key, p, c))'
      PROVE  SealInv'
  BY <1>0, Zenon DEF SealInv, Seal!OpensInPlace
<1>1. ASSUME NEW key \in Keys, NEW drawn \in BOOLEAN, Seal!vf_encrypt(key, drawn)
      PROVE  SealInv'
  <2> DEFINE nonce == Seal!Nonce(prefix', counter)
  <2>1. /\ phase = "plain" /\ phase' = "sealed" /\ len' = len + Seal!Expansion
        /\ counter' = counter + 1
        /\ prefix' \in {prefix, "random"} /\ damaged' = damaged
    BY <1>1, Zenon DEF Seal!vf_encrypt, Seal!get_fast_nonce
  <2>2. len \in Lengths /\ mem = Seal!Payload(len) /\ ~damaged
    BY <2>1, Zenon DEF SealInv
  <2>3. mem' = Seal!SealedBuffer(len, key, nonce)
    <3>1. mem' = Seal!Store(Seal!crypto_aead_lock(
                    Seal!Store(mem, SealNonce, Seal!Load(mem, 0, len)), SealNonce,
                    SealNonce + len, key, nonce, SealNonce, len), 0, nonce)
      BY <1>1, Zenon DEF Seal!vf_encrypt
    <3> QED BY <2>2, <3>1, Zenon DEF Seal!SealedBuffer
  <2>4. counter \in 0 .. counter' - 1 /\ counter' \in Nat /\ prefix' \in P
    BY <2>1 DEF SealInv
  <2>5. PICK n \in Lengths, p \in P, c \in 0 .. counter' - 1 :
          len' = n + Seal!Expansion /\ mem' = Packet(n, key, p, c)
    BY <2>1, <2>2, <2>3, <2>4, Zenon
  <2> HIDE DEF Packet
  <2>6. OnItsWay(n, Packet(n, key, p, c))'
    <3>1. ~damaged'
      BY <2>1, <2>2, Zenon
    <3>2. len' = n + Seal!Expansion /\ mem' = Packet(n, key, p, c)
      BY <2>5, Zenon
    <3> QED BY ONLY <1>a, <3>1, <3>2
  <2>7. damaged' \in BOOLEAN
    BY <2>1, Zenon DEF SealInv
  <2> QED BY <1>0, <2>1, <2>4, <2>6, <2>7, Zenon
<1>2. CASE Seal!Damage
  <2>1. /\ phase = "sealed" /\ phase' = "sealed" /\ ~damaged /\ damaged' = TRUE
        /\ UNCHANGED <<prefix, counter>>
        /\ \/ len' = len /\ \E i \in 0 .. len - 1 :
                mem' = [mem EXCEPT ![i] = Seal!Xor(@, {<<"damage">>})]
           \/ len' \in 0 .. len - 1 /\ mem' = mem
    BY <1>2, Zenon DEF Seal!Damage
  <2>2. PICK n \in Lengths, key \in Keys, p \in P, c \in 0 .. counter - 1 :
          OnItsWay(n, Packet(n, key, p, c))
    BY <2>1, Zenon DEF SealInv
  <2>3. len = n + Seal!Expansion /\ mem = Packet(n, key, p, c)
    BY <2>1, <2>2, Zenon DEF OnItsWay
  <2>4. counter' \in Nat /\ prefix' \in P /\ c \in 0 .. counter' - 1
    BY <2>1, Zenon DEF SealInv
  <2> HIDE DEF Packet
  <2>5. CASE len' = len /\ \E i \in 0 .. len - 1 :
                mem' = [mem EXCEPT ![i] = Seal!Xor(@, {<<"damage">>})]
    <3>1. PICK i \in 0 .. len' - 1 :
            mem' = [Packet(n, key, p, c) EXCEPT ![i] = Seal!Xor(@, {<<"damage">>})]
      BY <2>3, <2>5, Zenon
    <3>2. damaged' /\ len' = n + Seal!Expansion
      BY <2>1, <2>3, <2>5, Zenon
    <3>3. OnItsWay(n, Packet(n, key, p, c))'
      BY <1>b, <3>1, <3>2, Zenon
    <3> QED BY <1>0, <2>1, <2>4, <3>3, Zenon
  <2>6. CASE len' \in 0 .. len - 1 /\ mem' = mem
    <3>1. OnItsWay(n, Packet(n, key, p, c))'
      <4>1. damaged' /\ len' \in 0 .. n + Seal!Expansion - 1 /\ mem' = Packet(n, key, p, c)
        <5>1. len' \in 0 .. n + Seal!Expansion - 1
          <6>1. n \in Int /\ Seal!Expansion \in Int /\ len = n + Seal!Expansion
            BY <2>3 DEF SealSizes, Seal!Expansion
          <6> QED BY <2>6, <6>1
        <5>2. mem' = Packet(n, key, p, c)
          BY <2>3, <2>6, Zenon
        <5>3. damaged'
          BY <2>1, Zenon
        <5> QED BY <5>1, <5>2, <5>3, Zenon
      <4> QED BY <1>c, <4>1, Zenon
    <3> QED BY <1>0, <2>1, <2>4, <3>1, Zenon
  <2> QED BY <2>1, <2>5, <2>6, Zenon
<1>3. ASSUME NEW key \in Keys, Seal!vf_decrypt(key) PROVE SealInv'
  BY <1>3, DecryptRight, Zenon
<1>4. CASE Seal!Reuse
  <2>1. /\ phase' = "plain" /\ damaged' = FALSE /\ len' \in Lengths
        /\ mem' = Seal!Payload(len') /\ UNCHANGED <<prefix, counter>>
    BY <1>4, Zenon DEF Seal!Reuse
  <2> QED BY <2>1, Zenon DEF SealInv, Seal!OpensInPlace, Seal!Payload, Seal!Buffer, Seal!Longest,
             Seal!Expansion
<1>5. CASE UNCHANGED Seal!vars
  BY <1>5 DEF Seal!vars, SealInv, OnItsWay, Seal!OpensInPlace
<1> QED BY <1>1, <1>2, <1>3, <1>4, <1>5, Zenon DEF Seal!Next

LEMMA SealInvariant == CryptoSpec => [](part = "aead" => SealInv)
<1> USE SizesAssumption
<1>1. CryptoInit => (part = "aead" => SealInv)
  <2> SUFFICES ASSUME Seal!Init PROVE SealInv
    BY Zenon DEF CryptoInit
  <2> QED BY Zenon DEF Seal!Init, SealInv, Seal!OpensInPlace
<1>2. (part = "aead" => SealInv) /\ [CryptoNext]_cryptoVars => (part = "aead" => SealInv)'
  <2> SUFFICES ASSUME part = "aead" => SealInv, [CryptoNext]_cryptoVars, part' = "aead"
               PROVE  SealInv'
    OBVIOUS
  <2>1. part = "aead"
    BY Zenon DEF CryptoNext, cryptoVars
  <2>2. [Seal!Next]_(Seal!vars)
    BY <2>1, Zenon DEF CryptoNext, cryptoVars, sealVars, Seal!vars
  <2> QED BY <2>1, <2>2, SealStep, Zenon
<1> QED BY <1>1, <1>2, PTL DEF CryptoSpec

(***************************************************************************)
(* For every size of nonce, tag, block and payload and any number of       *)
(* messages, a packet that vf_decrypt opens is one that nobody changed or  *)
(* cut, and its payload stands at the start of the buffer as it was before *)
(* vf_encrypt, although both work in place.                                *)
(***************************************************************************)
THEOREM OpensInPlaceAlways == CryptoSpec => []OpensInPlace
<1>1. (part = "aead" => SealInv) => OpensInPlace
  BY Zenon DEF SealInv, OpensInPlace
<1> QED BY <1>1, SealInvariant, PTL

(***************************************************************************)
(* For every size, every key and every damage to one byte or to the end of *)
(* a packet: vf_decrypt opens a packet exactly when it arrives as it was   *)
(* sealed with that key, and otherwise reports no length and leaves the    *)
(* buffer alone (crypto_aead_unlock compares before it decrypts).          *)
(***************************************************************************)
THEOREM RefusesDamagedAlways == CryptoSpec => RefusesDamaged
<1> USE SizesAssumption
<1>1. (part = "aead" => SealInv) => (part = "aead" => Seal!OpensWhole)
  <2> SUFFICES ASSUME SealInv PROVE Seal!OpensWhole
    OBVIOUS
  <2>1. ASSUME NEW key \in Keys, Seal!vf_decrypt(key)
        PROVE  LET whole == ~damaged /\ Seal!SealedBy(mem, len - Seal!Expansion, key)
               IN  /\ whole <=> phase' = "opened"
                   /\ ~whole => out_len' = 0 /\ mem' = mem
    BY <2>1, DecryptRight, Zenon
  <2> QED BY <2>1, Zenon DEF Seal!OpensWhole
<1> QED BY <1>1, SealInvariant, PTL DEF RefusesDamaged

=============================================================================
