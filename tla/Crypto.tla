------------------------------- MODULE Crypto -------------------------------
(***************************************************************************)
(* The three modules about the bytes of a packet side by side: the wire    *)
(* format (Packet), sealing in place (Aead) and the authenticator          *)
(* (Poly1305).  They share no state.  A behaviour is that of the one which *)
(* part names; the variables of the others stay 0.                         *)
(***************************************************************************)
EXTENDS Poly1305

CONSTANTS
    BUF_SIZE, VPN_TNL_HLEN, CRYPTO_NONCE_SIZE, CRYPTO_TAG_SIZE, MaxPad, Margin,
    PayloadLengths, Byte, HeaderWords, Salt, Preamble,          \* see Packet
    SealNonce, SealTag, PrefixSize, ChaChaBlock, PolyBlock, Keys, Lengths,
    MaxMessages                                                 \* see Aead

VARIABLES
    part,
    type, payload, sid, wire, got,
    phase, len, out_len, mem, prefix, counter, damaged, pads, reused

Wire == INSTANCE Packet WITH
    Lengths <- PayloadLengths, Words <- HeaderWords, len <- payload

Seal == INSTANCE Aead WITH
    CRYPTO_NONCE_SIZE <- SealNonce, CRYPTO_TAG_SIZE <- SealTag

\* The sizes are numbers, a byte holds the type, and the three bytes before the
\* type do not reach into it.
WireSizes ==
    /\ BUF_SIZE \in Nat /\ VPN_TNL_HLEN \in Nat /\ Margin \in Nat
    /\ CRYPTO_NONCE_SIZE \in Nat /\ CRYPTO_TAG_SIZE \in Nat
    /\ MaxPad \in Nat \ {0} /\ PayloadLengths \subseteq Nat
    /\ Byte \in Nat /\ Byte >= 4
    /\ Preamble \subseteq 0 .. 3 * Byte - 1

\* A nonce has room for a counter after its random front, a tag has a byte, and
\* the buffer is made for the longest payload.
SealSizes ==
    /\ SealNonce \in Nat /\ PrefixSize \in Nat
    /\ PrefixSize < SealNonce
    /\ SealTag \in Nat \ {0}
    /\ ChaChaBlock \in Nat \ {0} /\ PolyBlock \in Nat \ {0}
    /\ Lengths \subseteq Nat
    /\ \E n \in Lengths : \A m \in Lengths : m <= n

ASSUME SizesAssumption == WireSizes /\ SealSizes

-----------------------------------------------------------------------------
wireVars == <<type, payload, sid, wire, got>>
sealVars == <<phase, len, out_len, mem, prefix, counter, damaged, pads, reused>>
cryptoVars == <<part, vars, wireVars, sealVars>>

PolyRests == ctx = 0 /\ msg = 0 /\ mac = 0
WireRests == type = 0 /\ payload = 0 /\ sid = 0 /\ wire = 0 /\ got = 0
SealRests ==
    /\ phase = 0 /\ len = 0 /\ out_len = 0 /\ mem = 0 /\ prefix = 0
    /\ counter = 0 /\ damaged = 0 /\ pads = 0 /\ reused = 0

CryptoInit ==
    \/ part = "poly" /\ Init /\ WireRests /\ SealRests
    \/ part = "packet" /\ Wire!Init /\ PolyRests /\ SealRests
    \/ part = "aead" /\ Seal!Init /\ PolyRests /\ WireRests

CryptoNext ==
    \/ part = "poly" /\ Next /\ UNCHANGED <<part, wireVars, sealVars>>
    \/ part = "packet" /\ Wire!Next /\ UNCHANGED <<part, vars, sealVars>>
    \/ part = "aead" /\ Seal!Next /\ UNCHANGED <<part, vars, wireVars>>

CryptoSpec == CryptoInit /\ [][CryptoNext]_cryptoVars

-----------------------------------------------------------------------------
(* What vf_pack packs, vf_unpack unpacks: type, session id, payload and     *)
(* padding.                                                                 *)
RoundTrip == part = "packet" => Wire!RoundTrip

(* "Restore exact length regardless of encryption state" (protocol.c:129):  *)
(* vf_unpack removes the padding that vf_pack added.                        *)
ExactLength == part = "packet" => Wire!ExactLength

(* "Capacity of the buffer to prevent overflows" (protocol.c:45): vf_pack   *)
(* writes nothing behind its buffer.                                        *)
WritesInBuffer == part = "packet" => Wire!WritesInBuffer

(* Opening in place gives back the payload (vf_encrypt, vf_decrypt).        *)
OpensInPlace == part = "aead" => Seal!OpensInPlace

(* A damaged, cut or foreign packet is refused and left as it was, every    *)
(* other one is opened (crypto_aead_unlock, vf_decrypt).                    *)
RefusesDamaged == [][part = "aead" => Seal!OpensWhole]_cryptoVars

(* No byte of key stream is spent twice (get_fast_nonce).                   *)
PadsSpentOnce == part = "aead" => Seal!PadsSpentOnce

(* However the message was cut, the state of the tag is the polynomial of   *)
(* the blocks absorbed, and the tag is the reduced polynomial plus the pad  *)
(* (crypto_poly1305_update, crypto_poly1305_final).                         *)
TagCorrect == part = "poly" => AbsorbsInOrder /\ TagExact
=============================================================================
