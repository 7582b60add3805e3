------------------------------- MODULE Packet -------------------------------
(***************************************************************************)
(* The wire format (protocol.c, crypto.c): vf_pack pads a payload, seals   *)
(* it for some message types, fills and masks the header; the receiver     *)
(* unmasks the header and vf_unpack opens and unpads the payload.  Payload *)
(* bytes are represented by their number, the header fields that steer the *)
(* receiver by their values; bytes is the end of what vf_pack wrote.  The  *)
(* masked fields are words of 4 * Byte bits, a word being the set of the   *)
(* positions of its ones; the message type is the top byte of the first.   *)
(* Sender and receiver hold the same key (Rekey is about when they do).    *)
(***************************************************************************)
EXTENDS Integers

CONSTANTS
    BUF_SIZE, VPN_TNL_HLEN, CRYPTO_NONCE_SIZE, CRYPTO_TAG_SIZE,
    MaxPad,         \* the max_pad that vf_pack passes (32)
    Margin,         \* the bytes vf_apply_padding sets aside for the tag (32)
    Lengths,        \* payload lengths to be packed
    Byte,           \* bits of a byte (8)
    Words,          \* values of session_id and seq_num
    Preamble,       \* the three bytes before the type: VF_MAGIC, VPN_VERSION
    Salt            \* 0xDEADBEEF

VARIABLES
    type, len, sid, \* what is sent
    wire,           \* the packet on the wire, or NoPacket
    got             \* what the receiver made of it, or NoPacket

vars == <<type, len, sid, wire, got>>

Types == {"DATA", "HELLO", "KEEPALIVE", "DPD_REQUEST", "DPD_RESPONSE",
          "REKEY_REQ", "REKEY_ACK", "AUTH_REQ", "AUTH_ACK"}
Code == [t \in Types |->
    CASE t = "DATA" -> {0} [] t = "HELLO" -> {1} [] t = "KEEPALIVE" -> {0, 1}
      [] t = "DPD_REQUEST" -> {0, 2} [] t = "DPD_RESPONSE" -> {1, 2}
      [] t = "REKEY_REQ" -> {0, 1, 2} [] t = "REKEY_ACK" -> {3}
      [] t = "AUTH_REQ" -> {0, 3} [] t = "AUTH_ACK" -> {1, 3}]
Plain == {Code[t] : t \in {"HELLO", "KEEPALIVE", "AUTH_REQ", "AUTH_ACK"}}

NoPacket == [bytes |-> 0]

Init ==
    /\ type \in Types /\ len \in Lengths /\ sid \in Words
    /\ wire = NoPacket /\ got = NoPacket

-----------------------------------------------------------------------------
\* The payload lengths vf_apply_padding may produce.
vf_apply_padding(n) ==
    LET spare == BUF_SIZE - (VPN_TNL_HLEN + n) - Margin
    IN  IF n <= 0 \/ spare <= 0 THEN {n}
        ELSE {n + p : p \in 0 .. (IF spare > MaxPad THEN MaxPad ELSE spare) - 1}

vf_encrypt(n) == CRYPTO_NONCE_SIZE + n + CRYPTO_TAG_SIZE

\* The packet must at least hold a nonce and a tag; -1 is a failure.
vf_decrypt(n) ==
    IF n < CRYPTO_NONCE_SIZE + CRYPTO_TAG_SIZE THEN -1
    ELSE n - CRYPTO_NONCE_SIZE - CRYPTO_TAG_SIZE

Xor(a, b) == (a \ b) \cup (b \ a)
RotateByte(w) == {(b + Byte) % (4 * Byte) : b \in w}

\* The first word of the header, and the type in it.
HeadBlock(code) == Preamble \cup {b + 3 * Byte : b \in code}
MsgType(h) == {b \in 0 .. Byte - 1 : b + 3 * Byte \in h.head}

\* seq_num and the salt mask the first word and the session id, on the way out
\* and on the way in; seq_num stays readable.
vf_header_obfs(h) ==
    LET key == Xor(h.seq_num, Salt)
    IN  [head |-> Xor(h.head, RotateByte(key)), session_id |-> Xor(h.session_id, key),
         flags |-> h.flags, seq_num |-> h.seq_num, padding_len |-> h.padding_len]

\* flags is cleared by vf_fill_header after the padding has set it; seq_num is
\* whatever the buffer held.  The length is compared with the capacity when
\* everything has been written.
Packed(n, seq) ==
    LET out == IF Code[type] \in Plain THEN n ELSE vf_encrypt(n)
    IN  [bytes |-> VPN_TNL_HLEN + out,
         sent |-> VPN_TNL_HLEN + out <= BUF_SIZE,
         hdr |-> vf_header_obfs(
            [head |-> HeadBlock(Code[type]), session_id |-> sid, flags |-> 0,
             seq_num |-> seq, padding_len |-> n - len])]

vf_pack ==
    /\ wire = NoPacket
    /\ \E n \in vf_apply_padding(len), seq \in Words : wire' = Packed(n, seq)
    /\ UNCHANGED <<type, len, sid, got>>

\* Payload length after the padding is removed; -1 when it is malformed.
vf_remove_padding(h, n) ==
    IF h.flags = 1
    THEN (IF n >= h.padding_len + VPN_TNL_HLEN THEN n - h.padding_len ELSE -1)
    ELSE n

\* AUTH_ACK is missing from the list of plain messages.
MutUnpackLen(h, n) ==
    IF MsgType(h) \in Plain \ {Code["AUTH_ACK"]} THEN n ELSE vf_decrypt(n)

UnpackLen(h, n) == IF MsgType(h) \in Plain THEN n ELSE vf_decrypt(n)

vf_unpack ==
    /\ wire # NoPacket /\ wire.sent /\ got = NoPacket
    /\ LET h == vf_header_obfs(wire.hdr)
           n == UnpackLen(h, wire.bytes - VPN_TNL_HLEN)
           all == IF n < 0 THEN -1 ELSE vf_remove_padding(h, n + VPN_TNL_HLEN)
       IN  got' = [bytes |-> all - VPN_TNL_HLEN, ok |-> all >= 0,
                   msg_type |-> MsgType(h), session_id |-> h.session_id]
    /\ UNCHANGED <<type, len, sid, wire>>

Next == vf_pack \/ vf_unpack

Spec == Init /\ [][Next]_vars

-----------------------------------------------------------------------------
(* What is packed can be unpacked: for every message type, length, padding *)
(* and left-over sequence number, the receiver reads the type and session  *)
(* id that were sent, and the payload that was sent followed by exactly    *)
(* the padding that vf_apply_padding drew.                                 *)
RoundTrip ==
    got # NoPacket =>
        /\ got.ok
        /\ got.msg_type = Code[type] /\ got.session_id = sid
        /\ got.bytes = len + wire.hdr.padding_len

(* "Mandatory Unpadding: Restore exact length regardless of encryption     *)
(* state" (protocol.c:129): vf_unpack returns the length that was packed.  *)
ExactLength == got # NoPacket => got.bytes = len

(* "Capacity of the buffer to prevent overflows" (protocol.c:45): vf_pack  *)
(* writes nothing behind the BUF_SIZE bytes it was given, for any payload  *)
(* that fits the buffer behind the header, as a TUN read does.             *)
WritesInBuffer == wire.bytes <= BUF_SIZE
=============================================================================
