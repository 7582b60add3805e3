---------------------------- MODULE RekeyProofs -----------------------------
(***************************************************************************)
(* Proofs that a connected client encrypts with a key its session still    *)
(* holds unless it took a REKEY_ACK of another session, and that on a path *)
(* that keeps order one grace key is enough to read what is in flight, for *)
(* any number of sessions, keys and datagrams in flight, any width of the  *)
(* key id and any path.                                                    *)
(*                                                                         *)
(* KeyAgreement is not inductive: it says nothing of the datagrams that    *)
(* will change the keys, and those of all former connections may still be  *)
(* in flight.  What keeps the connections apart is the session id.  A      *)
(* session whose AUTH_ACK is still to come has seen no other datagram; in  *)
(* the client's own session, the requests in flight are ones that the      *)
(* server will ignore, unless the two are in step and they carry the       *)
(* client's next key, and there is one acknowledgement at most, when the   *)
(* client is a key behind.                                                 *)
(*                                                                         *)
(* For PacketsDecrypt, Sealing adds which key seals which datagram.        *)
(***************************************************************************)
EXTENDS Rekey, SequenceTheorems, TLAPS

None(q, kind, s) == \A i \in 1 .. Len(q) : ~(q[i].kind = kind /\ q[i].sid = s)
AtMostOne(q, kind, s) ==
    \A i, j \in 1 .. Len(q) :
        q[i].kind = kind /\ q[i].sid = s /\ q[j].kind = kind /\ q[j].sid = s => i = j

\* Datagrams of a session are of one of the n that exist.
Within(q, n) ==
    \A i \in 1 .. Len(q) : q[i].kind \notin {"HELLO", "AUTH_REQ"} => q[i].sid \in 1 .. n

\* An AUTH_ACK announces the key of its session.
Announced(q, contexts) ==
    \A i \in 1 .. Len(q) : q[i].kind = "AUTH_ACK" => q[i].body = contexts[q[i].sid].active

\* Requests of a session for a key that is not newer than id, which the server
\* ignores, or for one of keys.
Requested(q, s, id, keys) ==
    \A i \in 1 .. Len(q) : q[i].kind = "REKEY_REQ" /\ q[i].sid = s =>
        q[i].body.id <= id \/ q[i].body \in keys

Outstanding == IF client.pending THEN {client.next} ELSE {}

\* A session that the client has yet to join.
Offered(s) == ~None(down, "AUTH_ACK", s)
Unused(s) ==
    /\ s # sid /\ s \notin misled
    /\ None(up, "REKEY_REQ", s) /\ None(up, "DATA", s)
    /\ None(down, "REKEY_ACK", s) /\ AtMostOne(down, "AUTH_ACK", s)

InStep ==
    /\ client.active = server[sid].active
    /\ None(down, "REKEY_ACK", sid)
    /\ Requested(up, sid, server[sid].active.id, Outstanding)
KeyBehind ==
    /\ client.active = server[sid].previous
    /\ client.pending /\ client.next = server[sid].active
    /\ AtMostOne(down, "REKEY_ACK", sid)
    /\ Requested(up, sid, server[sid].active.id, {})
Connected == sid \in 1 .. sessions /\ (sid \in misled \/ InStep \/ KeyBehind)

Traffic ==
    /\ Within(up, sessions) /\ Within(down, sessions) /\ Announced(down, server)
    /\ \A s \in 1 .. sessions : Offered(s) => Unused(s)
Joined ==
    /\ state = "connected" => Connected
    /\ sessions <= 1 => misled = {}

Inv == TypeOK /\ Traffic /\ Joined

-----------------------------------------------------------------------------
\* The queues.

LEMMA RemoveAtElements ==
    ASSUME NEW S, NEW q \in Seq(S), NEW i \in 1 .. Len(q)
    PROVE  /\ RemoveAt(q, i) \in Seq(S)
           /\ Len(RemoveAt(q, i)) = Len(q) - 1
           /\ \A j \in 1 .. Len(q) - 1 :
                RemoveAt(q, i)[j] = IF j < i THEN q[j] ELSE q[j + 1]
<1> DEFINE a == SubSeq(q, 1, i - 1)
           b == SubSeq(q, i + 1, Len(q))
<1>0. Len(q) \in Nat /\ i \in Nat
  BY LenProperties
<1>1. a \in Seq(S) /\ Len(a) = i - 1 /\ \A j \in 1 .. i - 1 : a[j] = q[j]
  OBVIOUS
<1>2. b \in Seq(S) /\ Len(b) = Len(q) - i /\ \A j \in 1 .. Len(q) - i : b[j] = q[i + j]
  OBVIOUS
<1> HIDE DEF a, b
<1>3. /\ a \o b \in Seq(S) /\ Len(a \o b) = Len(a) + Len(b)
      /\ \A j \in 1 .. Len(a) + Len(b) :
            (a \o b)[j] = IF j <= Len(a) THEN a[j] ELSE b[j - Len(a)]
  BY <1>1, <1>2, ConcatProperties, Zenon
<1>4. RemoveAt(q, i) = a \o b
  BY Zenon DEF RemoveAt, a, b
<1>5. Len(a) + Len(b) = Len(q) - 1
  BY <1>1, <1>2
<1>6. ASSUME NEW j \in 1 .. Len(q) - 1
      PROVE  (a \o b)[j] = IF j < i THEN q[j] ELSE q[j + 1]
  <2>1. CASE j < i
    BY <1>1, <1>3, <1>5, <2>1
  <2>2. CASE ~(j < i)
    <3>1. j - Len(a) \in 1 .. Len(q) - i /\ i + (j - Len(a)) = j + 1
      BY <1>0, <1>1, <2>2
    <3>2. (a \o b)[j] = b[j - Len(a)]
      BY <1>0, <1>1, <1>3, <1>5, <2>2, SMTT(30)
    <3>3. b[j - Len(a)] = q[i + (j - Len(a))]
      BY <1>2, <3>1, Zenon
    <3> QED BY <1>0, <2>2, <3>1, <3>2, <3>3, Zenon
  <2> QED BY ONLY <2>1, <2>2
<1> QED BY <1>3, <1>4, <1>5, <1>6, Zenon

(* What is true of the datagrams in flight stays true when one is taken    *)
(* out; when it was the only one of its kind and session, none is left.    *)
LEMMA Removed ==
    ASSUME NEW q \in Seq(Message), NEW i \in 1 .. Len(q), NEW r, r = RemoveAt(q, i)
    PROVE  /\ r \in Seq(Message)
           /\ \A k, s : None(q, k, s) => None(r, k, s)
           /\ \A k, s : AtMostOne(q, k, s) => AtMostOne(r, k, s)
           /\ \A k, s : AtMostOne(q, k, s) /\ q[i].kind = k /\ q[i].sid = s => None(r, k, s)
           /\ \A n : Within(q, n) => Within(r, n)
           /\ \A c : Announced(q, c) => Announced(r, c)
           /\ \A s, d, K : Requested(q, s, d, K) => Requested(r, s, d, K)
<1> DEFINE from == [j \in 1 .. Len(r) |-> IF j < i THEN j ELSE j + 1]
<1>0. /\ r \in Seq(Message) /\ Len(r) = Len(q) - 1 /\ Len(q) \in Nat
      /\ \A j \in 1 .. Len(r) : r[j] = IF j < i THEN q[j] ELSE q[j + 1]
  BY RemoveAtElements, LenProperties, Zenon
<1>1. /\ \A j \in 1 .. Len(r) :
            from[j] \in 1 .. Len(q) /\ from[j] # i /\ r[j] = q[from[j]]
      /\ \A j, l \in 1 .. Len(r) : from[j] = from[l] => j = l
  <2>1. \A j \in 1 .. Len(r) : from[j] = IF j < i THEN j ELSE j + 1
    OBVIOUS
  <2> HIDE DEF from
  <2>2. ASSUME NEW j \in 1 .. Len(r)
        PROVE  from[j] \in 1 .. Len(q) /\ from[j] # i /\ r[j] = q[from[j]]
    <3>1. CASE j < i
      BY <1>0, <2>1, <3>1
    <3>2. CASE ~(j < i)
      BY <1>0, <2>1, <3>2
    <3> QED BY ONLY <3>1, <3>2
  <2>3. \A j, l \in 1 .. Len(r) : from[j] = from[l] => j = l
    BY <1>0, <2>1
  <2> QED BY <2>2, <2>3, Zenon
<1> HIDE DEF from
<1>2. \A k, s : None(q, k, s) => None(r, k, s)
  BY <1>1, SMTT(20) DEF None
<1>3. ASSUME NEW k, NEW s, AtMostOne(q, k, s) PROVE AtMostOne(r, k, s)
  <2> SUFFICES ASSUME NEW j \in 1 .. Len(r), NEW l \in 1 .. Len(r),
                      r[j].kind = k, r[j].sid = s, r[l].kind = k, r[l].sid = s
               PROVE  j = l
      BY Zenon DEF AtMostOne
  <2>1. /\ from[j] \in 1 .. Len(q) /\ from[l] \in 1 .. Len(q)
        /\ r[j] = q[from[j]] /\ r[l] = q[from[l]]
    BY <1>1, Zenon
  <2>2. from[j] = from[l]
    BY <1>3, <2>1, Zenon DEF AtMostOne
  <2> QED BY <1>1, <2>2, Zenon
<1>4. ASSUME NEW k, NEW s, AtMostOne(q, k, s), q[i].kind = k, q[i].sid = s
      PROVE  None(r, k, s)
  BY <1>1, <1>4, SMTT(20) DEF AtMostOne, None
<1>5. \A n : Within(q, n) => Within(r, n)
  BY <1>1, SMTT(20) DEF Within
<1>6. \A c : Announced(q, c) => Announced(r, c)
  BY <1>1, SMTT(20) DEF Announced
<1>7. \A s, d, K : Requested(q, s, d, K) => Requested(r, s, d, K)
  BY <1>1, SMTT(20) DEF Requested
<1> QED BY <1>0, <1>2, <1>3, <1>4, <1>5, <1>6, <1>7, Zenon

(* What a datagram must satisfy to be sent.                                *)
LEMMA Appended ==
    ASSUME NEW q \in Seq(Message), NEW m \in Message, NEW r, r = Append(q, m)
    PROVE  /\ r \in Seq(Message)
           /\ \A k, s : None(q, k, s) /\ ~(m.kind = k /\ m.sid = s) => None(r, k, s)
           /\ \A k, s : None(q, k, s) => AtMostOne(r, k, s)
           /\ \A k, s : AtMostOne(q, k, s) /\ ~(m.kind = k /\ m.sid = s) => AtMostOne(r, k, s)
           /\ \A n : Within(q, n) /\ (m.kind \notin {"HELLO", "AUTH_REQ"} => m.sid \in 1 .. n)
                        => Within(r, n)
           /\ \A c : Announced(q, c) /\ (m.kind = "AUTH_ACK" => m.body = c[m.sid].active)
                        => Announced(r, c)
           /\ \A s, d, K :
                Requested(q, s, d, K)
                    /\ (m.kind = "REKEY_REQ" /\ m.sid = s => m.body.id <= d \/ m.body \in K)
                    => Requested(r, s, d, K)
<1>1. /\ r \in Seq(Message) /\ Len(r) = Len(q) + 1 /\ Len(q) \in Nat
      /\ r[Len(r)] = m
      /\ \A j \in 1 .. Len(r) : j # Len(r) => j \in 1 .. Len(q) /\ r[j] = q[j]
  OBVIOUS
<1>2. \A k, s : None(q, k, s) /\ ~(m.kind = k /\ m.sid = s) => None(r, k, s)
  BY <1>1, Zenon DEF None
<1>3. \A k, s : None(q, k, s) => AtMostOne(r, k, s)
  BY <1>1, Zenon DEF None, AtMostOne
<1>4. \A k, s : AtMostOne(q, k, s) /\ ~(m.kind = k /\ m.sid = s) => AtMostOne(r, k, s)
  BY <1>1, SMTT(20) DEF AtMostOne
<1>5. \A n : Within(q, n) /\ (m.kind \notin {"HELLO", "AUTH_REQ"} => m.sid \in 1 .. n)
                => Within(r, n)
  BY <1>1, Zenon DEF Within
<1>6. \A c : Announced(q, c) /\ (m.kind = "AUTH_ACK" => m.body = c[m.sid].active)
                => Announced(r, c)
  BY <1>1, Zenon DEF Announced
<1>7. \A s, d, K :
        Requested(q, s, d, K)
            /\ (m.kind = "REKEY_REQ" /\ m.sid = s => m.body.id <= d \/ m.body \in K)
            => Requested(r, s, d, K)
  BY <1>1, Zenon DEF Requested
<1> QED BY <1>1, <1>2, <1>3, <1>4, <1>5, <1>6, <1>7, Zenon

(* A datagram in flight, and what its absence or its request means.        *)
LEMMA Present ==
    ASSUME NEW q \in Seq(Message), NEW i \in 1 .. Len(q)
    PROVE  q[i] \in Message /\ ~None(q, q[i].kind, q[i].sid)
  BY ElementOfSeq, Zenon DEF None

LEMMA Absent ==
    ASSUME NEW q
    PROVE  /\ \A k, s : None(q, k, s) => AtMostOne(q, k, s)
           /\ \A s, d, K : None(q, "REKEY_REQ", s) => Requested(q, s, d, K)
           /\ \A s, d, K : Requested(q, s, d, {}) => Requested(q, s, d, K)
           /\ \A n, s, k : Within(q, n) /\ s \notin 1 .. n /\ k \notin {"HELLO", "AUTH_REQ"}
                                => None(q, k, s)
<1>1. \A k, s : None(q, k, s) => AtMostOne(q, k, s)
  BY Zenon DEF None, AtMostOne
<1>2. /\ \A s, d, K : None(q, "REKEY_REQ", s) => Requested(q, s, d, K)
      /\ \A s, d, K : Requested(q, s, d, {}) => Requested(q, s, d, K)
  BY Zenon DEF None, Requested
<1>3. \A n, s, k : Within(q, n) /\ s \notin 1 .. n /\ k \notin {"HELLO", "AUTH_REQ"}
                        => None(q, k, s)
  BY Zenon DEF None, Within
<1> QED BY <1>1, <1>2, <1>3, Zenon

\* r holds no more datagrams of these kinds than q, and none that was not there
\* of the kinds that change keys.
NoMore(q, r, kinds) ==
    /\ \A k \in kinds : \A s : None(q, k, s) => None(r, k, s)
    /\ \A k \in kinds : \A s : AtMostOne(q, k, s) => AtMostOne(r, k, s)
    /\ \A n : n = sessions /\ Within(q, n) => Within(r, n)
    /\ \A c : Announced(q, c) => Announced(r, c)
    /\ \A s, d, K : Requested(q, s, d, K) => Requested(r, s, d, K)

LEMMA NoMoreKinds ==
    ASSUME NEW q \in Seq(Message), NEW kinds
    PROVE  /\ NoMore(q, q, kinds)
           /\ \A i \in 1 .. Len(q) : NoMore(q, RemoveAt(q, i), kinds)
           /\ \A m \in Message :
                (/\ m.kind \in {"HELLO", "AUTH_REQ", "DATA"} /\ m.kind \notin kinds
                 /\ m.kind = "DATA" => m.sid \in 1 .. sessions)
                    => NoMore(q, Append(q, m), kinds)
<1>1. NoMore(q, q, kinds)
  BY Zenon DEF NoMore
<1>2. ASSUME NEW i \in 1 .. Len(q) PROVE NoMore(q, RemoveAt(q, i), kinds)
  <2> DEFINE r == RemoveAt(q, i)
  <2>1. /\ \A k, s : None(q, k, s) => None(r, k, s)
        /\ \A k, s : AtMostOne(q, k, s) => AtMostOne(r, k, s)
        /\ \A n : Within(q, n) => Within(r, n)
        /\ \A c : Announced(q, c) => Announced(r, c)
        /\ \A s, d, K : Requested(q, s, d, K) => Requested(r, s, d, K)
    BY Removed, Zenon
  <2> HIDE DEF r
  <2>2. NoMore(q, r, kinds)
    BY <2>1, Zenon DEF NoMore
  <2> QED BY <2>2, Zenon DEF r
<1>3. ASSUME NEW m \in Message,
             m.kind \in {"HELLO", "AUTH_REQ", "DATA"}, m.kind \notin kinds,
             m.kind = "DATA" => m.sid \in 1 .. sessions
      PROVE  NoMore(q, Append(q, m), kinds)
  <2> DEFINE r == Append(q, m)
  <2>1. m.kind # "AUTH_ACK" /\ m.kind # "REKEY_REQ"
        /\ (m.kind \notin {"HELLO", "AUTH_REQ"} => m.sid \in 1 .. sessions)
    BY <1>3, Zenon
  <2>2. \A k \in kinds : \A s : ~(m.kind = k /\ m.sid = s)
    BY <1>3, Zenon
  <2>3. /\ \A k, s : None(q, k, s) /\ ~(m.kind = k /\ m.sid = s) => None(r, k, s)
        /\ \A k, s : AtMostOne(q, k, s) /\ ~(m.kind = k /\ m.sid = s) => AtMostOne(r, k, s)
        /\ \A n : Within(q, n) /\ (m.kind \notin {"HELLO", "AUTH_REQ"} => m.sid \in 1 .. n)
                    => Within(r, n)
    BY Appended, Zenon
  <2>4. /\ \A c : Announced(q, c) /\ (m.kind = "AUTH_ACK" => m.body = c[m.sid].active)
                    => Announced(r, c)
        /\ \A s, d, K :
            Requested(q, s, d, K)
                /\ (m.kind = "REKEY_REQ" /\ m.sid = s => m.body.id <= d \/ m.body \in K)
                => Requested(r, s, d, K)
    BY Appended, Zenon
  <2> HIDE DEF r
  <2>5. NoMore(q, r, kinds)
    BY <2>1, <2>2, <2>3, <2>4, ZenonT(30) DEF NoMore
  <2> QED BY <2>5, Zenon DEF r
<1> QED BY <1>1, <1>2, <1>3, Zenon

-----------------------------------------------------------------------------
\* Types.

LEMMA MsgType ==
    ASSUME NEW kind \in {"HELLO", "AUTH_REQ", "AUTH_ACK", "REKEY_REQ", "REKEY_ACK", "DATA"},
           NEW s \in 0 .. MaxSessions, NEW key \in Key, NEW body \in Key
    PROVE  /\ Msg(kind, s, key, body) \in Message
           /\ Msg(kind, s, key, body).kind = kind
           /\ Msg(kind, s, key, body).sid = s
           /\ Msg(kind, s, key, body).body = body
           /\ ZeroKey \in Key
           /\ Plain(kind, s, body) = Msg(kind, s, ZeroKey, body)
  BY Zenon DEF Msg, Message, ZeroKey, Key, Plain

LEMMA ZeroKeyType == ZeroKey \in Key
  BY Zenon DEF ZeroKey, Key

LEMMA NewKeyType ==
    ASSUME TypeOK, NEW id \in Nat
    PROVE  NewKey(id) \in Key /\ NewKey(id).id = id
  BY DEF TypeOK, NewKey, Key

LEMMA TypeFacts ==
    ASSUME TypeOK
    PROVE  /\ MaxSessions \in Nat /\ MaxFresh \in Nat /\ sid \in 0 .. MaxSessions
           /\ 0 \in 0 .. MaxSessions /\ ZeroKey \in Key
           /\ client.active \in Key /\ client.next \in Key
           /\ \A s \in 1 .. sessions : s \in 1 .. MaxSessions /\ server[s] \in Context
           /\ up \in Seq(Message) /\ down \in Seq(Message) /\ sessions \in Nat
<1>1. /\ MaxSessions \in Nat /\ MaxFresh \in Nat /\ sessions \in 0 .. MaxSessions
      /\ sid \in 0 .. sessions
  BY RekeyAssumption, Zenon DEF TypeOK
<1>2. client.active \in Key /\ client.next \in Key /\ ZeroKey \in Key
  BY Zenon DEF TypeOK, Context, ZeroKey, Key
<1>3. \A s \in 1 .. sessions : s \in 1 .. MaxSessions /\ server[s] \in Context
  BY <1>1 DEF TypeOK
<1>4. up \in Seq(Message) /\ down \in Seq(Message)
  BY Zenon DEF TypeOK
<1> QED BY <1>1, <1>2, <1>3, <1>4

-----------------------------------------------------------------------------
LEMMA InvInit == Init => Inv
<1> SUFFICES ASSUME Init PROVE Inv
    OBVIOUS
<1>1. client \in Context /\ ContextWith(ZeroKey) \in Context
  BY Zenon DEF Init, ContextWith, Context, ZeroKey, Key
<1>2. TypeOK
  <2>1. MaxSessions \in Nat \ {0} /\ MaxFresh \in Nat \ {0} /\ path.losses \in Nat
    BY RekeyAssumption, Zenon DEF Init
  <2>2. server \in [1 .. MaxSessions -> Context]
    BY <1>1, Zenon DEF Init
  <2>3. <<>> \in Seq(Message)
    OBVIOUS
  <2>4. /\ state = "idle" /\ sid = 0 /\ sessions = 0 /\ fresh = 1 /\ losses = 0
        /\ up = <<>> /\ down = <<>> /\ path \in Paths /\ nullWrite = FALSE /\ misled = {}
    BY Zenon DEF Init
  <2>5. /\ sid \in 0 .. sessions /\ sessions \in 0 .. MaxSessions
        /\ fresh \in 1 .. MaxFresh /\ losses \in 0 .. path.losses
    BY <2>1, <2>4
  <2> QED BY <1>1, <2>2, <2>3, <2>4, <2>5, Zenon DEF TypeOK
<1>3. up = <<>> /\ down = <<>> /\ state = "idle" /\ sessions = 0 /\ misled = {}
  BY Zenon DEF Init
<1>4. Traffic
  BY <1>3 DEF Traffic, Within, Announced
<1> QED BY <1>2, <1>3, <1>4, Zenon DEF Inv, Joined

(* A step that adds nothing of a session but downward data, and changes    *)
(* no key, keeps the sessions apart and the keys in step.                  *)
LEMMA Settled ==
    ASSUME Traffic, NoMore(up, up', {"DATA", "REKEY_REQ"}),
           NoMore(down, down', {"AUTH_ACK", "REKEY_ACK"}),
           UNCHANGED <<sid, server, sessions, misled>>
    PROVE  Traffic' /\ (UNCHANGED client /\ Connected => Connected')
<1>1. \A s : None(down, "AUTH_ACK", s) => None(down', "AUTH_ACK", s)
  BY Zenon DEF NoMore
<1>2. /\ \A s : None(up, "REKEY_REQ", s) => None(up', "REKEY_REQ", s)
      /\ \A s : None(up, "DATA", s) => None(up', "DATA", s)
      /\ \A s : None(down, "REKEY_ACK", s) => None(down', "REKEY_ACK", s)
      /\ \A s : AtMostOne(down, "AUTH_ACK", s) => AtMostOne(down', "AUTH_ACK", s)
      /\ \A s : AtMostOne(down, "REKEY_ACK", s) => AtMostOne(down', "REKEY_ACK", s)
  BY Zenon DEF NoMore
<1>3. Within(up', sessions) /\ Within(down', sessions) /\ Announced(down', server)
  BY Zenon DEF NoMore, Traffic
<1>4. ASSUME NEW s \in 1 .. sessions, Offered(s)' PROVE Unused(s)'
  <2>1. Unused(s)
    BY <1>1, <1>4, Zenon DEF Offered, Traffic
  <2> QED BY <1>2, <2>1, Zenon DEF Unused
<1>5. \A s, d, K : Requested(up, s, d, K) => Requested(up', s, d, K)
  BY Zenon DEF NoMore
<1>6. ASSUME UNCHANGED client, Connected PROVE Connected'
  <2>1. InStep => InStep'
    BY <1>2, <1>5, <1>6, Zenon DEF InStep, Outstanding
  <2>2. KeyBehind => KeyBehind'
    BY <1>2, <1>5, <1>6, Zenon DEF KeyBehind
  <2> QED BY <1>6, <2>1, <2>2, Zenon DEF Connected
<1>7. Traffic'
  BY <1>3, <1>4, Zenon DEF Traffic
<1> QED BY <1>6, <1>7, Zenon

LEMMA InvLose == Inv /\ Lose => Inv'
<1> SUFFICES ASSUME Inv, Lose PROVE Inv'
    OBVIOUS
<1>1. /\ losses < path.losses /\ losses' = losses + 1
      /\ UNCHANGED <<state, sid, client, server, sessions, fresh, path, nullWrite, misled>>
  BY Zenon DEF Lose
<1>2. losses' \in 0 .. path.losses
  <2>1. path.losses \in Nat /\ losses \in 0 .. path.losses
    BY RekeyAssumption, Zenon DEF Inv, TypeOK
  <2> QED BY <1>1, <2>1
<1>3. up \in Seq(Message) /\ down \in Seq(Message)
  BY Zenon DEF Inv, TypeOK
<1>4. /\ up' \in Seq(Message) /\ down' \in Seq(Message)
      /\ NoMore(up, up', {"DATA", "REKEY_REQ"})
      /\ NoMore(down, down', {"AUTH_ACK", "REKEY_ACK"})
  <2>1. ASSUME NEW i \in DOMAIN up, up' = RemoveAt(up, i), UNCHANGED down
      PROVE /\ up' \in Seq(Message) /\ down' \in Seq(Message)
            /\ NoMore(up, up', {"DATA", "REKEY_REQ"})
            /\ NoMore(down, down', {"AUTH_ACK", "REKEY_ACK"})
    <3>1. i \in 1 .. Len(up)
      BY <1>3, LenProperties, Zenon
    <3> QED BY <1>3, <2>1, <3>1, NoMoreKinds, Removed, Zenon
  <2>2. ASSUME NEW i \in DOMAIN down, down' = RemoveAt(down, i), UNCHANGED up
      PROVE /\ up' \in Seq(Message) /\ down' \in Seq(Message)
            /\ NoMore(up, up', {"DATA", "REKEY_REQ"})
            /\ NoMore(down, down', {"AUTH_ACK", "REKEY_ACK"})
    <3>1. i \in 1 .. Len(down)
      BY <1>3, LenProperties, Zenon
    <3> QED BY <1>3, <2>2, <3>1, NoMoreKinds, Removed, Zenon
  <2> QED BY <2>1, <2>2, Zenon DEF Lose
<1>5. TypeOK'
  BY <1>1, <1>2, <1>4, Zenon DEF Inv, TypeOK
<1>6. Traffic' /\ (Connected => Connected')
  BY <1>1, <1>4, Settled, Zenon DEF Inv
<1> QED BY <1>1, <1>5, <1>6, Zenon DEF Inv, Joined

-----------------------------------------------------------------------------
\* The client.

LEMMA InvSendHello == Inv /\ SendHello => Inv'
<1> SUFFICES ASSUME Inv, SendHello PROVE Inv'
    OBVIOUS
<1> DEFINE m == Plain("HELLO", sid, ZeroKey)
<1>1. /\ state' = "hello" /\ up' = Append(up, m)
      /\ UNCHANGED <<sid, client, server, sessions, fresh, down, path, losses, nullWrite, misled>>
  BY Zenon DEF SendHello
<1>2. m \in Message /\ m.kind = "HELLO"
  BY TypeFacts, MsgType DEF Inv
<1> HIDE DEF m
<1>3. up \in Seq(Message) /\ down \in Seq(Message)
  BY Zenon DEF Inv, TypeOK
<1>4. /\ up' \in Seq(Message) /\ NoMore(up, up', {"DATA", "REKEY_REQ"})
      /\ NoMore(down, down', {"AUTH_ACK", "REKEY_ACK"})
  <2>1. m.kind \in {"HELLO", "AUTH_REQ", "DATA"} /\ m.kind \notin {"DATA", "REKEY_REQ"}
        /\ m.kind # "DATA"
    BY <1>2, Zenon
  <2> QED BY <1>1, <1>2, <1>3, <2>1, NoMoreKinds, Appended, Zenon
<1>5. TypeOK'
  BY <1>1, <1>4, Zenon DEF Inv, TypeOK
<1>6. Traffic'
  BY <1>1, <1>4, Settled, Zenon DEF Inv
<1> QED BY <1>1, <1>5, <1>6, Zenon DEF Inv, Joined

LEMMA InvTimeout == Inv /\ Timeout => Inv'
<1> SUFFICES ASSUME Inv, Timeout PROVE Inv'
    OBVIOUS
<1>1. /\ state' = "idle"
      /\ UNCHANGED <<sid, client, server, sessions, fresh, up, down, path, losses, nullWrite, misled>>
  BY Zenon DEF Timeout
<1>2. TypeOK'
  BY <1>1, Zenon DEF Inv, TypeOK
<1>3. Traffic'
  BY <1>1, Zenon DEF Inv, Traffic, Offered, Unused
<1> QED BY <1>1, <1>2, <1>3, Zenon DEF Inv, Joined

(* A datagram of the client's own session changes nothing of the others.   *)
LEMMA TrafficSends ==
    ASSUME Traffic, TypeOK, sid \in 1 .. sessions, NEW m \in Message,
           m.kind \in {"DATA", "REKEY_REQ"}, m.sid = sid, up' = Append(up, m),
           UNCHANGED <<sid, server, sessions, down, misled>>
    PROVE  Traffic' /\ up' \in Seq(Message)
<1>1. /\ up' \in Seq(Message) /\ Within(up', sessions)
      /\ \A k, s : None(up, k, s) /\ ~(m.kind = k /\ m.sid = s) => None(up', k, s)
  <2>1. up \in Seq(Message) /\ Within(up, sessions)
    BY Zenon DEF TypeOK, Traffic
  <2> QED BY <2>1, Appended, Zenon
<1>2. ASSUME NEW s \in 1 .. sessions, Offered(s)' PROVE Unused(s)'
  <2>1. Unused(s)
    BY <1>2, Zenon DEF Offered, Traffic
  <2>2. None(up', "REKEY_REQ", s) /\ None(up', "DATA", s)
    BY <1>1, <2>1, Zenon DEF Unused
  <2> QED BY <2>1, <2>2, Zenon DEF Unused
<1> QED BY <1>1, <1>2, Zenon DEF Traffic

(* A new or a repeated request carries the next key of a client in step,   *)
(* or the key the server has taken already.                                *)
LEMMA InvRekeyTimer == Inv /\ RekeyTimer => Inv'
<1> SUFFICES ASSUME Inv, RekeyTimer PROVE Inv'
    OBVIOUS
<1> DEFINE m == Msg("REKEY_REQ", sid, client'.active, client'.next)
           active == server[sid].active
<1>1. /\ state = "connected"
      /\ up' = up \/ up' = Append(up, m)
      /\ UNCHANGED <<state, sid, server, sessions, down, path, losses, nullWrite, misled>>
  BY Zenon DEF RekeyTimer
<1>2. Connected /\ TypeOK /\ Traffic
  BY <1>1, Zenon DEF Inv, Joined
<1>3. /\ client' \in Context /\ client'.active = client.active /\ client'.pending
      /\ fresh' \in 1 .. MaxFresh
      /\ \/ ~client.pending
         \/ client' = client
  <2>1. CASE client.pending /\ UNCHANGED <<client, fresh>>
    BY <1>2, <2>1, Zenon DEF TypeOK
  <2>2. CASE /\ ~client.pending /\ fresh < MaxFresh
             /\ client' = [client EXCEPT !.next = NewKey(client.active.id + 1),
                                         !.pending = TRUE]
             /\ fresh' = fresh + 1
    <3>1. client \in Context /\ fresh \in 1 .. MaxFresh /\ MaxFresh \in Nat
      BY <1>2, TypeFacts, Zenon DEF TypeOK
    <3>2. client.active.id + 1 \in Nat
      BY <3>1 DEF Context, Key
    <3>3. NewKey(client.active.id + 1) \in Key
      BY <1>2, <3>2, NewKeyType, Zenon
    <3>4. client' \in Context /\ client'.active = client.active /\ client'.pending
      <4> DEFINE key == NewKey(client.active.id + 1)
      <4>1. key \in Key /\ client' = [client EXCEPT !.next = key, !.pending = TRUE]
        BY <2>2, <3>3, Zenon
      <4> HIDE DEF key
      <4> QED BY <3>1, <4>1, Zenon DEF Context
    <3> QED BY <2>2, <3>1, <3>4
  <2> QED BY <2>1, <2>2, Zenon DEF RekeyTimer
<1>4. client'.active \in Key /\ client'.next \in Key
  BY <1>3, Zenon DEF Context
<1>5. m \in Message /\ m.kind = "REKEY_REQ" /\ m.sid = sid /\ m.body = client'.next
  <2>1. m = [kind |-> "REKEY_REQ", sid |-> sid, key |-> client'.active,
             body |-> client'.next]
    BY Zenon DEF Msg
  <2>2. sid \in 0 .. MaxSessions
    BY <1>2, TypeFacts, Zenon
  <2> QED BY <1>4, <2>1, <2>2 DEF Message
<1>6. server[sid] \in Context /\ active \in Key /\ active.id \in Nat
  BY <1>2, TypeFacts, Zenon DEF Connected, Context, Key
<1> HIDE DEF m, active
<1>7. /\ up \in Seq(Message) /\ sid \in 1 .. sessions
  BY <1>2, Zenon DEF TypeOK, Connected
<1>8. /\ up' \in Seq(Message) /\ Traffic'
      /\ \A K : Requested(up, sid, active.id, K) /\ (m.body.id <= active.id \/ m.body \in K)
                    => Requested(up', sid, active.id, K)
  <2>1. CASE up' = up
    BY <1>1, <1>2, <1>7, <2>1, Zenon DEF Traffic, Offered, Unused
  <2>2. CASE up' = Append(up, m)
    <3>1. up' \in Seq(Message) /\ Traffic'
      BY <1>1, <1>2, <1>5, <1>7, <2>2, TrafficSends, Zenon
    <3> QED BY <1>5, <1>7, <2>2, <3>1, Appended, Zenon
  <2> QED BY <1>1, <2>1, <2>2, Zenon
<1>9. InStep => InStep'
  <2> SUFFICES ASSUME InStep PROVE InStep'
      OBVIOUS
  <2>1. Requested(up, sid, active.id, Outstanding)
    BY Zenon DEF InStep, active
  <2>2. Outstanding' = {client'.next}
    BY <1>3, Zenon DEF Outstanding
  <2>3. Requested(up, sid, active.id, {client'.next})
    <3>1. CASE ~client.pending
      BY <2>1, <3>1, Absent, Zenon DEF Outstanding
    <3>2. CASE client' = client
      BY <1>3, <2>1, <3>2, Zenon DEF Outstanding
    <3> QED BY <1>3, <3>1, <3>2, Zenon
  <2>4. Requested(up', sid, active.id, {client'.next})
    BY <1>5, <1>8, <2>3, Zenon
  <2>5. Requested(up', sid', server'[sid'].active.id, Outstanding')
    BY <1>1, <2>2, <2>4, Zenon DEF active
  <2> QED BY <1>1, <1>3, <2>5, Zenon DEF InStep
<1>10. KeyBehind => KeyBehind'
  <2> SUFFICES ASSUME KeyBehind PROVE KeyBehind'
      OBVIOUS
  <2>1. client' = client /\ client.next = active /\ Requested(up, sid, active.id, {})
    BY <1>3, Zenon DEF KeyBehind, active
  <2>2. m.body.id <= active.id
    BY <1>5, <1>6, <2>1
  <2>3. Requested(up', sid, active.id, {})
    BY <1>8, <2>1, <2>2, Zenon
  <2>4. Requested(up', sid', server'[sid'].active.id, {})
    BY <1>1, <2>3, Zenon DEF active
  <2> QED BY <1>1, <2>1, <2>4, Zenon DEF KeyBehind
<1>11. Connected'
  BY <1>1, <1>2, <1>9, <1>10, Zenon DEF Connected
<1>12. TypeOK'
  BY <1>1, <1>2, <1>3, <1>8, Zenon DEF TypeOK
<1> QED BY <1>1, <1>8, <1>11, <1>12, Zenon DEF Inv, Joined

LEMMA InvClientSendsData == Inv /\ ClientSendsData => Inv'
<1> SUFFICES ASSUME Inv, ClientSendsData PROVE Inv'
    OBVIOUS
<1> DEFINE m == Msg("DATA", sid, client.active, ZeroKey)
<1>1. /\ state = "connected" /\ up' = Append(up, m)
      /\ UNCHANGED <<state, sid, client, server, sessions, fresh, down, path, losses,
                     nullWrite, misled>>
  BY Zenon DEF ClientSendsData
<1>2. m \in Message /\ m.kind = "DATA" /\ m.sid = sid
  BY TypeFacts, MsgType, SMTT(30) DEF Inv
<1> HIDE DEF m
<1>3. up \in Seq(Message) /\ Connected /\ sid \in 1 .. sessions
  BY <1>1, Zenon DEF Inv, TypeOK, Joined, Connected
<1>4. Traffic' /\ up' \in Seq(Message)
  BY <1>1, <1>2, <1>3, TrafficSends, Zenon DEF Inv
<1>5. \A s, d, K : Requested(up, s, d, K) => Requested(up', s, d, K)
  <2>1. m.kind # "REKEY_REQ"
    BY <1>2, Zenon
  <2> QED BY <1>1, <1>2, <1>3, <2>1, Appended, Zenon
<1>6. (InStep => InStep') /\ (KeyBehind => KeyBehind')
  BY <1>1, <1>5, Zenon DEF InStep, KeyBehind, Outstanding
<1>7. Connected'
  BY <1>1, <1>3, <1>6, Zenon DEF Connected
<1>8. TypeOK'
  BY <1>1, <1>4, Zenon DEF Inv, TypeOK
<1> QED BY <1>1, <1>4, <1>7, <1>8, Zenon DEF Inv, Joined

(* A datagram that the client takes without effect on keys or session.     *)
LEMMA TakenQuietly ==
    ASSUME Inv, NEW i \in 1 .. Len(down), down' = RemoveAt(down, i),
           NoMore(up, up', {"DATA", "REKEY_REQ"}),
           UNCHANGED <<sid, client, server, sessions, misled>>,
           state' = "connected" => state = "connected"
    PROVE  Traffic' /\ Joined'
<1>1. NoMore(down, down', {"AUTH_ACK", "REKEY_ACK"})
  BY NoMoreKinds, Zenon DEF Inv, TypeOK
<1>2. Traffic' /\ (Connected => Connected')
  BY <1>1, Settled, Zenon DEF Inv
<1> QED BY <1>2, Zenon DEF Inv, Joined

LEMMA TakesHello ==
    ASSUME Inv, NEW i \in 1 .. Len(down), down' = RemoveAt(down, i),
           ClientHello(down[i]), UNCHANGED <<server, sessions>>
    PROVE  Traffic' /\ Joined' /\ up' \in Seq(Message)
<1> DEFINE m == Plain("AUTH_REQ", sid, ZeroKey)
<1>1. up \in Seq(Message) /\ UNCHANGED <<sid, client, misled>>
  BY Zenon DEF Inv, TypeOK, ClientHello
<1>2. CASE state # "hello"
  <2>1. UNCHANGED <<state, up>>
    BY <1>2, Zenon DEF ClientHello
  <2>2. NoMore(up, up', {"DATA", "REKEY_REQ"})
    BY <1>1, <2>1, NoMoreKinds, Zenon
  <2> QED BY <1>1, <2>1, <2>2, TakenQuietly, Zenon
<1>3. CASE state = "hello"
  <2>1. state' = "auth" /\ up' = Append(up, m)
    BY <1>3, Zenon DEF ClientHello
  <2>2. m \in Message /\ m.kind = "AUTH_REQ"
    BY TypeFacts, MsgType DEF Inv
  <2> HIDE DEF m
  <2>3. m.kind \in {"HELLO", "AUTH_REQ", "DATA"} /\ m.kind \notin {"DATA", "REKEY_REQ"}
        /\ m.kind # "DATA"
    BY <2>2, Zenon
  <2>4. up' \in Seq(Message) /\ NoMore(up, up', {"DATA", "REKEY_REQ"})
    BY <1>1, <2>1, <2>2, <2>3, NoMoreKinds, Appended, Zenon
  <2> QED BY <1>1, <2>1, <2>4, TakenQuietly, Zenon
<1> QED BY <1>2, <1>3, Zenon

(* A new session starts in step, with nothing of it in flight.             *)
LEMMA TakesAuth ==
    ASSUME Inv, NEW i \in 1 .. Len(down), down' = RemoveAt(down, i),
           ClientAuth(down[i]), UNCHANGED <<server, sessions>>
    PROVE  /\ Traffic' /\ Joined' /\ client' \in Context /\ sid' \in 0 .. sessions
           /\ state' \in {"idle", "hello", "auth", "connected"}
<1>1. /\ up \in Seq(Message) /\ down \in Seq(Message) /\ client \in Context
      /\ sid \in 0 .. sessions /\ state \in {"idle", "hello", "auth", "connected"}
      /\ UNCHANGED <<up, misled>> /\ NoMore(up, up', {"DATA", "REKEY_REQ"})
  <2>1. up \in Seq(Message) /\ up' = up
    BY Zenon DEF Inv, TypeOK, ClientAuth
  <2> QED BY <2>1, NoMoreKinds, Zenon DEF Inv, TypeOK, ClientAuth
<1>2. CASE state # "auth"
  <2>1. UNCHANGED <<client, sid, state>>
    BY <1>2, Zenon DEF ClientAuth
  <2> QED BY <1>1, <2>1, TakenQuietly, Zenon
<1>3. CASE state = "auth"
  <2> DEFINE m == down[i]
  <2>1. /\ m.kind = "AUTH_ACK" /\ sid' = m.sid
        /\ client' = [client EXCEPT !.active = m.body, !.pending = FALSE]
        /\ state' = "connected" \/ state' = "auth"
    BY <1>3, Zenon DEF ClientAuth
  <2>2. m \in Message /\ ~None(down, "AUTH_ACK", m.sid)
    BY <1>1, <2>1, Present, Zenon
  <2>3. m.sid \in 1 .. sessions /\ m.body = server[m.sid].active
    <3>1. Within(down, sessions) /\ Announced(down, server)
      BY Zenon DEF Inv, Traffic
    <3>2. m.kind \notin {"HELLO", "AUTH_REQ"}
      BY <2>1, Zenon
    <3> QED BY <2>1, <3>1, <3>2, Zenon DEF Within, Announced
  <2>4. Unused(m.sid)
    BY <2>2, <2>3, Zenon DEF Inv, Traffic, Offered
  <2>5. m.body \in Key
    BY <2>2, Zenon DEF Message
  <2>6. client' \in Context /\ client'.active = m.body /\ ~client'.pending
    <3> HIDE DEF m
    <3> QED BY <1>1, <2>1, <2>5, Zenon DEF Context
  <2>7. sid' \in 1 .. sessions /\ sid' \in 0 .. sessions
    BY <2>1, <2>3
  <2>8. /\ None(down', "AUTH_ACK", m.sid)
        /\ \A k, s : None(down, k, s) => None(down', k, s)
        /\ \A k, s : AtMostOne(down, k, s) => AtMostOne(down', k, s)
        /\ Within(down', sessions) /\ Announced(down', server)
    <3>1. /\ AtMostOne(down, "AUTH_ACK", m.sid) /\ Within(down, sessions)
          /\ Announced(down, server)
      BY <2>4, Zenon DEF Unused, Inv, Traffic
    <3>2. /\ \A k, s : None(down, k, s) => None(down', k, s)
          /\ \A k, s : AtMostOne(down, k, s) => AtMostOne(down', k, s)
          /\ \A k, s : AtMostOne(down, k, s) /\ down[i].kind = k /\ down[i].sid = s
                        => None(down', k, s)
      BY <1>1, Removed, Zenon
    <3>3. Within(down', sessions) /\ Announced(down', server)
      BY <1>1, <3>1, Removed, Zenon
    <3> QED BY <2>1, <3>1, <3>2, <3>3, Zenon
  <2>9. Traffic'
    <3>1. ASSUME NEW s \in 1 .. sessions, Offered(s)' PROVE Unused(s)'
      <4>1. Offered(s) /\ s # m.sid
        BY <2>8, <3>1, Zenon DEF Offered
      <4>2. Unused(s)
        BY <4>1, Zenon DEF Inv, Traffic
      <4> QED BY <1>1, <2>1, <2>8, <4>1, <4>2, Zenon DEF Unused
    <3>2. Within(up', sessions)
      BY <1>1, Zenon DEF Inv, Traffic
    <3> QED BY <2>8, <3>1, <3>2, Zenon DEF Traffic
  <2>10. InStep'
    <3>1. client'.active = server'[sid'].active
      BY <2>1, <2>3, <2>6, Zenon
    <3>2. None(down', "REKEY_ACK", sid')
      BY <2>1, <2>4, <2>8, Zenon DEF Unused
    <3>3. None(up', "REKEY_REQ", sid')
      BY <1>1, <2>1, <2>4, Zenon DEF Unused
    <3>4. Requested(up', sid', server'[sid'].active.id, Outstanding')
      BY <3>3, Absent, Zenon
    <3> QED BY <3>1, <3>2, <3>4, Zenon DEF InStep
  <2>11. Joined'
    BY <1>1, <2>7, <2>10, Zenon DEF Joined, Connected, Inv
  <2> QED BY <2>1, <2>6, <2>7, <2>9, <2>11, Zenon
<1> QED BY <1>2, <1>3, Zenon

(* An acknowledgement of the client's own session finds it a key behind.   *)
LEMMA AckFinds ==
    ASSUME Inv, NEW i \in 1 .. Len(down), down[i].kind = "REKEY_ACK",
           state = "connected", down[i].sid = sid, sid \notin misled
    PROVE  Connected /\ KeyBehind
<1>1. ~None(down, "REKEY_ACK", sid)
  BY Present, Zenon DEF Inv, TypeOK
<1> QED BY <1>1, Zenon DEF Inv, Joined, Connected, InStep

LEMMA AckSid ==
    ASSUME Inv, NEW i \in 1 .. Len(down), down[i].kind = "REKEY_ACK"
    PROVE  down[i].sid \in 1 .. sessions
<1>1. down[i].kind \notin {"HELLO", "AUTH_REQ"}
  BY Zenon
<1> QED BY <1>1, Zenon DEF Inv, Traffic, Within

(* ... and brings it into step; one of another session is recorded.        *)
LEMMA TakesRekeyAck ==
    ASSUME Inv, NEW i \in 1 .. Len(down), down' = RemoveAt(down, i),
           ClientRekeyAck(down[i]), UNCHANGED <<server, sessions>>
    PROVE  Traffic' /\ Joined' /\ client' \in Context /\ misled' \subseteq 1 .. sessions
<1>1. /\ up \in Seq(Message) /\ down \in Seq(Message) /\ client \in Context
      /\ ZeroKey \in Key /\ misled \subseteq 1 .. sessions /\ sid \in 0 .. sessions
      /\ sessions \in Nat
  BY TypeFacts, Zenon DEF Inv, TypeOK
<1>2. /\ down[i].kind = "REKEY_ACK" /\ UNCHANGED <<state, sid, up>>
      /\ client' = vf_rekey_commit(client)
      /\ misled' = IF state = "connected" /\ down[i].sid # sid THEN misled \cup {sid} ELSE misled
  BY Zenon DEF ClientRekeyAck
<1>3. client' \in Context /\ client'.active = client.next
  BY <1>1, <1>2, Zenon DEF vf_rekey_commit, Context
<1>4. down[i].sid \in 1 .. sessions
  BY <1>2, AckSid, Zenon
<1>5. state = "connected" => Connected /\ sid \in 1 .. sessions
  BY Zenon DEF Inv, Joined, Connected
<1>6. misled' \subseteq 1 .. sessions
  BY <1>1, <1>2, <1>5, Zenon
<1>7. sessions <= 1 => misled' = {}
  <2>1. ASSUME sessions <= 1, state = "connected" PROVE down[i].sid = sid
    BY <1>1, <1>4, <1>5, <2>1
  <2> QED BY <1>2, <2>1, Zenon DEF Inv, Joined
<1>8. /\ \A k, s : None(down, k, s) => None(down', k, s)
      /\ \A k, s : AtMostOne(down, k, s) => AtMostOne(down', k, s)
      /\ \A k, s : AtMostOne(down, k, s) /\ down[i].kind = k /\ down[i].sid = s
                    => None(down', k, s)
      /\ Within(down', sessions) /\ Announced(down', server)
  BY <1>1, Removed, Zenon DEF Inv, Traffic
<1>9. Traffic'
  <2>1. ASSUME NEW s \in 1 .. sessions, Offered(s)' PROVE Unused(s)'
    <3>1. Unused(s)
      BY <1>8, <2>1, Zenon DEF Offered, Inv, Traffic
    <3>2. s \notin misled'
      BY <1>2, <3>1, Zenon DEF Unused
    <3> QED BY <1>2, <1>8, <3>1, <3>2, Zenon DEF Unused
  <2>2. Within(up', sessions)
    BY <1>2, Zenon DEF Inv, Traffic
  <2> QED BY <1>8, <2>1, <2>2, Zenon DEF Traffic
<1>10. ASSUME state = "connected" PROVE Connected'
  <2>1. CASE sid \in misled'
    BY <1>2, <1>5, <1>10, <2>1, Zenon DEF Connected
  <2>2. CASE sid \notin misled'
    <3>1. down[i].sid = sid /\ sid \notin misled
      BY <1>2, <1>10, <2>2, Zenon
    <3>2. KeyBehind
      BY <1>2, <1>10, <3>1, AckFinds, Zenon
    <3>3. None(down', "REKEY_ACK", sid)
      BY <1>2, <1>8, <3>1, <3>2, Zenon DEF KeyBehind
    <3>4. /\ client'.active = server'[sid'].active
          /\ Requested(up', sid', server'[sid'].active.id, Outstanding')
      BY <1>2, <1>3, <3>2, Absent, Zenon DEF KeyBehind
    <3>5. InStep'
      BY <1>2, <3>3, <3>4, Zenon DEF InStep
    <3> QED BY <1>2, <1>5, <1>10, <3>5, Zenon DEF Connected
  <2> QED BY <2>1, <2>2, Zenon
<1>11. Joined'
  BY <1>2, <1>7, <1>10, Zenon DEF Joined
<1> QED BY <1>3, <1>6, <1>9, <1>11, Zenon

LEMMA InvClientOnUdp == Inv /\ client_on_udp => Inv'
<1> SUFFICES ASSUME Inv, client_on_udp PROVE Inv'
    OBVIOUS
<1>1. PICK i \in Deliverable(down) :
        /\ \/ ClientHello(down[i]) \/ ClientAuth(down[i])
           \/ ClientRekeyAck(down[i]) \/ ClientData(down[i])
        /\ down' = RemoveAt(down, i)
        /\ UNCHANGED <<server, sessions, fresh, path, losses>>
  BY Zenon DEF client_on_udp
<1>2. i \in 1 .. Len(down) /\ down \in Seq(Message) /\ up \in Seq(Message)
  BY LenProperties, Zenon DEF Deliverable, Inv, TypeOK
<1>3. down' \in Seq(Message)
  BY <1>1, <1>2, Removed, Zenon
<1>4. CASE ClientHello(down[i])
  <2>1. Traffic' /\ Joined' /\ up' \in Seq(Message)
    BY <1>1, <1>2, <1>4, TakesHello, Zenon
  <2>2. /\ UNCHANGED <<sid, client, nullWrite, misled>>
        /\ state' \in {"idle", "hello", "auth", "connected"}
    BY <1>4, Zenon DEF ClientHello, Inv, TypeOK
  <2>3. TypeOK'
    BY <1>1, <1>3, <2>1, <2>2, Zenon DEF Inv, TypeOK
  <2> QED BY <2>1, <2>3, Zenon DEF Inv
<1>5. CASE ClientAuth(down[i])
  <2>1. /\ Traffic' /\ Joined' /\ client' \in Context /\ sid' \in 0 .. sessions
        /\ state' \in {"idle", "hello", "auth", "connected"}
    BY <1>1, <1>2, <1>5, TakesAuth, Zenon
  <2>2. UNCHANGED <<up, nullWrite, misled>>
    BY <1>5, Zenon DEF ClientAuth
  <2>3. TypeOK'
    BY <1>1, <1>3, <2>1, <2>2, Zenon DEF Inv, TypeOK
  <2> QED BY <2>1, <2>3, Zenon DEF Inv
<1>6. CASE ClientRekeyAck(down[i])
  <2>1. Traffic' /\ Joined' /\ client' \in Context /\ misled' \subseteq 1 .. sessions
    BY <1>1, <1>2, <1>6, TakesRekeyAck, Zenon
  <2>2. UNCHANGED <<state, sid, up, nullWrite>>
    BY <1>6, Zenon DEF ClientRekeyAck
  <2>3. TypeOK'
    BY <1>1, <1>3, <2>1, <2>2, Zenon DEF Inv, TypeOK
  <2> QED BY <2>1, <2>3, Zenon DEF Inv
<1>7. CASE ClientData(down[i])
  <2>1. UNCHANGED <<state, sid, client, up, misled>>
    BY <1>7, Zenon DEF ClientData
  <2>2. nullWrite' \in BOOLEAN
    BY <1>7, Zenon DEF ClientData
  <2>3. TypeOK'
    BY <1>1, <1>3, <2>1, <2>2, Zenon DEF Inv, TypeOK
  <2>4. NoMore(up, up', {"DATA", "REKEY_REQ"})
    BY <1>2, <2>1, NoMoreKinds, Zenon
  <2> QED BY <1>1, <1>2, <2>1, <2>3, <2>4, TakenQuietly, Zenon DEF Inv
<1> QED BY <1>1, <1>4, <1>5, <1>6, <1>7, Zenon

-----------------------------------------------------------------------------
\* The server.

LEMMA InvServerSendsData == Inv /\ ServerSendsData => Inv'
<1> SUFFICES ASSUME Inv, ServerSendsData PROVE Inv'
    OBVIOUS
<1>1. PICK s \in 1 .. sessions :
        /\ down' = Append(down, Msg("DATA", s, server[s].active, ZeroKey))
        /\ UNCHANGED <<state, sid, client, server, sessions, fresh, up, path, losses,
                       nullWrite, misled>>
  BY Zenon DEF ServerSendsData
<1> DEFINE m == Msg("DATA", s, server[s].active, ZeroKey)
<1>2. m \in Message /\ m.kind = "DATA" /\ m.sid = s
  <2>1. s \in 0 .. MaxSessions /\ server[s] \in Context /\ ZeroKey \in Key
    BY TypeFacts DEF Inv
  <2>2. server[s].active \in Key
    BY <2>1, Zenon DEF Context
  <2> QED BY <2>1, <2>2, MsgType
<1>3. down' = Append(down, m) /\ up \in Seq(Message) /\ down \in Seq(Message)
  BY <1>1, Zenon DEF Inv, TypeOK
<1> HIDE DEF m
<1>4. /\ m.kind \in {"HELLO", "AUTH_REQ", "DATA"} /\ m.kind \notin {"AUTH_ACK", "REKEY_ACK"}
      /\ m.sid \in 1 .. sessions
  BY <1>2, Zenon
<1>5. /\ down' \in Seq(Message) /\ NoMore(up, up', {"DATA", "REKEY_REQ"})
      /\ NoMore(down, down', {"AUTH_ACK", "REKEY_ACK"})
  <2>1. down' \in Seq(Message) /\ NoMore(up, up', {"DATA", "REKEY_REQ"})
    BY <1>1, <1>2, <1>3, NoMoreKinds, Appended, Zenon
  <2>2. NoMore(down, down', {"AUTH_ACK", "REKEY_ACK"})
    BY <1>2, <1>3, <1>4, NoMoreKinds, Zenon
  <2> QED BY <2>1, <2>2, Zenon
<1>6. Traffic' /\ (Connected => Connected')
  BY <1>1, <1>5, Settled, Zenon DEF Inv
<1>7. TypeOK'
  BY <1>1, <1>5, Zenon DEF Inv, TypeOK
<1> QED BY <1>1, <1>6, <1>7, Zenon DEF Inv, Joined

(* A datagram that the server takes without effect on its sessions.        *)
LEMMA ServedQuietly ==
    ASSUME Inv, NEW i \in 1 .. Len(up), up' = RemoveAt(up, i),
           NoMore(down, down', {"AUTH_ACK", "REKEY_ACK"}),
           UNCHANGED <<state, sid, client, server, sessions, misled>>
    PROVE  Traffic' /\ Joined'
<1>1. NoMore(up, up', {"DATA", "REKEY_REQ"})
  BY NoMoreKinds, Zenon DEF Inv, TypeOK
<1>2. Traffic' /\ (Connected => Connected')
  BY <1>1, Settled, Zenon DEF Inv
<1> QED BY <1>2, Zenon DEF Inv, Joined

LEMMA ServesHello ==
    ASSUME Inv, NEW i \in 1 .. Len(up), up' = RemoveAt(up, i),
           ServerHello(up[i]), UNCHANGED <<state, sid, client, misled>>
    PROVE  Traffic' /\ Joined' /\ down' \in Seq(Message)
<1> DEFINE m == Plain("HELLO", 0, ZeroKey)
<1>1. down' = Append(down, m) /\ UNCHANGED <<server, sessions>> /\ down \in Seq(Message)
  BY Zenon DEF ServerHello, Inv, TypeOK
<1>2. m \in Message /\ m.kind = "HELLO"
  BY TypeFacts, MsgType DEF Inv
<1> HIDE DEF m
<1>3. m.kind \in {"HELLO", "AUTH_REQ", "DATA"} /\ m.kind \notin {"AUTH_ACK", "REKEY_ACK"}
      /\ m.kind # "DATA"
  BY <1>2, Zenon
<1>4. down' \in Seq(Message) /\ NoMore(down, down', {"AUTH_ACK", "REKEY_ACK"})
  BY <1>1, <1>2, <1>3, NoMoreKinds, Appended, Zenon
<1> QED BY <1>1, <1>4, ServedQuietly, Zenon

(* The AUTH_ACK announces the session that was just made, of which nothing *)
(* else can be in flight.                                                  *)
LEMMA ServesAuth ==
    ASSUME Inv, NEW i \in 1 .. Len(up), up' = RemoveAt(up, i),
           ServerAuth(up[i]), UNCHANGED <<state, sid, client, misled>>
    PROVE  /\ Traffic' /\ Joined' /\ down' \in Seq(Message)
           /\ server' \in [1 .. MaxSessions -> Context]
           /\ sessions' \in 0 .. MaxSessions /\ sid' \in 0 .. sessions'
           /\ fresh' \in 1 .. MaxFresh /\ misled' \subseteq 1 .. sessions'
<1>1. /\ up \in Seq(Message) /\ down \in Seq(Message)
      /\ server \in [1 .. MaxSessions -> Context]
      /\ sessions \in 0 .. MaxSessions /\ sid \in 0 .. sessions /\ misled \subseteq 1 .. sessions
      /\ fresh \in 1 .. MaxFresh /\ MaxSessions \in Nat /\ MaxFresh \in Nat
  BY TypeFacts, Zenon DEF Inv, TypeOK
<1>2. CASE UNCHANGED <<server, sessions, fresh, down>>
  <2>1. NoMore(down, down', {"AUTH_ACK", "REKEY_ACK"})
    BY <1>1, <1>2, NoMoreKinds, Zenon
  <2> QED BY <1>1, <1>2, <2>1, ServedQuietly, Zenon
<1>3. CASE /\ sessions < MaxSessions /\ fresh < MaxFresh
           /\ sessions' = sessions + 1 /\ fresh' = fresh + 1
           /\ server' = [server EXCEPT ![sessions + 1] = ContextWith(NewKey(1))]
           /\ down' = Append(down, Plain("AUTH_ACK", sessions + 1, NewKey(1)))
  <2> DEFINE s == sessions + 1
             key == NewKey(1)
             m == Plain("AUTH_ACK", s, key)
  <2>1. key \in Key
    BY NewKeyType, Zenon DEF Inv
  <2>2. /\ s \in 1 .. MaxSessions /\ s \in 0 .. MaxSessions /\ s \notin 1 .. sessions
        /\ s # sid /\ s \in 1 .. sessions' /\ 1 .. sessions \subseteq 1 .. sessions'
        /\ \A t \in 1 .. sessions' : t \in 1 .. sessions \/ t = s
        /\ \A t \in 1 .. sessions : t # s /\ t \in 1 .. MaxSessions
    BY <1>1, <1>3
  <2>3. m \in Message /\ m.kind = "AUTH_ACK" /\ m.sid = s /\ m.body = key
    BY <2>1, <2>2, MsgType
  <2>4. ContextWith(key) \in Context /\ ContextWith(key).active = key
    BY <2>1, ZeroKeyType, Zenon DEF ContextWith, Context
  <2>5. sessions' = s /\ down' = Append(down, m)
        /\ server' = [server EXCEPT ![s] = ContextWith(key)]
    BY <1>3, Zenon
  <2> HIDE DEF s, key, m
  <2>6. /\ server' \in [1 .. MaxSessions -> Context] /\ server'[s].active = key
        /\ \A t \in 1 .. sessions : server'[t] = server[t]
    BY <1>1, <2>2, <2>4, <2>5, Zenon
  <2>7. /\ Within(up, sessions) /\ Within(down, sessions) /\ Announced(down, server)
        /\ \A t \in 1 .. sessions : Offered(t) => Unused(t)
    BY Zenon DEF Inv, Traffic
  <2>8. Within(up, sessions') /\ Within(down, sessions')
    BY <2>2, <2>7, Zenon DEF Within
  <2>9. Announced(down, server')
    <3>1. ASSUME NEW j \in 1 .. Len(down), down[j].kind = "AUTH_ACK"
          PROVE  down[j].body = server'[down[j].sid].active
      <4>1. down[j].kind \notin {"HELLO", "AUTH_REQ"}
        BY <3>1, Zenon
      <4>2. down[j].sid \in 1 .. sessions
        BY <2>7, <4>1, Zenon DEF Within
      <4> QED BY <2>6, <2>7, <3>1, <4>2, Zenon DEF Announced
    <3> QED BY <3>1, Zenon DEF Announced
  <2>10. /\ \A k, t : None(up, k, t) => None(up', k, t)
         /\ Within(up', sessions')
    BY <1>1, <2>8, Removed, Zenon
  <2>11. /\ down' \in Seq(Message) /\ Within(down', sessions') /\ Announced(down', server')
         /\ \A k, t : None(down, k, t) /\ ~(m.kind = k /\ m.sid = t) => None(down', k, t)
         /\ \A k, t : None(down, k, t) => AtMostOne(down', k, t)
         /\ \A k, t : AtMostOne(down, k, t) /\ ~(m.kind = k /\ m.sid = t)
                        => AtMostOne(down', k, t)
    <3>1. /\ down' \in Seq(Message)
          /\ \A k, t : None(down, k, t) /\ ~(m.kind = k /\ m.sid = t) => None(down', k, t)
          /\ \A k, t : None(down, k, t) => AtMostOne(down', k, t)
          /\ \A k, t : AtMostOne(down, k, t) /\ ~(m.kind = k /\ m.sid = t)
                        => AtMostOne(down', k, t)
      BY <1>1, <2>3, <2>5, Appended, Zenon
    <3>2. Within(down', sessions')
      BY <1>1, <2>2, <2>3, <2>5, <2>8, Appended, Zenon
    <3>3. Announced(down', server')
      BY <1>1, <2>3, <2>5, <2>6, <2>9, Appended, Zenon
    <3> QED BY <3>1, <3>2, <3>3, Zenon
  <2>12. ASSUME NEW t \in 1 .. sessions', Offered(t)' PROVE Unused(t)'
    <3>1. CASE t = s
      <4>1. /\ None(up, "REKEY_REQ", s) /\ None(up, "DATA", s)
            /\ None(down, "REKEY_ACK", s) /\ None(down, "AUTH_ACK", s)
        BY <2>2, <2>7, Absent, Zenon
      <4>2. /\ None(up', "REKEY_REQ", s) /\ None(up', "DATA", s)
            /\ None(down', "REKEY_ACK", s) /\ AtMostOne(down', "AUTH_ACK", s)
        BY <2>3, <2>10, <2>11, <4>1, Zenon
      <4>3. s \notin misled
        BY <1>1, <2>2, Zenon
      <4> QED BY <2>2, <3>1, <4>2, <4>3, Zenon DEF Unused
    <3>2. CASE t \in 1 .. sessions
      <4>1. t # s
        BY <2>2, <3>2, Zenon
      <4>2. Unused(t)
        BY <2>3, <2>7, <2>11, <2>12, <3>2, <4>1, Zenon DEF Offered
      <4> QED BY <2>3, <2>10, <2>11, <4>1, <4>2, Zenon DEF Unused
    <3> QED BY <2>2, <3>1, <3>2, Zenon
  <2>13. Traffic'
    BY <2>10, <2>11, <2>12, Zenon DEF Traffic
  <2>14. ASSUME state = "connected" PROVE Connected'
    <3>1. sid \in 1 .. sessions /\ Connected
      BY <2>14, Zenon DEF Inv, Joined, Connected
    <3>2. sid \in 1 .. sessions' /\ server'[sid] = server[sid]
      BY <2>2, <2>6, <3>1, Zenon
    <3>3. \A t, d, K : Requested(up, t, d, K) => Requested(up', t, d, K)
      BY <1>1, Removed, Zenon
    <3>4. InStep => InStep'
      BY <2>3, <2>11, <3>2, <3>3, Zenon DEF InStep, Outstanding
    <3>5. KeyBehind => KeyBehind'
      BY <2>3, <2>11, <3>2, <3>3, Zenon DEF KeyBehind
    <3> QED BY <3>1, <3>2, <3>4, <3>5, Zenon DEF Connected
  <2>15. sessions' \in 0 .. MaxSessions /\ sid' \in 0 .. sessions' /\ fresh' \in 1 .. MaxFresh
    BY <1>1, <1>3
  <2>16. sessions' <= 1 => misled' = {}
    <3>1. sessions' <= 1 => sessions <= 1
      BY <1>1, <1>3
    <3> QED BY <3>1, Zenon DEF Inv, Joined
  <2>17. misled' \subseteq 1 .. sessions'
    BY <1>1, <2>2, Zenon
  <2> QED BY <2>6, <2>11, <2>13, <2>14, <2>15, <2>16, <2>17, Zenon DEF Joined
<1> QED BY <1>2, <1>3, Zenon DEF ServerAuth

(* A request that is taken in the client's own session carries the next    *)
(* key of a client in step.                                                *)
LEMMA RequestSid ==
    ASSUME Inv, NEW i \in 1 .. Len(up), up[i].kind \in {"DATA", "REKEY_REQ"}
    PROVE  up[i].sid \in 1 .. sessions /\ up[i] \in Message
<1>1. up[i].kind \notin {"HELLO", "AUTH_REQ"}
  BY Zenon
<1>2. up[i].sid \in 1 .. sessions
  BY <1>1, Zenon DEF Inv, Traffic, Within
<1> QED BY <1>2, Present, Zenon DEF Inv, TypeOK

LEMMA RequestTaken ==
    ASSUME Inv, NEW i \in 1 .. Len(up), up[i].kind = "REKEY_REQ",
           up[i].body.id > server[up[i].sid].active.id,
           state = "connected", up[i].sid = sid, sid \notin misled
    PROVE  InStep /\ client.pending /\ up[i].body = client.next
<1> DEFINE m == up[i]
<1>1. m \in Message /\ sid \in 1 .. sessions
  BY RequestSid, Zenon
<1>2. Connected
  BY Zenon DEF Inv, Joined
<1>3. m.body.id \in Nat /\ server[sid].active.id \in Nat
  BY <1>1, TypeFacts, Zenon DEF Inv, Message, Context, Key
<1>4. ~(m.body.id <= server[sid].active.id)
  BY <1>3, SMTT(30)
<1>5. ~KeyBehind
  BY <1>4, Zenon DEF KeyBehind, Requested
<1>6. InStep
  BY <1>2, <1>5, Zenon DEF Connected
<1>7. m.body \in Outstanding
  BY <1>4, <1>6, Zenon DEF InStep, Requested
<1>8. client.pending /\ m.body = client.next
  BY <1>7, Zenon DEF Outstanding
<1> QED BY <1>6, <1>8, Zenon

(* The server moves one key ahead in the session of the request; if that   *)
(* is the client's, every other request in flight is now old.              *)
LEMMA ServesRekeyReq ==
    ASSUME Inv, NEW i \in 1 .. Len(up), up' = RemoveAt(up, i),
           ServerRekeyReq(up[i]), UNCHANGED <<state, sid, client, misled>>
    PROVE  /\ Traffic' /\ Joined' /\ down' \in Seq(Message)
           /\ server' \in [1 .. MaxSessions -> Context]
<1> DEFINE m == up[i]
           s == m.sid
           ctx == server[s]
<1>1. /\ m.kind = "REKEY_REQ" /\ up \in Seq(Message) /\ down \in Seq(Message)
      /\ server \in [1 .. MaxSessions -> Context] /\ UNCHANGED <<sessions, fresh>>
  BY Zenon DEF ServerRekeyReq, Inv, TypeOK
<1>2. m \in Message /\ s \in 1 .. sessions /\ s \in 1 .. MaxSessions /\ ctx \in Context
  <2>1. m.kind \in {"DATA", "REKEY_REQ"}
    BY <1>1, Zenon
  <2> QED BY <2>1, RequestSid, TypeFacts, Zenon DEF Inv
<1>3. CASE UNCHANGED <<server, down>>
  <2>1. NoMore(down, down', {"AUTH_ACK", "REKEY_ACK"})
    BY <1>1, <1>3, NoMoreKinds, Zenon
  <2> QED BY <1>1, <1>3, <2>1, ServedQuietly, Zenon
<1>4. CASE /\ m.body.id > ctx.active.id
           /\ server' = [server EXCEPT ![s] = vf_rekey_commit([ctx EXCEPT !.next = m.body])]
           /\ down' = Append(down, Msg("REKEY_ACK", s, ctx.active, ZeroKey))
  <2> DEFINE new == vf_rekey_commit([ctx EXCEPT !.next = m.body])
             ack == Msg("REKEY_ACK", s, ctx.active, ZeroKey)
  <2>1. m.body \in Key /\ m.body.id \in Nat
    BY <1>2, Zenon DEF Message, Key
  <2>2. ctx.active \in Key /\ ctx.active.id \in Nat /\ ZeroKey \in Key
    BY <1>2, ZeroKeyType, Zenon DEF Context, Key
  <2>3. new \in Context /\ new.active = m.body /\ new.previous = ctx.active
    BY <1>2, <2>1, <2>2, Zenon DEF vf_rekey_commit, Context
  <2>4. ack \in Message /\ ack.kind = "REKEY_ACK" /\ ack.sid = s
    <3>1. m.sid \in 0 .. MaxSessions
      BY <1>2, Zenon DEF Message
    <3> QED BY <2>2, <3>1, MsgType, SMTT(30)
  <2>5. down' = Append(down, ack) /\ server' = [server EXCEPT ![s] = new]
    BY <1>4, Zenon
  <2>6. ctx = server[s] /\ m.body.id > ctx.active.id
    BY <1>4, Zenon
  <2>7. ~None(up, "REKEY_REQ", s)
    BY <1>1, Present, Zenon
  <2> HIDE DEF new, ack, ctx
  <2>8. /\ server' \in [1 .. MaxSessions -> Context] /\ server'[s] = new
        /\ \A t \in 1 .. MaxSessions : t # s => server'[t] = server[t]
    BY <1>1, <1>2, <2>3, <2>5, Zenon
  <2>9. /\ Within(up, sessions) /\ Within(down, sessions) /\ Announced(down, server)
        /\ \A t \in 1 .. sessions : Offered(t) => Unused(t)
    BY Zenon DEF Inv, Traffic
  <2>10. ~Offered(s)
    BY <1>2, <2>7, <2>9, Zenon DEF Unused
  <2>11. Announced(down, server')
    <3>1. ASSUME NEW j \in 1 .. Len(down), down[j].kind = "AUTH_ACK"
          PROVE  down[j].body = server'[down[j].sid].active
      <4>1. down[j].kind \notin {"HELLO", "AUTH_REQ"} /\ down[j].sid # s
        BY <2>10, <3>1, Zenon DEF Offered, None
      <4>2. down[j].sid \in 1 .. sessions
        BY <2>9, <4>1, Zenon DEF Within
      <4>3. down[j].sid \in 1 .. MaxSessions
        BY <4>2, TypeFacts, Zenon DEF Inv
      <4> QED BY <2>8, <2>9, <3>1, <4>1, <4>3, Zenon DEF Announced
    <3> QED BY <3>1, Zenon DEF Announced
  <2>12. /\ \A k, t : None(up, k, t) => None(up', k, t)
         /\ \A t, d, K : Requested(up, t, d, K) => Requested(up', t, d, K)
         /\ Within(up', sessions)
    BY <1>1, <2>9, Removed, Zenon
  <2>13. /\ down' \in Seq(Message) /\ Within(down', sessions) /\ Announced(down', server')
         /\ \A k, t : None(down, k, t) /\ ~(ack.kind = k /\ ack.sid = t) => None(down', k, t)
         /\ \A k, t : None(down, k, t) => AtMostOne(down', k, t)
         /\ \A k, t : AtMostOne(down, k, t) /\ ~(ack.kind = k /\ ack.sid = t)
                        => AtMostOne(down', k, t)
    <3>1. /\ down' \in Seq(Message)
          /\ \A k, t : None(down, k, t) /\ ~(ack.kind = k /\ ack.sid = t) => None(down', k, t)
          /\ \A k, t : None(down, k, t) => AtMostOne(down', k, t)
          /\ \A k, t : AtMostOne(down, k, t) /\ ~(ack.kind = k /\ ack.sid = t)
                        => AtMostOne(down', k, t)
      BY <1>1, <2>4, <2>5, Appended, Zenon
    <3>2. Within(down', sessions)
      BY <1>1, <1>2, <2>4, <2>5, <2>9, Appended, Zenon
    <3>3. ack.kind # "AUTH_ACK"
      BY <2>4, Zenon
    <3>4. \A c : Announced(down, c) /\ (ack.kind = "AUTH_ACK" => ack.body = c[ack.sid].active)
                    => Announced(down', c)
      BY <1>1, <2>4, <2>5, Appended, Zenon
    <3>5. Announced(down', server')
      BY <2>11, <3>3, <3>4, Zenon
    <3> QED BY <3>1, <3>2, <3>5, Zenon
  <2>14. ASSUME NEW t \in 1 .. sessions, Offered(t)' PROVE Unused(t)'
    <3>1. ack.kind # "AUTH_ACK"
      BY <2>4, Zenon
    <3>2. Offered(t)
      BY <2>13, <2>14, <3>1, Zenon DEF Offered
    <3>3. Unused(t) /\ t # s
      BY <2>9, <2>10, <3>2, Zenon
    <3> QED BY <2>4, <2>12, <2>13, <3>1, <3>3, Zenon DEF Unused
  <2>15. Traffic'
    BY <1>1, <2>12, <2>13, <2>14, Zenon DEF Traffic
  <2>16. ASSUME state = "connected", sid \notin misled PROVE InStep' \/ KeyBehind'
    <3>0. InStep \/ KeyBehind
      BY <2>16, Zenon DEF Inv, Joined, Connected
    <3>1. CASE s # sid
      <4>1. sid \in 1 .. MaxSessions
        <5>1. sid \in 1 .. sessions
          BY <2>16, Zenon DEF Inv, Joined, Connected
        <5> QED BY <5>1, TypeFacts, Zenon DEF Inv
      <4>2. server'[sid] = server[sid] /\ ~(ack.kind = "REKEY_ACK" /\ ack.sid = sid)
        BY <2>4, <2>8, <3>1, <4>1, Zenon
      <4>3. InStep => InStep'
        BY <2>12, <2>13, <4>2, Zenon DEF InStep, Outstanding
      <4>4. KeyBehind => KeyBehind'
        BY <2>12, <2>13, <4>2, Zenon DEF KeyBehind
      <4> QED BY <3>0, <4>3, <4>4, Zenon
    <3>2. CASE s = sid
      <4>1. InStep /\ client.pending /\ m.body = client.next
        BY <1>1, <2>6, <2>16, <3>2, RequestTaken, Zenon
      <4>2. Requested(up, s, m.body.id, {})
        <5> SUFFICES ASSUME NEW j \in 1 .. Len(up), up[j].kind = "REKEY_REQ", up[j].sid = s
                     PROVE  up[j].body.id <= m.body.id
            BY Zenon DEF Requested
        <5>1. up[j].body.id <= ctx.active.id \/ up[j].body \in Outstanding
          BY <2>6, <3>2, <4>1, Zenon DEF InStep, Requested
        <5>2. up[j].body.id \in Nat
          <6>1. up[j] \in Message
            BY <1>1, ElementOfSeq, Zenon
          <6> QED BY <6>1, Zenon DEF Message, Key
        <5>3. up[j].body \in Outstanding => up[j].body = m.body
          BY <4>1, Zenon DEF Outstanding
        <5> HIDE DEF m
        <5> QED BY <2>1, <2>2, <2>6, <5>1, <5>2, <5>3, SMTT(30)
      <4>3. Requested(up', s, m.body.id, {})
        BY <2>12, <4>2, Zenon
      <4>4. AtMostOne(down', "REKEY_ACK", s)
        BY <2>13, <3>2, <4>1, Zenon DEF InStep
      <4>5. KeyBehind'
        BY <2>3, <2>6, <2>8, <3>2, <4>1, <4>3, <4>4, ZenonT(30) DEF KeyBehind, InStep
      <4> QED BY <4>5, Zenon
    <3> QED BY <3>1, <3>2, Zenon
  <2>17. Joined'
    BY <1>1, <2>16, Zenon DEF Inv, Joined, Connected
  <2> QED BY <2>8, <2>13, <2>15, <2>17, Zenon
<1> QED BY <1>1, <1>3, <1>4, Zenon DEF ServerRekeyReq

LEMMA InvServerOnUdp == Inv /\ server_on_udp => Inv'
<1> SUFFICES ASSUME Inv, server_on_udp PROVE Inv'
    OBVIOUS
<1>1. PICK i \in Deliverable(up) :
        /\ \/ ServerHello(up[i]) \/ ServerAuth(up[i])
           \/ ServerRekeyReq(up[i]) \/ ServerData(up[i])
        /\ up' = RemoveAt(up, i)
        /\ UNCHANGED <<state, sid, client, path, losses, nullWrite, misled>>
  BY Zenon DEF server_on_udp
<1>2. i \in 1 .. Len(up) /\ up \in Seq(Message) /\ down \in Seq(Message)
  BY LenProperties, Zenon DEF Deliverable, Inv, TypeOK
<1>3. up' \in Seq(Message)
  BY <1>1, <1>2, Removed, Zenon
<1>4. CASE ServerHello(up[i])
  <2>1. Traffic' /\ Joined' /\ down' \in Seq(Message)
    BY <1>1, <1>2, <1>4, ServesHello, Zenon
  <2>2. UNCHANGED <<server, sessions, fresh>>
    BY <1>4, Zenon DEF ServerHello
  <2>3. TypeOK'
    BY <1>1, <1>3, <2>1, <2>2, Zenon DEF Inv, TypeOK
  <2> QED BY <2>1, <2>3, Zenon DEF Inv
<1>5. CASE ServerAuth(up[i])
  <2>1. /\ Traffic' /\ Joined' /\ down' \in Seq(Message)
        /\ server' \in [1 .. MaxSessions -> Context]
        /\ sessions' \in 0 .. MaxSessions /\ sid' \in 0 .. sessions'
        /\ fresh' \in 1 .. MaxFresh /\ misled' \subseteq 1 .. sessions'
    BY <1>1, <1>2, <1>5, ServesAuth, Zenon
  <2>2. TypeOK'
    BY <1>1, <1>3, <2>1, Zenon DEF Inv, TypeOK
  <2> QED BY <2>1, <2>2, Zenon DEF Inv
<1>6. CASE ServerRekeyReq(up[i])
  <2>1. Traffic' /\ Joined' /\ down' \in Seq(Message)
        /\ server' \in [1 .. MaxSessions -> Context]
    BY <1>1, <1>2, <1>6, ServesRekeyReq, Zenon
  <2>2. UNCHANGED <<sessions, fresh>>
    BY <1>6, Zenon DEF ServerRekeyReq
  <2>3. TypeOK'
    BY <1>1, <1>3, <2>1, <2>2, Zenon DEF Inv, TypeOK
  <2> QED BY <2>1, <2>3, Zenon DEF Inv
<1>7. CASE ServerData(up[i])
  <2>1. UNCHANGED <<server, sessions, fresh, down>>
    BY <1>7, Zenon DEF ServerData
  <2>2. TypeOK'
    BY <1>1, <1>3, <2>1, Zenon DEF Inv, TypeOK
  <2>3. NoMore(down, down', {"AUTH_ACK", "REKEY_ACK"})
    BY <1>2, <2>1, NoMoreKinds, Zenon
  <2> QED BY <1>1, <1>2, <2>1, <2>2, <2>3, ServedQuietly, Zenon DEF Inv
<1> QED BY <1>1, <1>4, <1>5, <1>6, <1>7, Zenon

-----------------------------------------------------------------------------
LEMMA InvStep == Inv /\ [Next]_vars => Inv'
<1>1. ASSUME Inv, UNCHANGED vars PROVE Inv'
  <2>1. TypeOK'
    BY <1>1, Zenon DEF vars, Inv, TypeOK
  <2>2. Traffic'
    BY <1>1, Zenon DEF vars, Inv, Traffic, Offered, Unused
  <2>3. Joined'
    BY <1>1, Zenon DEF vars, Inv, Joined, Connected, InStep, KeyBehind, Outstanding
  <2> QED BY <2>1, <2>2, <2>3, Zenon DEF Inv
<1> QED BY <1>1, InvSendHello, InvTimeout, InvRekeyTimer, InvClientSendsData,
           InvClientOnUdp, InvServerSendsData, InvServerOnUdp, InvLose, Zenon DEF Next

(***************************************************************************)
(* Whatever is lost, delayed or reordered of requests, acknowledgements    *)
(* and data, and whenever the client of vfast_client.c reconnects, with    *)
(* datagrams of all its former sessions still in flight: a connected       *)
(* client encrypts with a key that its session on the server still holds,  *)
(* as the active or as the grace key, unless it took a REKEY_ACK of        *)
(* another session in this one.                                            *)
(***************************************************************************)
THEOREM KeysAgree == Spec => []KeyAgreement
<1>1. Inv => KeyAgreement
  BY Zenon DEF Inv, Joined, Connected, InStep, KeyBehind, KeyAgreement, KeyHeld
<1>2. Init => Inv
  BY InvInit, Zenon
<1>3. Inv /\ [Next]_vars => Inv'
  BY InvStep, Zenon
<1>4. Spec => []Inv
  BY <1>2, <1>3, PTL DEF Spec
<1>5. []Inv => []KeyAgreement
  BY <1>1, PTL
<1> QED BY <1>4, <1>5, Zenon

-----------------------------------------------------------------------------
(***************************************************************************)
(* Decryption.  On a path that keeps order the id of a key is one more     *)
(* than that of the key before, so the wire tells the two keys of a        *)
(* session apart, and what the client sends in a session is sealed with    *)
(* the grace key first and with the active key after it.  What the server  *)
(* sends in the first session turns from the client's key to the next      *)
(* behind the REKEY_ACK that makes the client turn, too, provided it is    *)
(* not lost.                                                               *)
(***************************************************************************)
NextId == client.pending => client.next.id = client.active.id + 1
Numbered(ctx) ==
    /\ ctx.active.id >= 1
    /\ ctx.previous.id # 0 => ctx.active.id = ctx.previous.id + 1

\* The datagrams of session s are sealed with old first, then with new.
Of(m, s) == m.sid = s /\ m.kind \in {"DATA", "REKEY_REQ"}
AllBy(q, s, key) == \A i \in 1 .. Len(q) : Of(q[i], s) => q[i].key = key
InOrder(q, s, old, new) ==
    /\ \A i \in 1 .. Len(q) : Of(q[i], s) => q[i].key.id >= 1 /\ q[i].key \in {old, new}
    /\ \A i, j \in 1 .. Len(q) :
        i < j /\ Of(q[i], s) /\ Of(q[j], s) /\ q[i].key = new => q[j].key = new
AsksForNext(q, s) ==
    \A i \in 1 .. Len(q) :
        Of(q[i], s) /\ q[i].kind = "REKEY_REQ" => q[i].body.id = q[i].key.id + 1
Sealed(q, s, ctx) == AsksForNext(q, s) /\ InOrder(q, s, ctx.previous, ctx.active)
Sessions == (1 .. sessions) \ misled
Uplink ==
    ~path.reorder =>
        /\ \A s \in Sessions : Numbered(server[s]) /\ Sealed(up, s, server[s])
        /\ state = "connected" /\ sid \notin misled =>
            /\ client.active.id >= 1
            /\ client.active # server[sid].active => AllBy(up, sid, client.active)

DataBy(q, key) == \A i \in 1 .. Len(q) : q[i].kind = "DATA" => q[i].key = key
Turns(q, old, new) ==
    \E a \in 1 .. Len(q) :
        /\ q[a].kind = "REKEY_ACK"
        /\ \A i \in 1 .. Len(q) : q[i].kind = "DATA" => q[i].key = IF i < a THEN old ELSE new
DownSealed(q, ctx, key) ==
    IF key = ctx.active THEN DataBy(q, key) ELSE Turns(q, key, ctx.active)
Downlink ==
    Reliable /\ sessions <= 1 =>
        /\ ~nullWrite
        /\ sessions = 1 /\ Offered(1) => DataBy(down, server[1].active)
        /\ state = "connected" => DownSealed(down, server[sid], client.active)

Sealing == NextId /\ Uplink /\ Downlink

-----------------------------------------------------------------------------
\* What is sealed by which key, as datagrams leave and enter the queues.

\* f says where the datagrams of r stood in q, which has one more, the i-th.
Places(f, r, q, i) ==
    /\ \A j \in 1 .. Len(r) : r[j] = q[f[j]] /\ f[j] # i
    /\ \A j, l \in 1 .. Len(r) : j < l => f[j] < f[l]
    /\ \A a \in 1 .. Len(q) : a # i => \E j \in 1 .. Len(r) : f[j] = a

(* Taking a datagram out of a queue keeps the order of the others.         *)
LEMMA Kept ==
    ASSUME NEW q \in Seq(Message), NEW i \in 1 .. Len(q), NEW r, r = RemoveAt(q, i)
    PROVE  \E f \in [1 .. Len(r) -> 1 .. Len(q)] : Places(f, r, q, i)
<1>0. Len(q) \in Nat
  BY LenProperties, Zenon
<1>1. /\ r \in Seq(Message) /\ Len(r) = Len(q) - 1 /\ Len(q) \in Nat
      /\ \A j \in 1 .. Len(r) : r[j] = IF j < i THEN q[j] ELSE q[j + 1]
  <2>1. /\ RemoveAt(q, i) \in Seq(Message) /\ Len(RemoveAt(q, i)) = Len(q) - 1
        /\ \A j \in 1 .. Len(q) - 1 :
             RemoveAt(q, i)[j] = IF j < i THEN q[j] ELSE q[j + 1]
    BY RemoveAtElements, Zenon
  <2> QED BY <1>0, <2>1, Zenon
<1> DEFINE f == [j \in 1 .. Len(r) |-> IF j < i THEN j ELSE j + 1]
<1>2. \A j \in 1 .. Len(r) : f[j] = IF j < i THEN j ELSE j + 1
  OBVIOUS
<1>3. f \in [1 .. Len(r) -> 1 .. Len(q)]
  BY <1>1
<1> HIDE DEF f
<1>4. \A j \in 1 .. Len(r) : r[j] = q[f[j]] /\ f[j] # i
  BY <1>1, <1>2
<1>5. \A j, l \in 1 .. Len(r) : j < l => f[j] < f[l]
  BY <1>1, <1>2
<1>6. ASSUME NEW a \in 1 .. Len(q), a # i PROVE \E j \in 1 .. Len(r) : f[j] = a
  <2>1. CASE a < i
    BY <1>1, <1>2, <2>1
  <2>2. CASE ~(a < i)
    <3>1. a - 1 \in 1 .. Len(r) /\ ~(a - 1 < i)
      BY <1>1, <1>6, <2>2
    <3>2. f[a - 1] = a
      BY <1>1, <1>2, <3>1, SMTT(30)
    <3> QED BY <3>1, <3>2, Zenon
  <2> QED BY <2>1, <2>2, Zenon
<1>7. Places(f, r, q, i)
  BY <1>4, <1>5, <1>6, Zenon DEF Places
<1> QED BY <1>3, <1>7, Zenon

LEMMA UpRemoved ==
    ASSUME NEW q \in Seq(Message), NEW i \in 1 .. Len(q), NEW r, r = RemoveAt(q, i)
    PROVE  /\ \A s, ctx : Sealed(q, s, ctx) => Sealed(r, s, ctx)
           /\ \A s, key : AllBy(q, s, key) => AllBy(r, s, key)
<1>0. PICK f \in [1 .. Len(r) -> 1 .. Len(q)] : Places(f, r, q, i)
  BY Kept, Zenon
<1>1. /\ \A j \in 1 .. Len(r) : f[j] \in 1 .. Len(q) /\ r[j] = q[f[j]]
      /\ \A j, l \in 1 .. Len(r) : j < l => f[j] < f[l]
  BY <1>0, Zenon DEF Places
<1>2. ASSUME NEW s, NEW ctx, Sealed(q, s, ctx) PROVE Sealed(r, s, ctx)
  <2>1. AsksForNext(r, s)
    <3> SUFFICES ASSUME NEW j \in 1 .. Len(r), Of(r[j], s), r[j].kind = "REKEY_REQ"
                 PROVE  r[j].body.id = r[j].key.id + 1
        BY Zenon DEF AsksForNext
    <3> QED BY <1>1, <1>2, Zenon DEF Sealed, AsksForNext
  <2>2. ASSUME NEW j \in 1 .. Len(r), Of(r[j], s)
        PROVE  r[j].key.id >= 1 /\ r[j].key \in {ctx.previous, ctx.active}
    BY <1>1, <1>2, <2>2, Zenon DEF Sealed, InOrder
  <2>3. ASSUME NEW j \in 1 .. Len(r), NEW l \in 1 .. Len(r), j < l, Of(r[j], s), Of(r[l], s),
               r[j].key = ctx.active
        PROVE  r[l].key = ctx.active
    <3>1. f[j] \in 1 .. Len(q) /\ f[l] \in 1 .. Len(q) /\ f[j] < f[l]
      BY <1>1, <2>3, Zenon
    <3>2. r[j] = q[f[j]] /\ r[l] = q[f[l]]
      BY <1>1, Zenon
    <3> QED BY <1>2, <2>3, <3>1, <3>2, Zenon DEF Sealed, InOrder
  <2> QED BY <2>1, <2>2, <2>3, Zenon DEF Sealed, InOrder
<1>3. ASSUME NEW s, NEW key, AllBy(q, s, key) PROVE AllBy(r, s, key)
  <2> SUFFICES ASSUME NEW j \in 1 .. Len(r), Of(r[j], s) PROVE r[j].key = key
      BY Zenon DEF AllBy
  <2> QED BY <1>1, <1>3, Zenon DEF AllBy
<1> QED BY <1>2, <1>3, Zenon

(* A datagram of another session does not matter.                          *)
LEMMA UpForeign ==
    ASSUME NEW q \in Seq(Message), NEW m \in Message, NEW r, r = Append(q, m)
    PROVE  /\ \A s, ctx : ~Of(m, s) /\ Sealed(q, s, ctx) => Sealed(r, s, ctx)
           /\ \A s, key : ~Of(m, s) /\ AllBy(q, s, key) => AllBy(r, s, key)
<1>1. /\ Len(r) = Len(q) + 1 /\ Len(q) \in Nat /\ r[Len(r)] = m
      /\ \A j \in 1 .. Len(r) : j # Len(r) => j \in 1 .. Len(q) /\ r[j] = q[j]
  BY SMTT(30)
<1>2. \A s : \A j \in 1 .. Len(r) : ~Of(m, s) /\ Of(r[j], s) => j \in 1 .. Len(q) /\ r[j] = q[j]
  BY <1>1, Zenon
<1>3. ASSUME NEW s, NEW ctx, ~Of(m, s), Sealed(q, s, ctx) PROVE Sealed(r, s, ctx)
  <2>1. AsksForNext(r, s)
    BY <1>2, <1>3, Zenon DEF Sealed, AsksForNext
  <2>2. InOrder(r, s, ctx.previous, ctx.active)
    <3>1. \A j \in 1 .. Len(r) : Of(r[j], s) =>
            r[j].key.id >= 1 /\ r[j].key \in {ctx.previous, ctx.active}
      BY <1>2, <1>3, Zenon DEF Sealed, InOrder
    <3>2. ASSUME NEW j \in 1 .. Len(r), NEW l \in 1 .. Len(r), j < l, Of(r[j], s), Of(r[l], s),
                 r[j].key = ctx.active
          PROVE  r[l].key = ctx.active
      BY <1>2, <1>3, <3>2, Zenon DEF Sealed, InOrder
    <3> QED BY <3>1, <3>2, Zenon DEF InOrder
  <2> QED BY <2>1, <2>2, Zenon DEF Sealed
<1>4. \A s, key : ~Of(m, s) /\ AllBy(q, s, key) => AllBy(r, s, key)
  BY <1>2, Zenon DEF AllBy
<1> QED BY <1>3, <1>4, Zenon

LEMMA UpAppended ==
    ASSUME NEW q \in Seq(Message), NEW m \in Message, NEW r, r = Append(q, m),
           NEW s, NEW ctx, NEW key, Sealed(q, s, ctx),
           key # ctx.active => AllBy(q, s, key),
           m.key = key, key.id >= 1, key \in {ctx.previous, ctx.active},
           m.kind = "REKEY_REQ" => m.body.id = key.id + 1
    PROVE  Sealed(r, s, ctx) /\ (key # ctx.active => AllBy(r, s, key))
<1>1. /\ Len(r) = Len(q) + 1 /\ Len(q) \in Nat /\ r[Len(r)] = m
      /\ \A j \in 1 .. Len(r) : j # Len(r) => j \in 1 .. Len(q) /\ r[j] = q[j]
  BY SMTT(30)
<1>2. AsksForNext(r, s)
  BY <1>1, Zenon DEF Sealed, AsksForNext
<1>3. \A j \in 1 .. Len(r) : Of(r[j], s) =>
        r[j].key.id >= 1 /\ r[j].key \in {ctx.previous, ctx.active}
  BY <1>1, Zenon DEF Sealed, InOrder
<1>4. ASSUME NEW j \in 1 .. Len(r), NEW l \in 1 .. Len(r), j < l, Of(r[j], s), Of(r[l], s),
             r[j].key = ctx.active
      PROVE  r[l].key = ctx.active
  <2>1. j \in 1 .. Len(q) /\ r[j] = q[j]
    BY <1>1, <1>4, SMTT(30)
  <2>2. CASE l # Len(r)
    BY <1>1, <1>4, <2>1, <2>2, Zenon DEF Sealed, InOrder
  <2>3. CASE l = Len(r)
    BY <1>1, <1>4, <2>1, <2>3, Zenon DEF AllBy
  <2> QED BY <2>2, <2>3, Zenon
<1>5. key # ctx.active => AllBy(r, s, key)
  BY <1>1, Zenon DEF AllBy
<1> QED BY <1>2, <1>3, <1>4, <1>5, Zenon DEF Sealed, InOrder

(* When the server takes the first datagram, sealed with its active key,   *)
(* and turns to another key, the rest of the session is sealed with what   *)
(* is now its grace key.                                                   *)
LEMMA UpTurned ==
    ASSUME NEW q \in Seq(Message), 1 \in 1 .. Len(q), NEW r, r = RemoveAt(q, 1),
           NEW s, NEW ctx, Sealed(q, s, ctx), Of(q[1], s), q[1].key = ctx.active,
           NEW new, new.previous = ctx.active, new.active # ctx.active
    PROVE  Sealed(r, s, new) /\ AllBy(r, s, ctx.active)
<1>0. PICK f \in [1 .. Len(r) -> 1 .. Len(q)] : Places(f, r, q, 1)
  BY Kept, Zenon
<1>1. \A j \in 1 .. Len(r) : f[j] \in 1 .. Len(q) /\ r[j] = q[f[j]] /\ f[j] # 1
  BY <1>0, Zenon DEF Places
<1>2. ASSUME NEW j \in 1 .. Len(r), Of(r[j], s)
      PROVE  r[j].key = ctx.active /\ r[j].key.id >= 1
  <2>1. f[j] \in 1 .. Len(q) /\ 1 < f[j]
    BY <1>1, SMTT(30)
  <2> QED BY <1>1, <1>2, <2>1, Zenon DEF Sealed, InOrder
<1>3. AsksForNext(r, s)
  <2> SUFFICES ASSUME NEW j \in 1 .. Len(r), Of(r[j], s), r[j].kind = "REKEY_REQ"
               PROVE  r[j].body.id = r[j].key.id + 1
      BY Zenon DEF AsksForNext
  <2> QED BY <1>1, Zenon DEF Sealed, AsksForNext
<1> QED BY <1>2, <1>3, Zenon DEF Sealed, InOrder, AllBy

(* A session of which nothing is in flight.                                *)
LEMMA UpNone ==
    ASSUME NEW q, NEW s, NEW ctx, None(q, "REKEY_REQ", s), None(q, "DATA", s)
    PROVE  Sealed(q, s, ctx)
<1>1. \A j \in 1 .. Len(q) : ~Of(q[j], s)
  BY Zenon DEF None, Of
<1> QED BY <1>1, Zenon DEF Sealed, AsksForNext, InOrder

LEMMA DownRemoved ==
    ASSUME NEW q \in Seq(Message), 1 \in 1 .. Len(q), NEW r, r = RemoveAt(q, 1)
    PROVE  /\ \A key : DataBy(q, key) => DataBy(r, key)
           /\ \A old, new : Turns(q, old, new) /\ q[1].kind # "REKEY_ACK" => Turns(r, old, new)
           /\ \A old, new : Turns(q, old, new) /\ q[1].kind = "REKEY_ACK"
                                /\ Within(q, 1) /\ AtMostOne(q, "REKEY_ACK", 1)
                                => DataBy(r, new)
<1>0. PICK f \in [1 .. Len(r) -> 1 .. Len(q)] : Places(f, r, q, 1)
  BY Kept, Zenon
<1>1. /\ f \in [1 .. Len(r) -> 1 .. Len(q)]
      /\ \A j \in 1 .. Len(r) : r[j] = q[f[j]] /\ f[j] # 1
      /\ \A j, l \in 1 .. Len(r) : j < l => f[j] < f[l]
      /\ \A a \in 1 .. Len(q) : a # 1 => \E j \in 1 .. Len(r) : f[j] = a
  BY <1>0, Zenon DEF Places
<1>2. \A key : DataBy(q, key) => DataBy(r, key)
  BY <1>1 DEF DataBy
<1>3. ASSUME NEW old, NEW new, Turns(q, old, new), q[1].kind # "REKEY_ACK"
      PROVE  Turns(r, old, new)
  <2>1. PICK a \in 1 .. Len(q) :
            /\ q[a].kind = "REKEY_ACK"
            /\ \A i \in 1 .. Len(q) :
                q[i].kind = "DATA" => q[i].key = IF i < a THEN old ELSE new
    BY <1>3, Zenon DEF Turns
  <2>2. PICK b \in 1 .. Len(r) : f[b] = a
    BY <1>1, <1>3, <2>1, Zenon
  <2>3. ASSUME NEW j \in 1 .. Len(r)
        PROVE  (j < b <=> f[j] < a) /\ f[j] \in 1 .. Len(q)
    <3>1. Len(r) \in Nat /\ Len(q) \in Nat /\ f[j] \in 1 .. Len(q)
      <4>1. r \in Seq(Message)
        BY RemoveAtElements, Zenon
      <4> QED BY <4>1, LenProperties, Zenon
    <3>2. j < b => f[j] < a
      BY <1>1, <2>2, Zenon
    <3>3. b < j => a < f[j]
      BY <1>1, <2>2, Zenon
    <3>4. j = b => f[j] = a
      BY <2>2, Zenon
    <3> QED BY <3>1, <3>2, <3>3, <3>4
  <2>4. r[b].kind = "REKEY_ACK"
    BY <1>1, <2>1, <2>2, Zenon
  <2>5. \A j \in 1 .. Len(r) : r[j].kind = "DATA" => r[j].key = IF j < b THEN old ELSE new
    BY <1>1, <2>1, <2>3, SMTT(30)
  <2> QED BY <2>4, <2>5, Zenon DEF Turns
<1>4. ASSUME NEW old, NEW new, Turns(q, old, new), q[1].kind = "REKEY_ACK",
             Within(q, 1), AtMostOne(q, "REKEY_ACK", 1)
      PROVE  DataBy(r, new)
  <2>1. PICK a \in 1 .. Len(q) :
            /\ q[a].kind = "REKEY_ACK"
            /\ \A i \in 1 .. Len(q) :
                q[i].kind = "DATA" => q[i].key = IF i < a THEN old ELSE new
    BY <1>4, Zenon DEF Turns
  <2>2. a = 1
    <3>1. \A j \in 1 .. Len(q) : q[j].kind = "REKEY_ACK" => q[j].sid = 1
      <4>1. \A j \in 1 .. Len(q) : q[j].kind = "REKEY_ACK" => q[j].sid \in 1 .. 1
        BY <1>4, Zenon DEF Within
      <4> QED BY <4>1, SMTT(20)
    <3> QED BY <1>4, <2>1, <3>1, Zenon DEF AtMostOne
  <2>3. \A j \in 1 .. Len(r) : f[j] \in 1 .. Len(q) /\ ~(f[j] < 1)
    OBVIOUS
  <2> QED BY <1>1, <2>1, <2>2, <2>3 DEF DataBy
<1> QED BY <1>2, <1>3, <1>4, Zenon

LEMMA DownAppended ==
    ASSUME NEW q \in Seq(Message), NEW m \in Message, NEW r, r = Append(q, m)
    PROVE  /\ \A key : DataBy(q, key) /\ (m.kind = "DATA" => m.key = key) => DataBy(r, key)
           /\ \A old, new : Turns(q, old, new) /\ (m.kind = "DATA" => m.key = new)
                                => Turns(r, old, new)
           /\ \A old, new : DataBy(q, old) /\ m.kind = "REKEY_ACK" => Turns(r, old, new)
<1>1. /\ Len(r) = Len(q) + 1 /\ Len(q) \in Nat /\ r[Len(r)] = m
      /\ \A j \in 1 .. Len(r) : j # Len(r) => j \in 1 .. Len(q) /\ r[j] = q[j]
      /\ \A j \in 1 .. Len(q) : j \in 1 .. Len(r) /\ j < Len(r) /\ r[j] = q[j]
  BY SMTT(30)
<1>2. \A key : DataBy(q, key) /\ (m.kind = "DATA" => m.key = key) => DataBy(r, key)
  BY <1>1, Zenon DEF DataBy
<1>3. ASSUME NEW old, NEW new, Turns(q, old, new), m.kind = "DATA" => m.key = new
      PROVE  Turns(r, old, new)
  <2>1. PICK a \in 1 .. Len(q) :
            /\ q[a].kind = "REKEY_ACK"
            /\ \A i \in 1 .. Len(q) :
                q[i].kind = "DATA" => q[i].key = IF i < a THEN old ELSE new
    BY <1>3, Zenon DEF Turns
  <2>2. a \in 1 .. Len(r) /\ r[a].kind = "REKEY_ACK" /\ ~(Len(r) < a)
    BY <1>1, <2>1
  <2>3. \A j \in 1 .. Len(r) : r[j].kind = "DATA" => r[j].key = IF j < a THEN old ELSE new
    BY <1>1, <1>3, <2>1, <2>2, Zenon
  <2> QED BY <2>2, <2>3, Zenon DEF Turns
<1>4. ASSUME NEW old, NEW new, DataBy(q, old), m.kind = "REKEY_ACK" PROVE Turns(r, old, new)
  <2>1. Len(r) \in 1 .. Len(r) /\ r[Len(r)].kind = "REKEY_ACK"
    BY <1>1, <1>4
  <2>2. \A j \in 1 .. Len(r) :
            r[j].kind = "DATA" => r[j].key = IF j < Len(r) THEN old ELSE new
    BY <1>1, <1>4, Zenon DEF DataBy
  <2> QED BY <2>1, <2>2, Zenon DEF Turns
<1> QED BY <1>2, <1>3, <1>4, Zenon

(* Quotient and remainder; no multiple of k follows another one directly.  *)
LEMMA DivMod ==
    ASSUME NEW n \in Nat, NEW k \in Nat, k > 1
    PROVE  n \div k \in Int /\ n % k \in Int /\ n = k * (n \div k) + (n % k)
  BY SMT

LEMMA NoMultiple ==
    ASSUME NEW k \in Nat, k > 1, NEW x \in Int, NEW y \in Int
    PROVE  k * x # k * y + 1
<1>1. CASE x <= y
  <2>1. k * x <= k * y
    BY <1>1, SMT
  <2>2. k * x \in Int /\ k * y \in Int
    OBVIOUS
  <2> QED BY <2>1, <2>2
<1>2. CASE y + 1 <= x
  <2>1. k * (x - (y + 1)) >= 0
    <3> DEFINE d == x - (y + 1)
    <3>1. d \in Nat
      BY <1>2
    <3> HIDE DEF d
    <3>2. k * d >= 0
      BY <3>1
    <3> QED BY <3>2, Zenon DEF d
  <2>2. k * (x - (y + 1)) = k * x - k * y - k
    OBVIOUS
  <2>3. k * x \in Int /\ k * y \in Int
    OBVIOUS
  <2> QED BY <2>1, <2>2, <2>3
<1> QED BY <1>1, <1>2

(* The id on the wire tells a key from the next one.                       *)
LEMMA NextKid ==
    ASSUME NEW n \in Nat, NEW k \in Nat, k > 1
    PROVE  (n + 1) % k # n % k
<1>1. n \div k \in Int /\ n % k \in Int /\ n = k * (n \div k) + (n % k)
  BY DivMod, Zenon
<1>2. /\ (n + 1) \div k \in Int /\ (n + 1) % k \in Int
      /\ n + 1 = k * ((n + 1) \div k) + ((n + 1) % k)
  BY DivMod
<1>3. k * ((n + 1) \div k) # k * (n \div k) + 1
  BY <1>1, <1>2, NoMultiple, Zenon
<1>4. k * ((n + 1) \div k) \in Int /\ k * (n \div k) \in Int
  BY <1>1, <1>2
<1> QED BY <1>1, <1>2, <1>3, <1>4

(* A key finds itself by its id on the wire; the grace key does, too,      *)
(* because its id is one less than that of the active key.                 *)
LEMMA KeyFound ==
    ASSUME NEW ctx \in Context, NEW m \in Message, m.key.id >= 1,
           \/ m.key = ctx.active
           \/ m.key = ctx.previous /\ ctx.active.id = ctx.previous.id + 1
    PROVE  Decrypts(ctx, m)
<1>1. ctx.active.id \in Nat /\ ctx.previous.id \in Nat /\ KidMod \in Nat /\ KidMod > 1
  BY RekeyAssumption, Zenon DEF Context, Key
<1>2. CASE m.key = ctx.active
  BY <1>2, Zenon DEF Decrypts, vf_rekey_get_decrypt_key
<1>3. CASE m.key = ctx.previous /\ ctx.active.id = ctx.previous.id + 1
  <2>2. ctx.active.id % KidMod # m.key.id % KidMod
    BY <1>1, <1>3, NextKid, Zenon
  <2>3. ctx.previous.id # 0
    BY <1>1, <1>3
  <2> QED BY <1>3, <2>2, <2>3, Zenon DEF Decrypts, vf_rekey_get_decrypt_key
<1> QED BY <1>2, <1>3, Zenon

-----------------------------------------------------------------------------
\* The steps.

LEMMA SealingIdle == Inv /\ Sealing /\ (SendHello \/ Timeout) => Sealing'
<1> SUFFICES ASSUME Inv, Sealing, SendHello \/ Timeout PROVE Sealing'
    OBVIOUS
<1>1. /\ UNCHANGED <<sid, client, server, sessions, down, path, nullWrite, misled>>
      /\ state' # "connected" /\ up \in Seq(Message)
  BY Zenon DEF SendHello, Timeout, Inv, TypeOK
<1>2. \A s, ctx : Sealed(up, s, ctx) => Sealed(up', s, ctx)
  <2>1. CASE Timeout
    BY <2>1, Zenon DEF Timeout
  <2>2. CASE SendHello
    <3> DEFINE m == Plain("HELLO", sid, ZeroKey)
    <3>1. up' = Append(up, m)
      BY <2>2, Zenon DEF SendHello
    <3>2. m \in Message /\ m.kind = "HELLO"
      BY TypeFacts, MsgType DEF Inv
    <3> HIDE DEF m
    <3>3. \A s : ~Of(m, s)
      BY <3>2, Zenon DEF Of
    <3> QED BY <1>1, <3>1, <3>2, <3>3, UpForeign, Zenon
  <2> QED BY <2>1, <2>2, Zenon
<1>3. NextId'
  BY <1>1, Zenon DEF Sealing, NextId
<1>4. Uplink'
  BY <1>1, <1>2, Zenon DEF Sealing, Uplink, Sessions
<1>5. Downlink'
  BY <1>1, Zenon DEF Sealing, Downlink, Reliable, Offered
<1> QED BY <1>3, <1>4, <1>5, Zenon DEF Sealing

(* What a connected client sends is sealed with its active key.            *)
LEMMA SealingSends ==
    ASSUME Inv, Sealing, state = "connected", client'.active = client.active,
           UNCHANGED <<state, sid, server, sessions, down, path, nullWrite, misled>>,
           up' # up => \E m \in Message : /\ up' = Append(up, m) /\ m.sid = sid
                                          /\ m.key = client.active
                                          /\ m.kind = "REKEY_REQ" => m.body.id = m.key.id + 1
    PROVE  Uplink' /\ Downlink'
<1>1. ASSUME ~path.reorder, up' # up
      PROVE  /\ \A s \in Sessions : Sealed(up', s, server[s])
             /\ sid \notin misled /\ client.active # server[sid].active
                    => AllBy(up', sid, client.active)
  <2>1. PICK m \in Message : /\ up' = Append(up, m) /\ m.sid = sid /\ m.key = client.active
                             /\ m.kind = "REKEY_REQ" => m.body.id = m.key.id + 1
    BY <1>1, Zenon
  <2>2. up \in Seq(Message) /\ \A s \in Sessions : Sealed(up, s, server[s])
    BY <1>1, Zenon DEF Inv, TypeOK, Sealing, Uplink
  <2>3. ASSUME NEW s \in Sessions, s # sid PROVE Sealed(up', s, server[s])
    <3>1. ~Of(m, s)
      BY <2>1, <2>3, Zenon DEF Of
    <3> QED BY <2>1, <2>2, <3>1, UpForeign, Zenon
  <2>4. ASSUME sid \notin misled
        PROVE  /\ Sealed(up', sid, server[sid])
               /\ client.active # server[sid].active => AllBy(up', sid, client.active)
    <3>1. sid \in 1 .. sessions /\ client.active \in {server[sid].previous, server[sid].active}
      BY <2>4, Zenon DEF Inv, Joined, Connected, InStep, KeyBehind
    <3>2. /\ client.active.id >= 1
          /\ client.active # server[sid].active => AllBy(up, sid, client.active)
      BY <1>1, <2>4, Zenon DEF Sealing, Uplink
    <3>3. Sealed(up, sid, server[sid])
      BY <2>2, <2>4, <3>1, Zenon DEF Sessions
    <3> QED BY <2>1, <2>2, <3>1, <3>2, <3>3, UpAppended, ZenonT(30)
  <2>5. ASSUME NEW s \in Sessions PROVE Sealed(up', s, server[s])
    BY <2>3, <2>4, Zenon DEF Sessions
  <2> QED BY <2>4, <2>5, Zenon
<1>2. Uplink'
  <2>1. CASE up' = up
    BY <2>1, Zenon DEF Sealing, Uplink, Sessions
  <2>2. CASE up' # up
    BY <1>1, <2>2, Zenon DEF Sealing, Uplink, Sessions
  <2> QED BY <2>1, <2>2, Zenon
<1>3. Downlink'
  BY Zenon DEF Sealing, Downlink, Reliable, Offered
<1> QED BY <1>2, <1>3, Zenon

LEMMA SealingRekeyTimer == Inv /\ Inv' /\ Sealing /\ RekeyTimer => Sealing'
<1> SUFFICES ASSUME Inv, Inv', Sealing, RekeyTimer PROVE Sealing'
    OBVIOUS
<1> DEFINE m == Msg("REKEY_REQ", sid, client'.active, client'.next)
<1>1. /\ state = "connected" /\ (up' = up \/ up' = Append(up, m))
      /\ UNCHANGED <<state, sid, server, sessions, down, path, losses, nullWrite, misled>>
  BY Zenon DEF RekeyTimer
<1>2. client \in Context /\ client' \in Context /\ client.active.id \in Nat
  BY Zenon DEF Inv, TypeOK, Context, Key
<1>3. /\ client'.active = client.active /\ client'.pending
      /\ client'.next.id = client.active.id + 1
  <2>1. CASE client.pending /\ client' = client
    BY <2>1, Zenon DEF Sealing, NextId
  <2>2. CASE client' = [client EXCEPT !.next = NewKey(client.active.id + 1), !.pending = TRUE]
    <3> DEFINE key == NewKey(client.active.id + 1)
    <3>1. key.id = client.active.id + 1
      BY Zenon DEF NewKey
    <3>2. client' = [client EXCEPT !.next = key, !.pending = TRUE]
      BY <2>2, Zenon
    <3> HIDE DEF key
    <3>3. client'.active = client.active /\ client'.pending /\ client'.next = key
      BY <1>2, <3>2, Zenon DEF Context
    <3> QED BY <3>1, <3>3, Zenon
  <2> QED BY <2>1, <2>2, Zenon DEF RekeyTimer
<1>4. /\ m \in Message /\ m.sid = sid /\ m.key = client.active
      /\ m.kind = "REKEY_REQ" => m.body.id = m.key.id + 1
  <2>1. client'.active \in Key /\ client'.next \in Key /\ sid \in 0 .. MaxSessions
    BY <1>2, TypeFacts, Zenon DEF Context, Inv
  <2>2. m = [kind |-> "REKEY_REQ", sid |-> sid, key |-> client'.active, body |-> client'.next]
    BY Zenon DEF Msg
  <2> QED BY <1>3, <2>1, <2>2, SMTT(30) DEF Message
<1> HIDE DEF m
<1>5. Uplink' /\ Downlink'
  BY <1>1, <1>3, <1>4, SealingSends, Zenon
<1>6. NextId'
  BY <1>3, Zenon DEF NextId
<1> QED BY <1>5, <1>6, Zenon DEF Sealing

LEMMA SealingClientSendsData == Inv /\ Sealing /\ ClientSendsData => Sealing'
<1> SUFFICES ASSUME Inv, Sealing, ClientSendsData PROVE Sealing'
    OBVIOUS
<1> DEFINE m == Msg("DATA", sid, client.active, ZeroKey)
<1>1. /\ state = "connected" /\ up' = Append(up, m)
      /\ UNCHANGED <<state, sid, client, server, sessions, down, path, nullWrite, misled>>
  BY Zenon DEF ClientSendsData
<1>2. m \in Message /\ m.kind = "DATA" /\ m.key = client.active /\ m.sid = sid
  BY TypeFacts, MsgType, Zenon DEF Inv, Msg
<1> HIDE DEF m
<1>3. Uplink' /\ Downlink'
  <2>1. m.kind # "REKEY_REQ"
    BY <1>2, Zenon
  <2> QED BY <1>1, <1>2, <2>1, SealingSends, Zenon
<1>4. NextId'
  BY <1>1, Zenon DEF Sealing, NextId
<1> QED BY <1>3, <1>4, Zenon DEF Sealing

LEMMA SealingServerSendsData == Inv /\ Sealing /\ ServerSendsData => Sealing'
<1> SUFFICES ASSUME Inv, Sealing, ServerSendsData PROVE Sealing'
    OBVIOUS
<1>1. PICK s \in 1 .. sessions :
        /\ down' = Append(down, Msg("DATA", s, server[s].active, ZeroKey))
        /\ UNCHANGED <<state, sid, client, server, sessions, fresh, up, path, losses,
                       nullWrite, misled>>
  BY Zenon DEF ServerSendsData
<1> DEFINE m == Msg("DATA", s, server[s].active, ZeroKey)
<1>2. m \in Message /\ m.kind = "DATA" /\ m.key = server[s].active
  <2>1. s \in 0 .. MaxSessions /\ server[s] \in Context /\ ZeroKey \in Key
    BY TypeFacts DEF Inv
  <2>2. server[s].active \in Key
    BY <2>1, Zenon DEF Context
  <2> QED BY <2>1, <2>2, MsgType, Zenon DEF Msg
<1>3. down' = Append(down, m) /\ down \in Seq(Message)
  BY <1>1, Zenon DEF Inv, TypeOK
<1> HIDE DEF m
<1>4. NextId' /\ Uplink'
  BY <1>1, Zenon DEF Sealing, NextId, Uplink, Sessions
<1>5. ASSUME Reliable, sessions <= 1
      PROVE  /\ ~nullWrite
             /\ Offered(1)' => DataBy(down', server[1].active)
             /\ state = "connected" => DownSealed(down', server[sid], client.active)
  <2>1. s = 1 /\ sessions = 1 /\ (state = "connected" => sid = 1)
    BY <1>5 DEF Inv, TypeOK, Joined, Connected
  <2>2. ~nullWrite
    BY <1>5, Zenon DEF Sealing, Downlink
  <2>3. ASSUME Offered(1)' PROVE DataBy(down', server[1].active)
    <3>0. m.kind # "AUTH_ACK"
      BY <1>2, Zenon
    <3>1. Offered(1)
      BY <1>2, <1>3, <2>3, <3>0, Appended, Zenon DEF Offered
    <3>2. DataBy(down, server[1].active)
      BY <1>5, <2>1, <3>1, Zenon DEF Sealing, Downlink
    <3> QED BY <1>2, <1>3, <2>1, <3>2, DownAppended, Zenon
  <2>4. ASSUME state = "connected" PROVE DownSealed(down', server[sid], client.active)
    <3>1. DownSealed(down, server[sid], client.active) /\ m.key = server[sid].active
      BY <1>2, <1>5, <2>1, <2>4, Zenon DEF Sealing, Downlink
    <3>2. /\ \A key : DataBy(down, key) /\ m.key = key => DataBy(down', key)
          /\ \A old, new : Turns(down, old, new) /\ m.key = new => Turns(down', old, new)
      BY <1>2, <1>3, DownAppended, Zenon
    <3> QED BY <3>1, <3>2, Zenon DEF DownSealed
  <2> QED BY <2>2, <2>3, <2>4, Zenon
<1>6. Downlink'
  BY <1>1, <1>5, Zenon DEF Downlink, Reliable
<1> QED BY <1>4, <1>6, Zenon DEF Sealing

LEMMA SealingLose == Inv /\ Sealing /\ Lose => Sealing'
<1> SUFFICES ASSUME Inv, Sealing, Lose PROVE Sealing'
    OBVIOUS
<1>1. /\ losses < path.losses
      /\ UNCHANGED <<state, sid, client, server, sessions, fresh, path, nullWrite, misled>>
      /\ up' = up \/ \E i \in DOMAIN up : up' = RemoveAt(up, i)
  BY Zenon DEF Lose
<1>2. ~Reliable
  BY <1>1, RekeyAssumption, SMTT(30) DEF Reliable, Inv, TypeOK
<1>3. NextId' /\ Downlink'
  BY <1>1, <1>2, Zenon DEF Sealing, NextId, Downlink, Reliable
<1>4. /\ \A s, ctx : Sealed(up, s, ctx) => Sealed(up', s, ctx)
      /\ \A s, key : AllBy(up, s, key) => AllBy(up', s, key)
  <2>1. up \in Seq(Message)
    BY Zenon DEF Inv, TypeOK
  <2>2. ASSUME NEW i \in DOMAIN up, up' = RemoveAt(up, i) PROVE <1>4!1 /\ <1>4!2
    <3>1. i \in 1 .. Len(up)
      BY <2>1
    <3> QED BY <2>1, <2>2, <3>1, UpRemoved, Zenon
  <2> QED BY <1>1, <2>2, Zenon
<1>5. Uplink'
  BY <1>1, <1>4, Zenon DEF Sealing, Uplink, Sessions
<1> QED BY <1>3, <1>5, Zenon DEF Sealing

(* The acknowledgement was the only one; behind it the server uses the key *)
(* the client turns to.                                                    *)
LEMMA SealingClientOnUdp == Inv /\ Inv' /\ Sealing /\ client_on_udp => Sealing'
<1> SUFFICES ASSUME Inv, Inv', Sealing, client_on_udp PROVE Sealing'
    OBVIOUS
<1>1. PICK i \in Deliverable(down) :
        /\ \/ ClientHello(down[i]) \/ ClientAuth(down[i])
           \/ ClientRekeyAck(down[i]) \/ ClientData(down[i])
        /\ down' = RemoveAt(down, i)
        /\ UNCHANGED <<server, sessions, fresh, path, losses>>
  BY Zenon DEF client_on_udp
<1>2. /\ i \in 1 .. Len(down) /\ down \in Seq(Message) /\ up \in Seq(Message)
      /\ ~path.reorder => i = 1
  BY SMTT(30) DEF Deliverable, Inv, TypeOK
<1>3. ASSUME Reliable
      PROVE  /\ 1 \in 1 .. Len(down) /\ i = 1
             /\ \A key : DataBy(down, key) => DataBy(down', key)
             /\ \A old, new : Turns(down, old, new) /\ down[i].kind # "REKEY_ACK"
                                => Turns(down', old, new)
             /\ \A old, new : Turns(down, old, new) /\ down[i].kind = "REKEY_ACK"
                                /\ Within(down, 1) /\ AtMostOne(down, "REKEY_ACK", 1)
                                => DataBy(down', new)
  BY <1>1, <1>2, <1>3, DownRemoved, Zenon DEF Reliable
<1>4. Offered(1)' => Offered(1)
  BY <1>1, <1>2, Removed, Zenon DEF Offered
<1>5. Reliable /\ sessions <= 1 /\ sessions = 1 /\ Offered(1)'
        => DataBy(down', server[1].active)
  BY <1>3, <1>4, Zenon DEF Sealing, Downlink
\* A datagram that leaves the client as it is.
<1>6. ASSUME UNCHANGED <<client, sid, misled>>, up' = up \/ state' # "connected",
             \A s, ctx : Sealed(up, s, ctx) => Sealed(up', s, ctx),
             state' = "connected" <=> state = "connected",
             down[i].kind # "REKEY_ACK",
             Reliable /\ sessions <= 1 => ~nullWrite'
      PROVE  Sealing'
  <2>1. NextId' /\ Uplink'
    BY <1>1, <1>6, Zenon DEF Sealing, NextId, Uplink, Sessions
  <2>2. DownSealed(down, server[sid], client.active) /\ Reliable
            => DownSealed(down', server[sid], client.active)
    BY <1>3, <1>6, Zenon DEF DownSealed
  <2>3. Downlink'
    BY <1>1, <1>5, <1>6, <2>2, ZenonT(30) DEF Sealing, Downlink, Reliable
  <2> QED BY <2>1, <2>3, Zenon DEF Sealing
<1>7. CASE ClientHello(down[i])
  <2>1. \A s, ctx : Sealed(up, s, ctx) => Sealed(up', s, ctx)
    <3>1. CASE state = "hello"
      <4> DEFINE m == Plain("AUTH_REQ", sid, ZeroKey)
      <4>1. up' = Append(up, m)
        BY <1>7, <3>1, Zenon DEF ClientHello
      <4>2. m \in Message /\ m.kind = "AUTH_REQ"
        BY TypeFacts, MsgType DEF Inv
      <4> HIDE DEF m
      <4>3. \A s : ~Of(m, s)
        BY <4>2, Zenon DEF Of
      <4> QED BY <1>2, <4>1, <4>2, <4>3, UpForeign, Zenon
    <3>2. CASE state # "hello"
      BY <1>7, <3>2, Zenon DEF ClientHello
    <3> QED BY <3>1, <3>2, Zenon
  <2>2. /\ UNCHANGED <<client, sid, misled, nullWrite>> /\ (up' = up \/ state' # "connected")
        /\ (state' = "connected" <=> state = "connected") /\ down[i].kind # "REKEY_ACK"
    BY <1>7, Zenon DEF ClientHello
  <2>3. Reliable /\ sessions <= 1 => ~nullWrite'
    BY <2>2, Zenon DEF Sealing, Downlink
  <2> QED BY <1>6, <2>1, <2>2, <2>3, Zenon
<1>8. CASE ClientAuth(down[i])
  <2>1. CASE state # "auth"
    <3>1. UNCHANGED <<client, sid, state, up, nullWrite, misled>> /\ down[i].kind # "REKEY_ACK"
      BY <1>8, <2>1, Zenon DEF ClientAuth
    <3>2. Reliable /\ sessions <= 1 => ~nullWrite'
      BY <3>1, Zenon DEF Sealing, Downlink
    <3> QED BY <1>6, <3>1, <3>2, Zenon
  <2>2. CASE state = "auth"
    <3> DEFINE m == down[i]
    <3>1. /\ m.kind = "AUTH_ACK" /\ sid' = m.sid /\ UNCHANGED <<up, nullWrite, misled>>
          /\ client' = [client EXCEPT !.active = m.body, !.pending = FALSE]
          /\ state' = "connected" \/ state' = "auth"
      BY <1>8, <2>2, Zenon DEF ClientAuth
    <3>2. m \in Message /\ ~None(down, "AUTH_ACK", m.sid)
      BY <1>2, <3>1, Present, Zenon
    <3>3. m.sid \in 1 .. sessions /\ m.body = server[m.sid].active
      <4>1. Within(down, sessions) /\ Announced(down, server)
        BY Zenon DEF Inv, Traffic
      <4>2. m.kind \notin {"HELLO", "AUTH_REQ"}
        BY <3>1, Zenon
      <4> QED BY <1>2, <3>1, <4>1, <4>2, Zenon DEF Within, Announced
    <3>4. m.sid \in Sessions
      BY <3>2, <3>3, Zenon DEF Inv, Traffic, Offered, Unused, Sessions
    <3>5. client'.active = m.body /\ ~client'.pending
      <4>1. client \in Context
        BY Zenon DEF Inv, TypeOK
      <4> HIDE DEF m
      <4> QED BY <3>1, <4>1, Zenon DEF Context
    <3>6. NextId'
      BY <3>5, Zenon DEF NextId
    <3>7. Uplink'
      <4>1. ~path.reorder => client'.active.id >= 1
        BY <3>3, <3>4, <3>5, Zenon DEF Sealing, Uplink, Numbered
      <4>2. client'.active = server'[sid'].active
        BY <1>1, <3>1, <3>3, <3>5, Zenon
      <4> QED BY <1>1, <3>1, <4>1, <4>2, Zenon DEF Sealing, Uplink, Sessions
    <3>8. ASSUME Reliable, sessions <= 1
          PROVE  ~nullWrite /\ DownSealed(down', server[m.sid], m.body)
      <4>1. sessions = 1 /\ m.sid = 1
        BY <3>3, <3>8, SMTT(30) DEF Inv, TypeOK
      <4>2. ~nullWrite /\ DataBy(down, server[1].active)
        BY <3>2, <3>8, <4>1, Zenon DEF Sealing, Downlink, Offered
      <4>3. DataBy(down', m.body)
        BY <1>3, <3>3, <3>8, <4>1, <4>2, Zenon
      <4> QED BY <3>3, <4>2, <4>3, Zenon DEF DownSealed
    <3>9. Downlink'
      BY <1>1, <1>5, <3>1, <3>5, <3>8, Zenon DEF Downlink, Reliable
    <3> QED BY <3>6, <3>7, <3>9, Zenon DEF Sealing
  <2> QED BY <2>1, <2>2, Zenon
<1>9. CASE ClientRekeyAck(down[i])
  <2>1. /\ down[i].kind = "REKEY_ACK" /\ UNCHANGED <<state, sid, up, nullWrite>>
        /\ client'.active = client.next /\ ~client'.pending
        /\ misled' = IF state = "connected" /\ down[i].sid # sid
                     THEN misled \cup {sid} ELSE misled
    BY <1>9, Zenon DEF ClientRekeyAck, vf_rekey_commit
  <2>2. misled \subseteq misled' /\ Sessions' \subseteq Sessions
    BY <1>1, <2>1, Zenon DEF Sessions
  <2>3. ASSUME state = "connected", sid \notin misled'
        PROVE  /\ KeyBehind /\ sid \in Sessions
               /\ client'.active = server[sid].active
    <3>1. down[i].sid = sid /\ sid \notin misled
      BY <2>1, <2>3, Zenon
    <3>2. Connected /\ KeyBehind
      BY <1>2, <2>1, <2>3, <3>1, AckFinds, Zenon
    <3> QED BY <2>1, <3>1, <3>2, Zenon DEF Connected, KeyBehind, Sessions
  <2>4. NextId'
    BY <2>1, Zenon DEF NextId
  <2>5. Uplink'
    <3>1. ASSUME ~path.reorder, state = "connected", sid \notin misled'
          PROVE  client'.active.id >= 1 /\ client'.active = server[sid].active
      BY <2>3, <3>1, Zenon DEF Sealing, Uplink, Numbered
    <3> QED BY <1>1, <2>1, <2>2, <3>1, Zenon DEF Sealing, Uplink
  <2>6. ASSUME Reliable, sessions <= 1, state = "connected"
        PROVE  DownSealed(down', server[sid], client'.active)
    <3>1. misled' = {}
      BY <1>1, <2>6, Zenon DEF Inv, Joined
    <3>2. /\ KeyBehind /\ sid \in Sessions /\ sid \in 1 .. sessions
          /\ client'.active = server[sid].active
      BY <2>3, <2>6, <3>1, Zenon DEF Sessions
    <3>3. sid = 1 /\ sessions = 1
      BY <2>6, <3>2, SMTT(30) DEF Inv, TypeOK
    <3>4. client.active # server[sid].active
      <4>1. client.active.id >= 1 /\ Numbered(server[sid]) /\ client.active = server[sid].previous
        BY <2>2, <2>6, <3>1, <3>2, Zenon DEF Sealing, Uplink, Reliable, KeyBehind
      <4>2. server[sid].previous.id \in Nat
        BY <3>2, TypeFacts, Zenon DEF Inv, Context, Key
      <4> QED BY <4>1, <4>2, SMTT(30) DEF Numbered
    <3>5. Turns(down, client.active, server[sid].active)
      BY <2>6, <3>4, Zenon DEF Sealing, Downlink, DownSealed
    <3>6. Within(down, 1) /\ AtMostOne(down, "REKEY_ACK", 1)
      BY <3>2, <3>3, Zenon DEF Inv, Traffic, KeyBehind
    <3>7. DataBy(down', server[sid].active)
      BY <1>3, <2>1, <2>6, <3>5, <3>6, Zenon
    <3> QED BY <3>2, <3>7, Zenon DEF DownSealed
  <2>7. Downlink'
    BY <1>1, <1>5, <2>1, <2>6, Zenon DEF Sealing, Downlink, Reliable
  <2> QED BY <2>4, <2>5, <2>7, Zenon DEF Sealing
<1>10. CASE ClientData(down[i])
  <2>1. /\ down[i].kind = "DATA" /\ UNCHANGED <<state, sid, client, up, misled>>
        /\ nullWrite' = (nullWrite \/ (state = "connected" /\ ~Decrypts(client, down[i])))
    BY <1>10, Zenon DEF ClientData
  <2>2. ASSUME Reliable, sessions <= 1, state = "connected" PROVE Decrypts(client, down[i])
    <3>1. DownSealed(down, server[sid], client.active)
      BY <2>2, Zenon DEF Sealing, Downlink
    <3>2. down[1].key = client.active
      BY <1>3, <2>1, <2>2, <3>1, SMTT(30) DEF DownSealed, DataBy, Turns
    <3>3. client.active.id >= 1
      BY <2>2, Zenon DEF Inv, Joined, Sealing, Uplink, Reliable
    <3>4. /\ client \in Context /\ down[i] \in Message /\ down[i].key = client.active
      BY <1>2, <1>3, <2>2, <3>2, Present, Zenon DEF Inv, TypeOK
    <3> QED BY <3>3, <3>4, KeyFound, Zenon
  <2>3. Reliable /\ sessions <= 1 => ~nullWrite'
    BY <2>1, <2>2, ZenonT(30) DEF Sealing, Downlink
  <2>4. down[i].kind # "REKEY_ACK"
    BY <2>1, Zenon
  <2> QED BY <1>6, <2>1, <2>3, <2>4, Zenon
<1> QED BY <1>1, <1>7, <1>8, <1>9, <1>10, Zenon

(* The server turns to the next key on a request sealed with its active    *)
(* one, so what is still to come is sealed with its grace key; its         *)
(* acknowledgement follows what it sent before.                            *)
LEMMA SealingServerOnUdp == Inv /\ Inv' /\ Sealing /\ server_on_udp => Sealing'
<1> SUFFICES ASSUME Inv, Inv', Sealing, server_on_udp PROVE Sealing'
    OBVIOUS
<1>1. PICK i \in Deliverable(up) :
        /\ \/ ServerHello(up[i]) \/ ServerAuth(up[i])
           \/ ServerRekeyReq(up[i]) \/ ServerData(up[i])
        /\ up' = RemoveAt(up, i)
        /\ UNCHANGED <<state, sid, client, path, losses, nullWrite, misled>>
  BY Zenon DEF server_on_udp
<1>2. /\ i \in 1 .. Len(up) /\ down \in Seq(Message) /\ up \in Seq(Message)
      /\ ~path.reorder => i = 1
  BY SMTT(30) DEF Deliverable, Inv, TypeOK
<1>3. /\ \A s, ctx : Sealed(up, s, ctx) => Sealed(up', s, ctx)
      /\ \A s, key : AllBy(up, s, key) => AllBy(up', s, key)
  BY <1>1, <1>2, UpRemoved, Zenon
<1>4. NextId'
  BY <1>1, Zenon DEF Sealing, NextId
\* A datagram that leaves the sessions as they are.
<1>5. ASSUME UNCHANGED <<server, sessions>>,
             \/ down' = down
             \/ \E m \in Message : down' = Append(down, m) /\ m.kind = "HELLO"
      PROVE  Sealing'
  <2>1. Uplink'
    BY <1>1, <1>3, <1>5, Zenon DEF Sealing, Uplink, Sessions
  <2>2. /\ \A key : DataBy(down, key) => DataBy(down', key)
        /\ \A old, new : Turns(down, old, new) => Turns(down', old, new)
        /\ None(down, "AUTH_ACK", 1) => None(down', "AUTH_ACK", 1)
    <3>1. CASE down' = down
      BY <3>1, Zenon
    <3>2. ASSUME NEW m \in Message, down' = Append(down, m), m.kind = "HELLO"
          PROVE  <2>2!1 /\ <2>2!2 /\ <2>2!3
      <4>0. m.kind # "AUTH_ACK" /\ m.kind # "DATA"
        BY <3>2, Zenon
      <4>1. /\ \A key : DataBy(down, key) => DataBy(down', key)
            /\ \A old, new : Turns(down, old, new) => Turns(down', old, new)
        BY <1>2, <3>2, <4>0, DownAppended, ZenonT(30)
      <4>2. None(down, "AUTH_ACK", 1) => None(down', "AUTH_ACK", 1)
        BY <1>2, <3>2, <4>0, Appended, ZenonT(30)
      <4> QED BY <4>1, <4>2, Zenon
    <3> QED BY <1>5, <3>1, <3>2, Zenon
  <2>3. Downlink'
    BY <1>1, <1>5, <2>2, Zenon DEF Sealing, Downlink, Reliable, DownSealed, Offered
  <2> QED BY <1>4, <2>1, <2>3, Zenon DEF Sealing
<1>6. CASE ServerHello(up[i])
  <2>1. Plain("HELLO", 0, ZeroKey) \in Message /\ Plain("HELLO", 0, ZeroKey).kind = "HELLO"
    BY TypeFacts, MsgType, SMTT(30) DEF Inv
  <2> QED BY <1>5, <1>6, <2>1, Zenon DEF ServerHello
<1>7. CASE ServerData(up[i])
  BY <1>5, <1>7, Zenon DEF ServerData
<1>8. CASE ServerAuth(up[i])
  <2>1. CASE UNCHANGED <<server, sessions, down>>
    BY <1>5, <2>1, Zenon
  <2>2. CASE /\ sessions < MaxSessions /\ sessions' = sessions + 1
             /\ server' = [server EXCEPT ![sessions + 1] = ContextWith(NewKey(1))]
             /\ down' = Append(down, Plain("AUTH_ACK", sessions + 1, NewKey(1)))
    <3> DEFINE s == sessions + 1
               key == NewKey(1)
               m == Plain("AUTH_ACK", s, key)
    <3>1. /\ sessions \in Nat /\ s \in 1 .. MaxSessions /\ s \in 0 .. MaxSessions
          /\ server \in [1 .. MaxSessions -> Context] /\ s \notin 1 .. sessions
          /\ \A t \in 1 .. s : t = s \/ t \in 1 .. sessions
          /\ \A t \in 1 .. sessions : t # s
      BY <2>2, TypeFacts, SMTT(30) DEF Inv, TypeOK
    <3>2. key \in Key /\ key.id = 1
      BY NewKeyType, Zenon DEF Inv
    <3>3. m \in Message /\ m.kind = "AUTH_ACK"
      BY <3>1, <3>2, MsgType, SMTT(30)
    <3>4. ContextWith(key).active = key /\ ContextWith(key).previous.id = 0
      BY Zenon DEF ContextWith, ZeroKey
    <3>5. /\ sessions' = s /\ down' = Append(down, m)
          /\ server' = [server EXCEPT ![s] = ContextWith(key)]
      BY <2>2, Zenon
    <3> HIDE DEF key, m, s
    <3>6. /\ server'[s].active.id = 1 /\ server'[s].previous.id = 0
          /\ \A t \in 1 .. sessions : server'[t] = server[t]
      BY <3>1, <3>2, <3>4, <3>5, SMTT(30)
    <3>7. Numbered(server'[s])
      BY <3>6, SMTT(10) DEF Numbered
    <3>8. Sealed(up', s, server'[s])
      <4>1. None(up, "REKEY_REQ", s) /\ None(up, "DATA", s)
        BY <3>1, Absent, Zenon DEF Inv, Traffic
      <4>2. None(up', "REKEY_REQ", s) /\ None(up', "DATA", s)
        BY <1>1, <1>2, <4>1, Removed, Zenon
      <4> QED BY <4>2, UpNone, Zenon
    <3>9. Uplink'
      <4>1. ASSUME ~path.reorder, NEW t \in Sessions'
            PROVE  Numbered(server'[t]) /\ Sealed(up', t, server'[t])
        <5>1. t = s \/ (t \in 1 .. sessions /\ t \notin misled)
          BY <1>1, <3>1, <3>5, <4>1, Zenon DEF Sessions
        <5> QED BY <1>3, <3>6, <3>7, <3>8, <4>1, <5>1, Zenon DEF Sealing, Uplink, Sessions
      <4>2. state = "connected" => server'[sid] = server[sid]
        BY <3>6, Zenon DEF Inv, Joined, Connected
      <4> QED BY <1>1, <1>3, <4>1, <4>2, Zenon DEF Sealing, Uplink
    <3>10. ASSUME Reliable, sessions' <= 1
           PROVE  ~nullWrite /\ state # "connected" /\ DataBy(down', server'[1].active)
      <4>1. sessions = 0
        BY <3>1, <3>5, <3>10, SMTT(30) DEF s
      <4>2. ~nullWrite
        BY <3>10, <4>1, SMTT(30) DEF Sealing, Downlink
      <4>3. state # "connected"
        BY <4>1, SMTT(30) DEF Inv, Joined, Connected
      <4>4. DataBy(down, server'[1].active)
        <5>1. \A j \in 1 .. Len(down) : down[j].kind = "DATA" => down[j].sid \in 1 .. 0
          BY <4>1, Zenon DEF Inv, Traffic, Within
        <5> QED BY <5>1, SMTT(30) DEF DataBy
      <4>5. m.kind # "DATA"
        BY <3>3, Zenon
      <4>6. DataBy(down', server'[1].active)
        <5>1. \A k : DataBy(down, k) /\ (m.kind = "DATA" => m.key = k) => DataBy(down', k)
          BY <1>2, <3>3, <3>5, DownAppended, Zenon
        <5> QED BY <4>4, <4>5, <5>1, Zenon
      <4> QED BY <4>2, <4>3, <4>6, Zenon
    <3>11. Downlink'
      BY <1>1, <3>10, Zenon DEF Downlink, Reliable
    <3> QED BY <1>4, <3>9, <3>11, Zenon DEF Sealing
  <2> QED BY <1>8, <2>1, <2>2, Zenon DEF ServerAuth
<1>9. CASE ServerRekeyReq(up[i])
  <2> DEFINE m == up[i]
             s == m.sid
             ctx == server[s]
             new == vf_rekey_commit([ctx EXCEPT !.next = m.body])
             ack == Msg("REKEY_ACK", s, ctx.active, ZeroKey)
  <2>1. m.kind = "REKEY_REQ" /\ UNCHANGED sessions
    BY <1>9, Zenon DEF ServerRekeyReq
  <2>2. CASE UNCHANGED <<server, down>>
    BY <1>5, <2>1, <2>2, Zenon
  <2>3. CASE /\ m.body.id > ctx.active.id
             /\ server' = [server EXCEPT ![s] = new]
             /\ down' = Append(down, ack)
    <3>1. /\ m \in Message /\ s \in 1 .. sessions /\ s \in 1 .. MaxSessions /\ ctx \in Context
          /\ server \in [1 .. MaxSessions -> Context] /\ ZeroKey \in Key
          /\ \A t \in 1 .. sessions : t \in 1 .. MaxSessions
      <4>1. m.kind \in {"DATA", "REKEY_REQ"}
        BY <2>1, Zenon
      <4> QED BY <1>2, <4>1, RequestSid, TypeFacts, Zenon DEF Inv, TypeOK
    <3>2. /\ ctx.active \in Key /\ ctx.active.id \in Nat /\ ctx.previous.id \in Nat
          /\ m.sid \in 0 .. MaxSessions /\ m.key.id \in Nat /\ m.body.id \in Nat
      BY <3>1, Zenon DEF Context, Key, Message
    <3>3. new.active = m.body /\ new.previous = ctx.active
      BY <3>1, Zenon DEF vf_rekey_commit, Context
    <3>4. ack \in Message /\ ack.kind = "REKEY_ACK"
      BY <3>1, <3>2, MsgType, SMTT(30)
    <3>5. /\ server' = [server EXCEPT ![s] = new] /\ down' = Append(down, ack)
          /\ ctx = server[s] /\ m.body.id > ctx.active.id /\ m = up[i] /\ s = m.sid
      BY <2>3, Zenon
    <3>6. Of(up[i], s)
      BY <2>1, Zenon DEF Of
    <3> HIDE DEF m, s, ctx, new, ack
    <3>7. server'[s] = new /\ \A t \in 1 .. sessions : t # s => server'[t] = server[t]
      BY <3>1, <3>5, Zenon
    <3>8. ASSUME ~path.reorder, s \notin misled
          PROVE  /\ new.active # ctx.active /\ Numbered(new)
                 /\ Sealed(up', s, new) /\ AllBy(up', s, ctx.active)
      <4>1. Sealed(up, s, ctx) /\ Numbered(ctx) /\ i = 1
        BY <1>2, <3>1, <3>5, <3>8, Zenon DEF Sealing, Uplink, Sessions
      <4>2. m.body.id = m.key.id + 1 /\ m.key \in {ctx.previous, ctx.active} /\ m.key.id >= 1
        BY <1>2, <2>1, <3>5, <3>6, <4>1, Zenon DEF Sealed, AsksForNext, InOrder
      <4>3. m.key = ctx.active
        <5>1. m.key = ctx.previous => m.body.id <= ctx.active.id
          BY <3>2, <4>1, <4>2, SMTT(30) DEF Numbered
        <5>2. ~(m.body.id <= ctx.active.id)
          BY <3>2, <3>5, SMTT(30)
        <5> QED BY <4>2, <5>1, <5>2, Zenon
      <4>4. new.active.id = ctx.active.id + 1 /\ ctx.active.id >= 1
        BY <3>3, <4>2, <4>3, Zenon
      <4>5. new.active # ctx.active
        <5>1. new.active.id # ctx.active.id
          BY <3>2, <4>4, SMTT(30)
        <5> QED BY <5>1, Zenon
      <4>6. Numbered(new)
        BY <3>2, <3>3, <4>4, SMTT(30) DEF Numbered
      <4>7. up[1].key = ctx.active /\ Of(up[1], s) /\ up' = RemoveAt(up, 1)
        BY <1>1, <3>5, <3>6, <4>1, <4>3, Zenon
      <4> QED BY <1>2, <3>3, <4>1, <4>5, <4>6, <4>7, UpTurned, Zenon
    <3>9. ASSUME state = "connected", s = sid, sid \notin misled
          PROVE  client.active = ctx.active
      <4>1. InStep
        BY <1>2, <2>1, <3>5, <3>9, RequestTaken, Zenon
      <4> QED BY <3>5, <3>9, <4>1, Zenon DEF InStep
    <3>10. Uplink'
      <4>1. ASSUME ~path.reorder, NEW t \in Sessions
            PROVE  Numbered(server'[t]) /\ Sealed(up', t, server'[t])
        <5>1. CASE t = s
          BY <3>7, <3>8, <4>1, <5>1, Zenon DEF Sessions
        <5>2. CASE t # s
          BY <1>3, <3>7, <4>1, <5>2, Zenon DEF Sealing, Uplink, Sessions
        <5> QED BY <5>1, <5>2, Zenon
      <4>2. ASSUME ~path.reorder, state = "connected", sid \notin misled
            PROVE  /\ client.active.id >= 1
                   /\ client.active # server'[sid].active => AllBy(up', sid, client.active)
        <5>1. client.active.id >= 1 /\ sid \in 1 .. sessions
          BY <4>2, Zenon DEF Sealing, Uplink, Inv, Joined, Connected
        <5>2. CASE s = sid
          BY <3>8, <3>9, <4>2, <5>1, <5>2, Zenon
        <5>3. CASE s # sid
          BY <1>3, <3>7, <4>2, <5>1, <5>3, Zenon DEF Sealing, Uplink
        <5> QED BY <5>2, <5>3, Zenon
      <4> QED BY <1>1, <2>1, <4>1, <4>2, Zenon DEF Uplink, Sessions
    <3>11. ASSUME Reliable, sessions <= 1
           PROVE  /\ ~nullWrite /\ ~Offered(1)'
                  /\ state = "connected" => DownSealed(down', server'[sid], client.active)
      <4>1. ~nullWrite /\ misled = {} /\ ~path.reorder
        BY <3>11, Zenon DEF Sealing, Downlink, Inv, Joined, Reliable
      <4>2. s = 1 /\ 1 \in 1 .. sessions
        BY <3>1, <3>11, SMTT(30) DEF Inv, TypeOK
      <4>3. ~Offered(1)
        <5>1. ~None(up, "REKEY_REQ", 1)
          BY <1>2, <2>1, <3>5, <4>2, Present, Zenon
        <5> QED BY <4>2, <5>1, Zenon DEF Inv, Traffic, Unused
      <4>4. ~Offered(1)'
        <5>1. ack.kind # "AUTH_ACK"
          BY <3>4, Zenon
        <5> QED BY <1>2, <3>4, <3>5, <4>3, <5>1, Appended, Zenon DEF Offered
      <4>5. ASSUME state = "connected"
            PROVE  DownSealed(down', server'[sid], client.active)
        <5>1. sid = 1
          BY <3>11, <4>5, SMTT(30) DEF Inv, TypeOK, Joined, Connected
        <5>2. client.active = ctx.active /\ server'[sid] = new
          BY <3>7, <3>9, <4>1, <4>2, <4>5, <5>1, Zenon
        <5>3. DownSealed(down, ctx, client.active)
          BY <3>5, <3>11, <4>2, <4>5, <5>1, Zenon DEF Sealing, Downlink
        <5>4. DataBy(down, client.active)
          BY <5>2, <5>3, Zenon DEF DownSealed
        <5>5. Turns(down', client.active, new.active)
          BY <1>2, <3>4, <3>5, <5>4, DownAppended, ZenonT(30)
        <5>6. client.active # new.active
          BY <3>8, <4>1, <5>2, Zenon
        <5> QED BY <5>2, <5>5, <5>6, Zenon DEF DownSealed
      <4> QED BY <4>1, <4>4, <4>5, Zenon
    <3>12. Downlink'
      BY <1>1, <2>1, <3>11, Zenon DEF Downlink, Reliable
    <3> QED BY <1>4, <3>10, <3>12, Zenon DEF Sealing
  <2> QED BY <1>9, <2>1, <2>2, <2>3, Zenon DEF ServerRekeyReq
<1> QED BY <1>1, <1>6, <1>7, <1>8, <1>9, Zenon

LEMMA SealingStep == Inv /\ Inv' /\ Sealing /\ [Next]_vars => Sealing'
<1>1. ASSUME Sealing, UNCHANGED vars PROVE Sealing'
  <2>1. NextId'
    BY <1>1, Zenon DEF vars, Sealing, NextId
  <2>2. Uplink'
    BY <1>1, Zenon DEF vars, Sealing, Uplink, Sessions
  <2>3. Downlink'
    BY <1>1, Zenon DEF vars, Sealing, Downlink, Reliable, Offered
  <2> QED BY <2>1, <2>2, <2>3, Zenon DEF Sealing
<1> QED BY <1>1, SealingIdle, SealingRekeyTimer, SealingClientSendsData, SealingClientOnUdp,
           SealingServerSendsData, SealingServerOnUdp, SealingLose, Zenon DEF Next

(***************************************************************************)
(* On a path that keeps order, one grace key (vf_rekey_get_decrypt_key of  *)
(* key.h) is enough for the server to read everything a client sends       *)
(* through any number of rotations and reconnections, whatever is lost,    *)
(* unless the client took a REKEY_ACK of another session; on one that      *)
(* loses nothing either, client_handle_data never passes on a NULL payload *)
(* in its first session.                                                   *)
(***************************************************************************)
THEOREM PacketsDecryptAlways == Spec => []PacketsDecrypt
<1>1. Inv /\ Sealing => PacketsDecrypt
  <2> SUFFICES ASSUME Inv, Sealing PROVE PacketsDecrypt
      BY Zenon
  <2>1. ASSUME ~path.reorder, up # <<>>, Head(up).kind \in {"DATA", "REKEY_REQ"},
               Head(up).sid \notin misled
        PROVE  Decrypts(server[Head(up).sid], Head(up))
    <3> DEFINE m == Head(up)
               s == m.sid
    <3>1. up \in Seq(Message) /\ 1 \in 1 .. Len(up) /\ m = up[1]
      BY <2>1 DEF Inv, TypeOK
    <3>2. m \in Message /\ s \in 1 .. sessions /\ Of(up[1], s)
      BY <2>1, <3>1, RequestSid, Zenon DEF Of
    <3>3. s \in Sessions
      BY <2>1, <3>2, Zenon DEF Sessions
    <3>4. Numbered(server[s]) /\ Sealed(up, s, server[s])
      BY <2>1, <3>3, Zenon DEF Sealing, Uplink
    <3>5. m.key.id >= 1 /\ m.key \in {server[s].previous, server[s].active}
      BY <3>1, <3>2, <3>4, Zenon DEF Sealed, InOrder
    <3>6. server[s] \in Context
      BY <3>2, TypeFacts, Zenon DEF Inv
    <3> HIDE DEF m, s
    <3>7. Decrypts(server[s], m)
      BY <3>2, <3>4, <3>5, <3>6, KeyFound, SMTT(30) DEF Numbered
    <3> QED BY <3>7, Zenon DEF m, s
  <2>2. Reliable /\ sessions <= 1 => ~nullWrite
    BY Zenon DEF Sealing, Downlink
  <2> QED BY <2>1, <2>2, Zenon DEF PacketsDecrypt
<1>2. Init => Sealing
  <2> SUFFICES ASSUME Init PROVE Sealing
      OBVIOUS
  <2>1. /\ state = "idle" /\ sessions = 0 /\ nullWrite = FALSE /\ ~client.pending
    BY Zenon DEF Init, ContextWith
  <2> QED BY <2>1, SMTT(30) DEF Sealing, NextId, Uplink, Downlink, Sessions
<1>3. Inv /\ Sealing /\ [Next]_vars => Inv' /\ Sealing'
  BY InvStep, SealingStep, Zenon
<1> QED BY <1>1, <1>2, <1>3, InvInit, PTL DEF Spec
=============================================================================
