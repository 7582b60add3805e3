---------------------------- MODULE MCComponents ----------------------------
(***************************************************************************)
(* Components that share no state, side by side: each initial state picks  *)
(* one, and its behaviour is that component's; the session table and the   *)
(* address pool rest as they are initialised.  Beside them and those of    *)
(* Crypto there are the user table and, three times, the line editor; v1   *)
(* to v7 are their variables, 0 where one has fewer or rests.              *)
(***************************************************************************)
EXTENDS Crypto, MCSession, IpPoolSpec

VARIABLES v1, v2, v3, v4, v5, v6, v7

spare == <<v1, v2, v3, v4, v5, v6, v7>>
tables == <<threadsVars, callVars>>
all == <<cryptoVars, tables, spare>>

-----------------------------------------------------------------------------
(***************************************************************************)
(* The pool starts inside one block of addresses and ends inside the next: *)
(* last bytes 5,6,7 | 0..6 with an 8-valued last byte, so that the         *)
(* broadcast, network and gateway positions fall inside the range.         *)
(***************************************************************************)
MCStartIp == 5
MCPoolSize == 10
MCLastByteMod == 8
MCIpMod == 64

(***************************************************************************)
(* The wire format with the sizes of the code; payload lengths around the  *)
(* ends of the padding, of the tag and of the buffer (a TUN read delivers  *)
(* at most BUF_SIZE - VPN_TNL_HLEN bytes).  Bytes have four bits.          *)
(***************************************************************************)
PacketLengths ==
    (0 .. 2) \cup {1400} \cup (1956 .. 1958) \cup (1963 .. 1966)
        \cup (1987 .. 1989) \cup (1994 .. 1997) \cup {2028}
MCHeaderWords == {{}, {0, 4, 12, 14}, {0, 3, 7, 15}, 0 .. 15}
MCSalt == {1, 2, 4, 13}
MCPreamble == {1, 2, 4, 6, 8}

(***************************************************************************)
(* The tag with words of seven bits: the smallest and largest words, keys  *)
(* that are clamped, all ones, and one.                                    *)
(***************************************************************************)
AllOnes == <<127, 127, 127, 127, 127, 127, 127, 127>>
MCKeyWords == {<<7, 4, 4, 4, 0, 0, 0, 0>>, AllOnes,
               <<1, 0, 0, 0, 0, 0, 0, 0>>, <<5, 0, 4, 0, 3, 127, 0, 127>>}
MCMessages == UNION {[1 .. n -> {0, 127}] : n \in {0, 1, 2, 3, 5}}

(***************************************************************************)
(* Four tokens, three of them in one bucket until the table has 16; one    *)
(* element per bucket is one too many, so that tables grow at once.        *)
(***************************************************************************)
Users == INSTANCE UserTable WITH
    Elems <- 1 .. 4, Hash <- <<0, 8, 16, 1>>, NULL <- 0,
    HASH_INITIAL_NUM_BUCKETS <- 2, HASH_BKT_CAPACITY_THRESH <- 1,
    VF_USER_TOKEN_INTER <- 1, VF_USER_TOKEN_MIN <- 1, MaxBuckets <- 16,
    phase <- v1, user_node <- v2, left <- v3, answer <- v4

(***************************************************************************)
(* The line editor three times: with history, completion and hints over    *)
(* letters and spaces; with a history of lines of up to the buffer's size, *)
(* some ending in a character of two bytes; and with every class of        *)
(* characters in longer lines.                                             *)
(***************************************************************************)
a == <<"letter", 1>>
Blank == <<"space", 1>>

Editor == INSTANCE LineEdit WITH
    Classes <- {"letter", "space"}, ByteLen <- [letter |-> 1, space |-> 1],
    buflen <- 4, TmpSize <- 4, history_max_len <- 2, Room <- 3, MaxLine <- 2,
    Commands <- <<[name |-> <<a>>, hint |-> <<Blank, a>>, subs |-> << <<a>> >>],
                  [name |-> <<a, a>>, hint |-> <<>>, subs |-> <<>>]>>,
    ExitLine <- <<a, a>>, HistoryFiles <- {<<>>, << <<a>>, <<>> >>},
    mode <- v1, buf <- v2, pos <- v3, history <- v4, history_index <- v5,
    completion <- v6, screen <- v7

Full == INSTANCE LineEdit WITH
    Classes <- {"letter", "wide"},
    ByteLen <- [letter |-> 1, wide |-> 2, stack |-> 1],
    buflen <- 3, TmpSize <- 4, history_max_len <- 3, Room <- 3, MaxLine <- 3,
    Commands <- <<>>, ExitLine <- <<a>>, HistoryFiles <- {<<>>},
    mode <- v1, buf <- v2, pos <- v3, history <- v4, history_index <- v5,
    completion <- v6, screen <- v7

Glyphs == INSTANCE LineEdit WITH
    Classes <- {"letter", "space", "wide", "mark", "joiner", "flag"},
    ByteLen <- [letter |-> 1, space |-> 1, wide |-> 2, mark |-> 2,
                joiner |-> 1, flag |-> 1, stack |-> 1],
    buflen <- 5, TmpSize <- 3, history_max_len <- 1, Room <- 3, MaxLine <- 5,
    Commands <- <<[name |-> <<a>>, subs |-> <<>>,
                   hint |-> <<<<"wide", 1>>, <<"wide", 2>>, a>>]>>,
    ExitLine <- <<a>>, HistoryFiles <- {<<>>},
    mode <- v1, buf <- v2, pos <- v3, history <- v4, history_index <- v5,
    completion <- v6, screen <- v7

-----------------------------------------------------------------------------
CryptoRests == PolyRests /\ WireRests /\ SealRests
SpareRests == v1 = 0 /\ v2 = 0 /\ v3 = 0 /\ v4 = 0 /\ v5 = 0 /\ v6 = 0 /\ v7 = 0

MCInit ==
    /\ ThreadsInit /\ CallsInit
    /\ \/ CryptoInit /\ SpareRests
       \/ CryptoRests /\ SpareRests /\ part \in {"sessions", "pool"}
       \/ CryptoRests
          /\ \/ part = "users" /\ Users!Init /\ v5 = 0 /\ v6 = 0 /\ v7 = 0
             \/ part = "editor" /\ Editor!Init
             \/ part = "full" /\ Full!Init
             \/ part = "glyphs" /\ Glyphs!Init

MCNext ==
    \/ CryptoNext /\ UNCHANGED <<tables, spare>>
    \/ part = "sessions" /\ ThreadsNext /\ UNCHANGED <<cryptoVars, callVars, spare>>
    \/ part = "pool" /\ CallsNext /\ UNCHANGED <<cryptoVars, threadsVars, spare>>
    \/ part = "users" /\ Users!Next /\ UNCHANGED <<cryptoVars, tables, v5, v6, v7>>
    \/ part = "editor" /\ Editor!Next /\ UNCHANGED <<cryptoVars, tables>>
    \/ part = "full" /\ Full!Next /\ UNCHANGED <<cryptoVars, tables>>
    \/ part = "glyphs" /\ Glyphs!Next /\ UNCHANGED <<cryptoVars, tables>>

MCSpec == MCInit /\ [][MCNext]_all

-----------------------------------------------------------------------------
(* The chains, lists and counts of the hash table are always right          *)
(* (HASH_ADD, HASH_EXPAND_BUCKETS, HASH_DELETE, HASH_ITER).                 *)
TableSound == part = "users" => Users!TableSound

(* The tokens of user.c are those of the abstract TokenStore.               *)
KeepsTokens ==
    /\ part = "users" => Users!Store!Init
    /\ [][part = "users" => Users!Store!Next \/ UNCHANGED <<v2, v3, v4>>]_all

(* No editing key cuts a character in two or overfills the line buffer; the *)
(* fetch of a history entry that fills the buffer is the only step that     *)
(* does; and the history index names an entry of the history, which stays   *)
(* in its bounds (linenoiseEditBackspace, linenoiseEditHistoryNext ...).    *)
EditorSound ==
    /\ part = "editor" => Editor!CursorOnCharacter /\ Editor!HistoryIndexed
    /\ part = "full" => Full!CursorOnCharacter /\ Full!HistoryIndexed
    /\ part = "glyphs" => Glyphs!CursorOnCharacter /\ Glyphs!HistoryIndexed

(* refreshSingleLine ends and shows the cursor where it is, on one row.     *)
RefreshFits ==
    /\ part = "editor" => Editor!RefreshFits
    /\ part = "full" => Full!RefreshFits
    /\ part = "glyphs" => Glyphs!RefreshFits

(* Moving through the history loses no text but the last byte of an entry   *)
(* that fills the buffer (linenoiseEditHistoryNext).                        *)
NavigationKeepsText ==
    [][(part = "editor" => Editor!Moved) /\ (part = "full" => Full!Moved)]_all
=============================================================================
