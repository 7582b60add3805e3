-------------------------------- MODULE Utf8 --------------------------------
(***************************************************************************)
(* Characters and columns of an edited line (linenoise.c).  A line is a    *)
(* sequence of bytes; a byte is a pair <<cp, i>>, the i-th byte of a code  *)
(* point of class cp.  The classes are those that linenoise.c tells apart: *)
(* plain ones, spaces, wide ones, marks that extend the character before   *)
(* them (variation selectors, skin tones, combining marks), the zero width *)
(* joiner, and regional indicators, two of which make a flag.  Positions   *)
(* count from 0.                                                           *)
(***************************************************************************)
EXTENDS Integers, Sequences, SequencesExt

CONSTANTS
    Classes,        \* the classes of code points that are typed
    ByteLen         \* utf8ByteLen of each class

Bytes(cp) == [i \in 1 .. ByteLen[cp] |-> <<cp, i>>]

isZWJ(cp) == cp = "joiner"
isRegionalIndicator(cp) == cp = "flag"
isGraphemeExtend(cp) == cp \in {"mark", "joiner"}

utf8CharWidth(cp) ==
    CASE cp \in {"mark", "joiner"} -> 0
      [] cp \in {"wide", "flag"} -> 2
      [] OTHER -> 1

\* A byte that starts no code point is taken for a character of its own.
utf8DecodeChar(buf, i) ==
    LET b == buf[i + 1]
    IN  IF b[2] = 1 THEN [cp |-> b[1], len |-> ByteLen[b[1]]]
        ELSE [cp |-> "invalid", len |-> 1]

\* Back to the nearest byte that starts a code point, four bytes at most.
utf8DecodePrev(buf, pos) ==
    LET starts == {i \in 0 .. pos - 1 :
                    buf[i + 1][2] = 1 \/ i = 0 \/ pos - i = 4}
        i == CHOOSE x \in starts : \A y \in starts : x >= y
    IN  IF pos = 0 THEN [cp |-> "none", len |-> 0]
        ELSE [cp |-> utf8DecodeChar(buf, i).cp, len |-> pos - i]

-----------------------------------------------------------------------------
\* Start of the character whose code point cp begins at cur.
RECURSIVE ClusterStart(_, _, _), StartAfter(_, _, _, _), StartAt(_, _, _)

\* The code point p ends at cur and belongs to the character.
StartAt(buf, cur, p) == ClusterStart(buf, cur - p.len, p.cp)

\* The code point p ends at cur, where cp begins: does it belong to the character?
StartAfter(buf, cur, cp, p) ==
    IF isZWJ(p.cp)
    THEN (IF cur = p.len THEN 0
          ELSE StartAt(buf, cur - p.len, utf8DecodePrev(buf, cur - p.len)))
    ELSE IF isGraphemeExtend(cp) THEN StartAt(buf, cur, p)
    ELSE IF isRegionalIndicator(cp) /\ isRegionalIndicator(p.cp) THEN cur - p.len
    ELSE cur

ClusterStart(buf, cur, cp) ==
    IF cur <= 0 THEN cur ELSE StartAfter(buf, cur, cp, utf8DecodePrev(buf, cur))

utf8PrevCharLen(buf, pos) ==
    IF pos = 0 THEN 0 ELSE pos - StartAt(buf, pos, utf8DecodePrev(buf, pos))

\* End of the character of which everything before cur has been read; pair
\* says that a second regional indicator still belongs to it.
RECURSIVE ClusterEnd(_, _, _, _)

ClusterEnd(buf, cur, len, pair) ==
    LET n == utf8DecodeChar(buf, cur)
        after == cur + n.len
    IN  IF cur >= len THEN cur
        ELSE IF isZWJ(n.cp) /\ after < len
        THEN ClusterEnd(buf, after + utf8DecodeChar(buf, after).len, len, pair)
        ELSE IF isGraphemeExtend(n.cp) THEN ClusterEnd(buf, after, len, pair)
        ELSE IF pair /\ isRegionalIndicator(n.cp)
        THEN ClusterEnd(buf, after, len, FALSE)
        ELSE cur

utf8NextCharLen(buf, pos, len) ==
    LET first == utf8DecodeChar(buf, pos)
    IN  IF pos >= len THEN 0
        ELSE ClusterEnd(buf, pos + first.len, len,
                        isRegionalIndicator(first.cp)) - pos

\* A code point that follows a joiner takes no room.
RECURSIVE WidthFrom(_, _, _, _)

WidthFrom(buf, i, len, joined) ==
    LET c == utf8DecodeChar(buf, i)
    IN  IF i >= len THEN 0
        ELSE (IF joined THEN 0 ELSE utf8CharWidth(c.cp))
             + WidthFrom(buf, i + c.len, len, ~joined /\ isZWJ(c.cp))

utf8StrWidth(buf, len) == WidthFrom(buf, 0, len, FALSE)

utf8SingleCharWidth(buf, i, len) ==
    IF len = 0 THEN 0 ELSE utf8CharWidth(utf8DecodeChar(buf, i).cp)

-----------------------------------------------------------------------------
(***************************************************************************)
(* refreshSingleLine: from is the first byte shown, len the end of what is *)
(* shown.  Both loops go on without end once there is nothing left to cut. *)
(***************************************************************************)
Stuck == [from |-> 0, len |-> 0, poscol |-> 0, lencol |-> 0, ends |-> FALSE]

RECURSIVE TrimLeft(_, _, _), TrimRight(_, _, _)

TrimLeft(buf, s, room) ==
    LET clen == utf8NextCharLen(buf, s.from, s.len)
        w == utf8SingleCharWidth(buf, s.from, clen)
    IN  IF s.poscol < room THEN s
        ELSE IF clen = 0 THEN Stuck
        ELSE TrimLeft(buf, [s EXCEPT !.from = @ + clen, !.poscol = @ - w,
                                     !.lencol = @ - w], room)

TrimRight(buf, s, room) ==
    LET shown == SubSeq(buf, s.from + 1, s.len)
        clen == utf8PrevCharLen(shown, s.len - s.from)
        w == utf8SingleCharWidth(buf, s.len - clen, clen)
    IN  IF ~s.ends \/ s.lencol <= room THEN s
        ELSE IF clen = 0 THEN Stuck
        ELSE TrimRight(buf, [s EXCEPT !.len = @ - clen, !.lencol = @ - w], room)

\* The cursor may stand one column behind the last.
MutRefresh(buf, pos, room) ==
    LET s == [from |-> 0, len |-> Len(buf), ends |-> TRUE,
              poscol |-> utf8StrWidth(buf, pos),
              lencol |-> utf8StrWidth(buf, Len(buf))]
    IN  TrimRight(buf, TrimLeft(buf, s, room + 1), room)

\* room is l->cols less the width of the prompt.
refreshSingleLine(buf, pos, room) ==
    LET s == [from |-> 0, len |-> Len(buf), ends |-> TRUE,
              poscol |-> utf8StrWidth(buf, pos),
              lencol |-> utf8StrWidth(buf, Len(buf))]
    IN  TrimRight(buf, TrimLeft(buf, s, room), room)
=============================================================================
