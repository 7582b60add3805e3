------------------------------ MODULE LineEdit ------------------------------
(***************************************************************************)
(* The management console: the line editor of linenoise.c with the         *)
(* completion, the hints and the main loop of vfreflex.c.                  *)
(*                                                                         *)
(* mode is "shell" between two lines, "edit" while one is edited, "cut"    *)
(* while one is that ends inside a character, "hungup" when the input has  *)
(* ended inside one, "left" when main has returned, "stuck" when a refresh *)
(* goes on without end and "crashed" when the completion follows a null    *)
(* pointer or CTRL-T writes behind tmp.  completion is -1, or              *)
(* completion_idx while in_completion is set.  screen is what the last     *)
(* refresh has written.  Single line mode, a terminal, and successful      *)
(* allocation are assumed; commands are sent over the channel of CmdServer.*)
(*                                                                         *)
(* The functions on characters assume valid UTF-8.  A cut line is handed   *)
(* to main, left for another one or deleted; what an editing key makes of  *)
(* half a character, memory behind the line included, is left out.         *)
(***************************************************************************)
EXTENDS Utf8

CONSTANTS
    buflen,             \* l->buflen, the room of the edit buffer
    TmpSize,            \* the room of CTRL-T's tmp
    history_max_len,
    Room,               \* columns right of the prompt
    Commands,           \* cli_ui_data: records with name, hint and subs
    ExitLine,           \* the line that ends the console
    HistoryFiles,       \* what /tmp/reflex_history may hold at the start
    MaxLine             \* bound: nothing is typed into a longer line

VARIABLES mode, buf, pos, history, history_index, completion, screen

vars == <<mode, buf, pos, history, history_index, completion, screen>>

Space == <<"space", 1>>

-----------------------------------------------------------------------------
linenoiseHistoryAdd(h, line) ==
    IF h # <<>> /\ Last(h) = line THEN h
    ELSE Append(IF Len(h) = history_max_len THEN Tail(h) ELSE h, line)

linenoiseHistoryLoad(lines) == FoldLeft(linenoiseHistoryAdd, <<>>, lines)

\* strtok at spaces: the maximal runs without one.
Tokens(line) ==
    LET In(i) == i \in DOMAIN line /\ line[i] # Space
        runs == {r \in (DOMAIN line) \X (DOMAIN line) :
                    /\ \A i \in r[1] .. r[2] : In(i)
                    /\ r[1] <= r[2] /\ ~In(r[1] - 1) /\ ~In(r[2] + 1)}
        sorted == SetToSortSeq(runs, LAMBDA r, s : r[1] < s[1])
    IN  [k \in DOMAIN sorted |-> SubSeq(line, sorted[k][1], sorted[k][2])]

\* The candidates for a line that has a first word, or for the empty one.
completion_callback(line) ==
    LET tokens == Tokens(line)
        prefix == IF Len(tokens) >= 2 THEN tokens[2] ELSE <<>>
        primary == SelectSeq(Commands, LAMBDA c : IsPrefix(line, c.name))
        chosen == SelectSeq(Commands,
                            LAMBDA c : c.name = tokens[1] /\ c.subs # <<>>)
        subs == SelectSeq(Head(chosen).subs, LAMBDA s : IsPrefix(prefix, s))
    IN  IF Len(tokens) <= 1 /\ (line = <<>> \/ Last(line) # Space)
        THEN [i \in DOMAIN primary |-> primary[i].name]
        ELSE IF chosen = <<>> THEN <<>>
        ELSE [i \in DOMAIN subs |-> Head(chosen).name \o <<Space>> \o subs[i]]

\* The byte before an empty line decides whether it is taken for a blank one;
\* a blank line has no first word, and its null pointer is compared.
CallbackCrashes(line) == \A i \in DOMAIN line : line[i] = Space
CallbackReturns(line) == line = <<>> \/ ~CallbackCrashes(line)

hints_callback(line) ==
    LET word == IF \E i \in DOMAIN line : line[i] = Space
                THEN SubSeq(line, 1, SelectInSeq(line, LAMBDA b : b = Space) - 1)
                ELSE line
        known == SelectSeq(Commands, LAMBDA c : c.name = word)
    IN  IF line = <<>> \/ known = <<>> THEN <<>> ELSE Head(known).hint

\* As many characters of the hint as the columns after the line hold.
RECURSIVE HintWidth(_, _, _, _)

HintWidth(hint, i, w, most) ==
    LET clen == utf8NextCharLen(hint, i, Len(hint))
        cwidth == utf8SingleCharWidth(hint, i, clen)
    IN  IF i >= Len(hint) \/ w + cwidth > most THEN w
        ELSE HintWidth(hint, i + clen, w + cwidth, most)

refreshShowHints(line) ==
    LET w == utf8StrWidth(line, Len(line))
    IN  IF w < Room THEN HintWidth(hints_callback(line), 0, 0, Room - w) ELSE 0

\* What is on the screen when s of the line is shown, with the cursor at a byte.
Screen(line, at, s) ==
    [ends |-> s.ends, text |-> SubSeq(line, s.from + 1, s.len),
     cursor |-> at - s.from, poscol |-> s.poscol, lencol |-> s.lencol,
     hint |-> IF s.ends THEN refreshShowHints(line) ELSE 0]

Shown(line, at) == Screen(line, at, refreshSingleLine(line, at, Room))

\* The line has been opened and nothing typed: only the prompt is written.
OnlyPrompt ==
    [ends |-> TRUE, text |-> <<>>, cursor |-> 0, poscol |-> 0, lencol |-> 0, hint |-> 0]

refreshLine(l) ==
    /\ screen' = Shown(l.buf, l.pos)
    /\ mode' = IF screen'.ends THEN "edit" ELSE "stuck"

-----------------------------------------------------------------------------
(***************************************************************************)
(* The editing functions: from a line with its cursor to the next one.     *)
(***************************************************************************)
Ends(line) == [buf |-> line, pos |-> Len(line)]

\* Bytes a up to b are taken out and the cursor stands where they were.
Cut(l, a, b) ==
    [buf |-> SubSeq(l.buf, 1, a) \o SubSeq(l.buf, b + 1, Len(l.buf)), pos |-> a]

linenoiseEditInsert(l, bytes) ==
    IF Len(l.buf) + Len(bytes) > buflen THEN l
    ELSE [buf |-> SubSeq(l.buf, 1, l.pos) \o bytes
                  \o SubSeq(l.buf, l.pos + 1, Len(l.buf)),
          pos |-> l.pos + Len(bytes)]

linenoiseEditMoveLeft(l) == [l EXCEPT !.pos = @ - utf8PrevCharLen(l.buf, @)]

linenoiseEditMoveRight(l) ==
    [l EXCEPT !.pos = @ + utf8NextCharLen(l.buf, @, Len(l.buf))]

linenoiseEditMoveHome(l) == [l EXCEPT !.pos = 0]

linenoiseEditMoveEnd(l) == [l EXCEPT !.pos = Len(l.buf)]

linenoiseEditDelete(l) ==
    Cut(l, l.pos, l.pos + utf8NextCharLen(l.buf, l.pos, Len(l.buf)))

\* One byte is deleted, not one character.
MutBackspace(l) == IF l.pos = 0 THEN l ELSE Cut(l, l.pos - 1, l.pos)

linenoiseEditBackspace(l) == Cut(l, l.pos - utf8PrevCharLen(l.buf, l.pos), l.pos)

RECURSIVE BackOver(_, _, _)

BackOver(line, at, spaces) ==
    IF at > 0 /\ (line[at] = Space) = spaces
    THEN BackOver(line, at - utf8PrevCharLen(line, at), spaces)
    ELSE at

linenoiseEditDeletePrevWord(l) ==
    Cut(l, BackOver(l.buf, BackOver(l.buf, l.pos, TRUE), FALSE), l.pos)

\* Bytes of the character right of the cursor, which CTRL-T copies to tmp.
Swapped(l) ==
    IF l.pos = 0 THEN 0 ELSE utf8NextCharLen(l.buf, l.pos, Len(l.buf))

\* CTRL-T: the characters on the two sides of the cursor change places.
Transpose(l) ==
    LET prevstart == l.pos - utf8PrevCharLen(l.buf, l.pos)
        after == l.pos + Swapped(l)
    IN  IF l.pos = 0 \/ l.pos = Len(l.buf) THEN l
        ELSE [buf |-> SubSeq(l.buf, 1, prevstart)
                      \o SubSeq(l.buf, l.pos + 1, after)
                      \o SubSeq(l.buf, prevstart + 1, l.pos)
                      \o SubSeq(l.buf, after + 1, Len(l.buf)),
              pos |-> after]

DeleteLine(l) == Ends(<<>>)
DeleteToEnd(l) == Ends(SubSeq(l.buf, 1, l.pos))
ClearScreen(l) == l

-----------------------------------------------------------------------------
Line == [buf |-> buf, pos |-> pos]

\* Offsets in a line at which a code point starts or the line ends.
Boundaries(line) ==
    {0} \cup {i \in 1 .. Len(line) : line[i][2] = ByteLen[line[i][1]]}

\* Every code point of the line is complete.
Whole(line) ==
    /\ line # <<>> => Last(line)[2] = ByteLen[Last(line)[1]]
    /\ \A i \in DOMAIN line :
        line[i][2] = IF i - 1 \in Boundaries(line) THEN 1 ELSE line[i - 1][2] + 1

\* completeLine for a key other than TAB and ESC: the candidate on the screen
\* becomes the line and the key is handled after it.
Completed ==
    LET lc == completion_callback(buf)
    IN  IF completion = -1 \/ completion = Len(lc) THEN Line
        ELSE Ends(lc[completion + 1])

Becomes(l) == buf' = l.buf /\ pos' = l.pos

\* A key makes one of lines of the line.
Edit(lines) ==
    /\ mode = "edit"
    /\ \E l \in lines : Becomes(l) /\ refreshLine(l)
    /\ completion' = -1
    /\ UNCHANGED <<history, history_index>>

\* Characters that may be typed into l, which makes lines of MaxLine bytes at most.
Typable(l) == {cp \in Classes : Len(l.buf) + ByteLen[cp] <= MaxLine}

Typed(l) == {linenoiseEditInsert(l, Bytes(cp)) : cp \in Typable(l)}

Transposed(l) == IF Swapped(l) <= TmpSize THEN {Transpose(l)} ELSE {}

EditKeys ==
    \E l \in {Completed} :
        Edit(Typed(l) \cup Transposed(l) \cup
             {linenoiseEditMoveLeft(l), linenoiseEditMoveRight(l),
              linenoiseEditMoveHome(l), linenoiseEditMoveEnd(l),
              linenoiseEditDelete(l), linenoiseEditBackspace(l),
              linenoiseEditDeletePrevWord(l), DeleteLine(l),
              DeleteToEnd(l), ClearScreen(l)})

\* CTRL-T with a character that does not fit tmp: the stack is written over.
TransposeOverflows ==
    /\ mode = "edit" /\ Swapped(Completed) > TmpSize
    /\ mode' = "crashed"
    /\ UNCHANGED <<buf, pos, history, history_index, completion, screen>>

\* The input ends after the first byte of a character: the bytes that were not
\* read are whatever the stack held, and the next read ends the console.
HangUp ==
    /\ mode = "edit"
    /\ \E l \in {Completed} : \E cp \in {c \in Typable(l) : ByteLen[c] > 1} :
        Becomes(linenoiseEditInsert(l,
            [i \in 1 .. ByteLen[cp] |-> IF i = 1 THEN <<cp, 1>> ELSE <<"stack", 1>>]))
    /\ mode' = "hungup" /\ completion' = -1
    /\ UNCHANGED <<history, history_index, screen>>

\* TAB: the next candidate, and after the last one the line itself.
completeLine ==
    LET lc == completion_callback(buf)
        next == IF completion = -1 THEN 0 ELSE (completion + 1) % (Len(lc) + 1)
    IN  /\ mode = "edit"
        /\ \/ /\ CallbackCrashes(buf)
              /\ mode' = "crashed"
              /\ UNCHANGED <<completion, screen>>
           \/ /\ CallbackReturns(buf) /\ lc = <<>>
              /\ completion' = -1
              /\ UNCHANGED <<mode, screen>>
           \/ /\ CallbackReturns(buf) /\ lc # <<>>
              /\ completion' = next
              /\ refreshLine(IF next < Len(lc) THEN Ends(lc[next + 1]) ELSE Line)
        /\ UNCHANGED <<buf, pos, history, history_index>>

\* ESC while a candidate is shown: the line is as it was.
CancelCompletion ==
    /\ mode = "edit" /\ completion # -1
    /\ completion' = -1
    /\ refreshLine(Line)
    /\ UNCHANGED <<buf, pos, history, history_index>>

\* The copy into the line drops the last byte of an entry that fills it.
Fetched(line) == SubSeq(line, 1, Min({Len(line), buflen - 1}))

\* The line that is left is not kept.
MutNavigate(l, dir) ==
    LET next == history_index + dir
    IN  /\ UNCHANGED history
        /\ IF Len(history) > 1 /\ next \in 0 .. Len(history) - 1
           THEN history_index' = next /\ Becomes(Ends(Fetched(history[Len(history) - next])))
           ELSE Becomes(l) /\ UNCHANGED history_index

\* The line l is kept in its entry before another one is fetched.
Navigate(l, dir) ==
    LET next == history_index + dir
        entry == history'[Len(history) - next]
    IN  /\ history' = IF Len(history) = 1 THEN history
                      ELSE [history EXCEPT ![Len(history) - history_index] = l.buf]
        /\ IF Len(history) > 1 /\ next \in 0 .. Len(history) - 1
           THEN /\ history_index' = next
                /\ Becomes(Ends(Fetched(entry)))
           ELSE Becomes(l) /\ UNCHANGED history_index

\* dir is 1 for the previous line and -1 for the next one.
linenoiseEditHistoryNext(dir) ==
    /\ mode \in {"edit", "cut"}
    /\ \E l \in {Completed} : Navigate(l, dir)
    /\ completion' = -1
    /\ \/ Whole(buf') /\ refreshLine([buf |-> buf', pos |-> pos'])
       \/ ~Whole(buf') /\ mode' = "cut" /\ UNCHANGED screen

\* CTRL-U on a cut line.
DeleteCut ==
    /\ mode = "cut"
    /\ Becomes(Ends(<<>>)) /\ refreshLine(Ends(<<>>))
    /\ UNCHANGED <<history, history_index, completion>>

-----------------------------------------------------------------------------
Init ==
    /\ \E file \in HistoryFiles : history = linenoiseHistoryLoad(file)
    /\ mode = "shell"
    /\ buf = <<>> /\ pos = 0
    /\ history_index = 0 /\ completion = -1
    /\ screen = OnlyPrompt

\* The state of a line lives in the call that reads it.
NoLine ==
    /\ Becomes(Ends(<<>>))
    /\ history_index' = 0 /\ completion' = -1
    /\ screen' = OnlyPrompt

\* The last history entry stands for the line being edited.
linenoiseEditStart ==
    /\ mode = "shell"
    /\ mode' = "edit"
    /\ history' = linenoiseHistoryAdd(history, <<>>)
    /\ NoLine

\* main's work on a line: the exit line ends it, any other but the empty one
\* is sent and goes into the history, which is then saved.
main(line) ==
    /\ mode' = IF line = ExitLine THEN "left" ELSE "shell"
    /\ history' = IF line \in {<<>>, ExitLine} THEN Front(history)
                  ELSE linenoiseHistoryAdd(Front(history), line)

\* ENTER: the entry that stands for the line is popped first.
Enter == mode \in {"edit", "cut"} /\ main(Completed.buf) /\ NoLine

\* CTRL-C and end of input, or CTRL-D on an empty line: linenoise returns NULL.
Leave(ctrl_d) ==
    /\ mode \in IF ctrl_d THEN {"edit"} ELSE {"edit", "cut", "hungup"}
    /\ ctrl_d => Completed.buf = <<>>
    /\ mode' = "left"
    /\ history' = IF ctrl_d THEN Front(history) ELSE history
    /\ NoLine

Next ==
    \/ linenoiseEditStart \/ Enter
    \/ \E ctrl_d \in BOOLEAN : Leave(ctrl_d)
    \/ \E dir \in {-1, 1} : linenoiseEditHistoryNext(dir)
    \/ EditKeys \/ TransposeOverflows \/ HangUp \/ DeleteCut
    \/ completeLine \/ CancelCompletion

Spec == Init /\ [][Next]_vars

-----------------------------------------------------------------------------
(***************************************************************************)
(* Whatever keys were pressed, completions taken and history lines shown,  *)
(* the line fits its buffer, and while it is edited it holds only complete *)
(* code points with the cursor between two of them: no editing key of      *)
(* linenoise.c (linenoiseEditDelete, linenoiseEditBackspace, CTRL-T,       *)
(* CTRL-W ...) cuts a multi-byte character in two.  The one place that     *)
(* does is linenoiseEditHistoryNext, at the last byte of an entry that     *)
(* fills the buffer, and only such a line is kept in the history cut.      *)
(***************************************************************************)
CursorOnCharacter ==
    /\ Len(buf) <= buflen
    /\ mode = "edit" => Whole(buf) /\ pos \in Boundaries(buf)
    /\ mode = "cut" => Len(buf) = buflen - 1
    /\ \A i \in DOMAIN history : Whole(history[i]) \/ Len(history[i]) = buflen - 1

(***************************************************************************)
(* While a line is edited, history_index names an entry of the history     *)
(* array, so that linenoiseEditHistoryNext and the pop at ENTER never      *)
(* leave it, and linenoiseHistoryAdd never writes behind its end.          *)
(***************************************************************************)
HistoryIndexed ==
    /\ Len(history) <= history_max_len
    /\ mode \in {"edit", "cut"} => history_index \in 0 .. Len(history) - 1

\* Lines whose characters utf8StrWidth and the trimming loops count alike.
Plain(line) == \A i \in DOMAIN line : line[i][1] \notin {"joiner", "flag"}

(***************************************************************************)
(* For a line without joiners and flags, refreshSingleLine ends, what it   *)
(* writes fits on one row with its hint, and the column it moves to is the *)
(* width of the text left of the cursor, which is on the screen.           *)
(***************************************************************************)
RefreshFits ==
    Plain(buf) /\ mode \notin {"cut", "hungup"} =>
        /\ screen.ends
        /\ screen.cursor \in 0 .. Len(screen.text)
        /\ screen.poscol = utf8StrWidth(screen.text, screen.cursor)
        /\ screen.poscol < Room
        /\ screen.lencol = utf8StrWidth(screen.text, Len(screen.text))
        /\ screen.lencol + screen.hint <= Room

\* The lines a user can reach with the arrow keys, by history index.
View ==
    [i \in 0 .. Len(history) - 1 |->
        IF i = history_index THEN buf ELSE history[Len(history) - i]]

(***************************************************************************)
(* Moving through the history (linenoiseEditHistoryNext) loses no text but *)
(* the last byte of an entry that fills the buffer, when it is fetched:    *)
(* the line that is left, edited or new, is there when the user comes back *)
(* to it, and no other line changes.                                       *)
(***************************************************************************)
Moved ==
    history_index' # history_index /\ mode' \in {"edit", "cut"} /\ completion = -1
        => View' = [View EXCEPT ![history_index'] = Fetched(@)]

NavigationKeepsText == [][Moved]_vars
=============================================================================
