----------------------------- MODULE ChatView -----------------------------
(***************************************************************************)
(* The pane with the conversation: how a text is broken into lines         *)
(* (src/core/utf8.c) and how the messages are laid out from the bottom up  *)
(* (chat_render in src/core/chat.c).                                       *)
(*                                                                         *)
(* A text is a sequence of characters, of which utf8_cwidth counts Wide as *)
(* two columns and the others as one, and curses draws a Tab up to the     *)
(* next multiple of eight; other control characters are left out.          *)
(* Positions in it are counted from 1, rows and columns of the pane from   *)
(* 0.  What curses does with a character and with the cursor is external.  *)
(***************************************************************************)
EXTENDS Integers, Sequences, FiniteSets, FiniteSetsExt, SequencesExt

CONSTANTS
    Prefix,        \* columns of "You: " and "Assistant: "
    LoadedTexts,   \* bound: texts of the message a stored session has
    NewTexts,      \* bound: texts of further messages
    MaxMsgs,       \* bound: messages
    PaneSizes      \* bound: widths and heights of the pane

Narrow == "a"
Wide == "W"
Space == " "
Tab == "\t"
Newline == "\n"
Character == {Narrow, Wide, Space, Tab, Newline}
Blanks == {Space, Tab}

ASSUME ViewAssumption ==
    /\ DOMAIN Prefix = {"user", "assistant"}
    /\ \A who \in DOMAIN Prefix : Prefix[who] \in Nat
    /\ LoadedTexts \cup NewTexts \subseteq Seq(Character)
    /\ \A s \in PaneSizes : s.w \in Nat \ {0} /\ s.h \in Nat \ {0}

VARIABLES msgs, scroll, waiting, size
viewVars == <<msgs, scroll, waiting, size>>

-----------------------------------------------------------------------------
(* Line breaking.                                                          *)

\* The columns of text[from..p - 1]; utf8_cwidth.
Columns(text, from, p) == (p - from) + Cardinality({i \in from..p - 1 : text[i] = Wide})

\* Where a line that holds text[from..stop - 1] ends, and where the next one
\* starts: if stop does not fit, at its last blank, but never at its first
\* character; the blanks from there on are dropped.
LineTo(text, from, stop) ==
    LET n == Len(text)
        blanks == {p \in from + 1..stop - 1 : text[p] \in Blanks}
    IN  IF stop <= n /\ text[stop] = Newline THEN [end |-> stop, next |-> stop + 1]
        ELSE IF stop = n + 1 \/ blanks = {} THEN [end |-> stop, next |-> stop]
        ELSE [end |-> Max(blanks),
              next |-> Min({p \in Max(blanks)..n + 1 : p = n + 1 \/ text[p] \notin Blanks})]

\* The faulty variant leaves the last column free.
wrap_line_end_early(text, from, avail) ==
    LineTo(text, from,
           Min({p \in from..Len(text) + 1 : p = Len(text) + 1 \/ text[p] = Newline
                                             \/ Columns(text, from, p + 1) >= avail}))

\* The line that starts at from, in avail columns.
wrap_line_end(text, from, avail) ==
    LineTo(text, from,
           Min({p \in from..Len(text) + 1 : p = Len(text) + 1 \/ text[p] = Newline
                                             \/ Columns(text, from, p + 1) > avail}))

\* The lines of a text.  Where a line takes no character the loop never ends;
\* here that line is the last.
Wrap(text, x, width) ==
    LET avail == Max({1, width - x})
        Lines[p \in 1..Len(text) + 1] ==
            IF p = Len(text) + 1 THEN <<>>
            ELSE LET l == wrap_line_end(text, p, avail)
                 IN  <<[from |-> p, end |-> l.end, next |-> l.next]>>
                     \o (IF l.next = p THEN <<>> ELSE Lines[l.next])
    IN  Lines[1]
Endless(lines) == \E l \in ToSet(lines) : l.next = l.from

\* The faulty variant forgets the room the prefix takes.
count_rows_flush(text, x, width) == Max({1, Len(Wrap(text, 0, width))})

count_rows(text, x, width) == Max({1, Len(Wrap(text, x, width))})

-----------------------------------------------------------------------------
(* The layout: chat_render goes from the newest message that is not        *)
(* scrolled out upwards, first counting the rows of a message and then     *)
(* drawing it.                                                             *)

Start == Len(msgs) - scroll
PrefixOf(i) == Prefix[IF msgs[i].is_user THEN "user" ELSE "assistant"]

\* The row y is at when message i has been counted.
After == LET Y[i \in 1..Start + 1] ==
                 IF i = Start + 1 THEN size.h - 1
                 ELSE Y[i + 1] - count_rows(msgs[i].text, PrefixOf(i), size.w)
         IN  Y

\* The messages counted and drawn, y being After.
Reached(y) == {i \in 1..Start : y[i + 1] >= 0}
Rendered(y) == {i \in Reached(y) : y[i] >= -1}

\* The row a message begins on.
Top(y, i) == Max({0, y[i]})

\* count_rows does not return: the TUI shows nothing any more and reads no
\* key.
Hung == \E i \in Reached(After) : Endless(Wrap(msgs[i].text, PrefixOf(i), size.w))

-----------------------------------------------------------------------------
(* The drawing.                                                            *)

\* Where curses puts a character when the cursor is at c, and where the cursor
\* is then: what does not fit a row goes to the next one.
Cell(char, c) ==
    IF char = Wide /\ c.col + 2 > size.w THEN [row |-> c.row + 1, col |-> 0] ELSE c
Advance(char, c) ==
    LET at == Cell(char, c)
        col == CASE char = Wide -> at.col + 2
                 [] char = Tab -> 8 * (at.col \div 8 + 1)
                 [] OTHER -> at.col + 1
    IN  IF col < size.w THEN [row |-> at.row, col |-> col]
                        ELSE [row |-> at.row + 1, col |-> 0]

\* The cursor at each character of a line, and at its end, if at c before it.
Cursors(text, l, c) ==
    LET C[p \in l.from..l.end] ==
            IF p = l.from THEN c ELSE Advance(text[p - 1], C[p - 1])
    IN  C

\* Nothing is put below the pane: the cursor stays in its last cell.
Held(c) == IF c.row < size.h THEN c ELSE [row |-> size.h - 1, col |-> size.w - 1]

\* render_wrapped: the cursor at the start of line k, below the row top; wmove
\* fails in a pane that ends before the text's column, and leaves the cursor
\* behind what was drawn last.
LineStart(i, top, k) ==
    LET text == msgs[i].text
        x == PrefixOf(i)
        lines == Wrap(text, x, size.w)
        Left[j \in 0..Len(lines)] ==
            IF j = 0 THEN Held([row |-> top + x \div size.w, col |-> x % size.w])
            ELSE Held(Cursors(text, lines[j], Left[j - 1])[lines[j].end])
    IN  IF x < size.w THEN [row |-> top + k - 1, col |-> x] ELSE Left[k - 1]

\* Where the characters of line k of message i are put.
Drawn(i, top, k) ==
    LET text == msgs[i].text
        l == Wrap(text, PrefixOf(i), size.w)[k]
        at == Cursors(text, l, LineStart(i, top, k))
    IN  [p \in l.from..l.end - 1 |-> Cell(text[p], at[p])]

\* The lines render_wrapped gets to, from the row top on.
LinesDrawn(i, top) ==
    {k \in DOMAIN Wrap(msgs[i].text, PrefixOf(i), size.w) : top + k - 1 < size.h}

\* The rows of the pane with something of message i: its prefix, or a
\* character.
RowsOf(i, y) ==
    LET top == Top(y, i)
    IN  {r \in 0..size.h - 1 :
            \/ \E c \in 0..PrefixOf(i) - 1 : r = top + c \div size.w
            \/ \E k \in LinesDrawn(i, top) :
                  \E p \in DOMAIN Drawn(i, top, k) : Drawn(i, top, k)[p].row = r}

-----------------------------------------------------------------------------
(* What the user and the replies do to the pane.                           *)

Message(u, t) == [is_user |-> u, text |-> t]
Placeholder == Message(FALSE, <<Narrow, Narrow, Narrow>>)

\* submit_text, submit_message.
Submit(t) ==
    /\ ~Hung /\ ~waiting /\ Len(msgs) + 2 <= MaxMsgs
    /\ msgs' = msgs \o <<Message(TRUE, t), Placeholder>>
    /\ waiting' = TRUE
    /\ UNCHANGED <<scroll, size>>

\* check_ipc: the reply takes the placeholder's place and scrolls down to it;
\* an error does not scroll.
Answer(t, final) ==
    /\ ~Hung /\ waiting
    /\ msgs' = Append(Front(msgs), Message(FALSE, t))
    /\ scroll' = IF final THEN 0 ELSE scroll
    /\ waiting' = FALSE
    /\ UNCHANGED size

\* The faulty variant does not stop at the newest message.
chat_scroll_past(delta) ==
    /\ ~Hung
    /\ scroll' = IF scroll + delta > Len(msgs) THEN Len(msgs) ELSE scroll + delta
    /\ UNCHANGED <<msgs, waiting, size>>

\* chat_scroll, on PgUp and PgDn.
chat_scroll(delta) ==
    /\ ~Hung
    /\ scroll' = IF scroll + delta < 0 THEN 0
                 ELSE IF scroll + delta > Len(msgs) THEN Len(msgs) ELSE scroll + delta
    /\ UNCHANGED <<msgs, waiting, size>>

\* handle_resize; the windows are made anew, and drawn.
handle_resize ==
    /\ ~Hung
    /\ size' \in PaneSizes
    /\ UNCHANGED <<msgs, scroll, waiting>>

ViewInit ==
    /\ msgs \in {<<Message(u, t)>> : u \in BOOLEAN, t \in LoadedTexts}
    /\ scroll = 0
    /\ waiting = FALSE
    /\ size \in PaneSizes

ViewNext ==
    \/ \E t \in NewTexts : Submit(t)
    \/ \E t \in NewTexts, final \in BOOLEAN : Answer(t, final)
    \/ \E delta \in {-3, 3} : chat_scroll(delta)
    \/ handle_resize

ViewSpec == ViewInit /\ [][ViewNext]_viewVars

-----------------------------------------------------------------------------
(* Properties.                                                             *)

ViewTypeOK ==
    /\ msgs \in Seq([is_user : BOOLEAN, text : Seq(Character)])
    /\ scroll \in 0..Len(msgs)
    /\ waiting \in BOOLEAN
    /\ size \in PaneSizes

\* The end of the blank at p, or of the word at p and the blank after it.
WordEnd(text, p) ==
    Min({q \in p + 1..Len(text) + 1 : q = Len(text) + 1 \/ text[q - 1] \in Blanks
                                                       \/ text[q] = Newline})

\* Every character of a text is on one of its lines, but for a line's final
\* newline and the blanks it is broken at; no line is too wide; a line is
\* broken only where the next word, with the blank after it, does not fit, and
\* in the middle of a word only if there is no blank to break it at but one it
\* begins with.  Breaking never ends only if a wide character meets a single
\* column (utf8.c:38).
WrapFaithful ==
    \A i \in DOMAIN msgs :
        LET text == msgs[i].text
            avail == Max({1, size.w - PrefixOf(i)})
            lines == Wrap(text, PrefixOf(i), size.w)
        IN  IF Endless(lines)
            THEN avail = 1 /\ text[lines[Len(lines)].from] = Wide
            ELSE /\ \A k \in DOMAIN lines :
                      lines[k].from = IF k = 1 THEN 1 ELSE lines[k - 1].next
                 /\ (IF lines = <<>> THEN 1 ELSE lines[Len(lines)].next) = Len(text) + 1
                 /\ \A l \in ToSet(lines) :
                      /\ Columns(text, l.from, l.end) <= avail
                      /\ \A p \in l.from..l.end - 1 : text[p] # Newline
                      /\ \/ l.next = l.end + 1 /\ text[l.end] = Newline
                         \/ \A p \in l.end..l.next - 1 : text[p] \in Blanks
                      /\ l.next <= Len(text) /\ text[l.next - 1] # Newline =>
                            Columns(text, l.from, WordEnd(text, l.next)) > avail
                      /\ l.next = l.end /\ l.next <= Len(text) =>
                            \A p \in l.from + 1..l.end - 1 : text[p] \notin Blanks

\* A message has a row of its own for each of its lines, and one if it has
\* none.
OwnRows(y, i) ==
    Top(y, i)..Top(y, i) + Max({1, Len(Wrap(msgs[i].text, PrefixOf(i), size.w))}) - 1

\* Curses draws the message as its lines are counted: they begin in the pane,
\* and it has no tab.
Plain(i) == PrefixOf(i) < size.w /\ \A p \in DOMAIN msgs[i].text : msgs[i].text[p] # Tab

\* What is drawn are the newest messages that are not scrolled out, without a
\* gap, down to the last row but one: one message has its rows directly above
\* the next, but that the topmost may share a row with the next when only its
\* last row is left over, and a message is left out only if the pane has no
\* room for it and those below it (chat.c:155).  Where curses counts as
\* utf8_cwidth does, a message is drawn on no row but its own: each character
\* on the row of its line, as far behind the prefix as the columns before it
\* reach.
PaneFaithful ==
    LET y == After
        drawn == Rendered(y)
        first == IF drawn = {} THEN Start + 1 ELSE Min(drawn)
        below(i) == IF i = Start THEN size.h - 1 ELSE Top(y, i + 1)
    IN  ~Hung =>
        /\ drawn = first..Start
        /\ \A i \in drawn :
            /\ Max(OwnRows(y, i)) = below(i) - (IF y[i] = -1 THEN 0 ELSE 1)
            /\ y[i] = -1 => i = first
        /\ \A i \in drawn : Plain(i) =>
            /\ RowsOf(i, y) \subseteq OwnRows(y, i)
            /\ \A k \in LinesDrawn(i, Top(y, i)) :
                LET l == Wrap(msgs[i].text, PrefixOf(i), size.w)[k]
                IN  Drawn(i, Top(y, i), k) =
                        [p \in l.from..l.end - 1 |->
                            [row |-> Top(y, i) + k - 1,
                             col |-> PrefixOf(i) + Columns(msgs[i].text, l.from, p)]]
        /\ first > 1 =>
            count_rows(msgs[first - 1].text, PrefixOf(first - 1), size.w) > y[first] + 1

\* src/core/utf8.h:22 says of count_rows "Count display rows for text without
\* rendering", and chat.c:151 asks it "How many rows does this message
\* occupy?": a message is drawn on no more rows than were counted for it.
DrawnAsCounted ==
    LET y == After
    IN  ~Hung =>
        \A i \in Rendered(y) :
            RowsOf(i, y) \subseteq
                Top(y, i)..Top(y, i) + count_rows(msgs[i].text, PrefixOf(i), size.w) - 1
=============================================================================
