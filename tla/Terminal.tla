------------------------------ MODULE Terminal ------------------------------
(***************************************************************************)
(* A window on the text screen: lib/ansi_term/termbuf.c, the parser of     *)
(* escape sequences ansi_parse.c and the terminals of printk and tprintf.  *)
(* The screen is the flat array of cells at VGA_BASE, of which the window  *)
(* is a rectangle; everything else belongs to other windows.               *)
(*                                                                         *)
(* No lock protects a struct term.  Each terminal has one writer, but the  *)
(* one of printk, which all tasks use: several writers are inside          *)
(* term_putc() at once, and a switch comes between the tests and the       *)
(* stores, and between the rows that scroll() copies.                      *)
(***************************************************************************)
EXTENDS Integers, Sequences, FiniteSets

CONSTANTS
    Writers,
    Rows, Cols,             \* the screen
    StartRow, Height,       \* the window at first: TERM_INIT_VGA_WIN
    StartCol, Width,
    Modes,                  \* TERM_OF_CLIP, TERM_OF_SCROLL, TERM_OF_GROW
    ShowCursor,             \* show_cursor: only the shell's terminal
    MaxParam                \* bounds parameters, and a cursor out of bounds

CSI_MAX_PARAM == 3

VARIABLES
    screen,     \* the cells: a character, and whether in the cursor's colours
    t,          \* struct term
    parser,     \* its parser
    putc,       \* where each writer is in term_putc()
    page        \* the lines a reader should see, with one writer

terminalVars == <<screen, t, parser, putc, page>>

Cells == 0 .. Rows * Cols - 1
Other == [ch |-> "other", cursor |-> FALSE]
Blank == [ch |-> "", cursor |-> FALSE]
BlankLine == [c \in 0 .. Width - 1 |-> ""]

\* term_ptr() and is_in_bounds().
term_ptr(row, col) == (t.start_row + row) * Cols + StartCol + col
InBounds(row, col) == row \in 0 .. t.height - 1 /\ col \in 0 .. Width - 1

NoParams ==
    [state |-> "ready", param |-> [i \in 1 .. CSI_MAX_PARAM |-> 0], num |-> 1]

Init ==
    /\ t \in [start_row : {StartRow}, height : {Height}, row : {0}, col : {0},
              overflow : Modes, cursor_visible : {FALSE}]
    /\ screen = [a \in Cells |->
          IF \E r \in 0 .. Height - 1, c \in 0 .. Width - 1 : a = term_ptr(r, c)
          THEN Blank ELSE Other]
    /\ parser = NoParams
    /\ putc = [w \in Writers |-> [at |-> "idle"]]
    /\ page = [r \in 1 .. Height |-> BlankLine]

At(w, place) == putc[w].at = place
To(w, f) == putc' = [putc EXCEPT ![w] = f]

setccAnywhere(s, row, col, cell) ==
    IF term_ptr(row, col) \in Cells THEN [s EXCEPT ![term_ptr(row, col)] = cell] ELSE s

\* setcc(), and setcolor(), which keeps the character.
setcc(s, row, col, cell) ==
    IF InBounds(row, col) THEN [s EXCEPT ![term_ptr(row, col)] = cell] ELSE s
setcolor(s, row, col, cursor) ==
    IF InBounds(row, col)
    THEN [s EXCEPT ![term_ptr(row, col)].cursor = cursor] ELSE s

\* erase_rows() and the loop of erase_line().
Erase(s, rows, cols) ==
    [a \in Cells |->
        IF \E r \in rows, c \in cols : InBounds(r, c) /\ a = term_ptr(r, c)
        THEN Blank ELSE s[a]]

\* clear_cursor(), the start of every term_putc().
Cleared == IF t.cursor_visible THEN setcolor(screen, t.row, t.col, FALSE) ELSE screen
Hidden == [t EXCEPT !.cursor_visible = FALSE]

\* The page is kept for a single writer: what it shows is not defined when
\* the texts of several mix.
Page(p) == page' = IF Cardinality(Writers) = 1 THEN p ELSE page
Put(p, row, col, ch) ==
    IF InBounds(row, col) THEN [p EXCEPT ![row + 1][col] = ch] ELSE p
Erased(rows, cols) ==
    [r \in DOMAIN page |-> [c \in DOMAIN page[r] |->
        IF r - 1 \in rows /\ c \in cols THEN "" ELSE page[r][c]]]

-----------------------------------------------------------------------------
(* Escape sequences *)

\* start_esc() and start_csi().
Escape(w) ==
    /\ At(w, "idle") /\ parser.state = "ready"
    /\ parser' = [NoParams EXCEPT !.state = "esc"]
    /\ screen' = Cleared /\ t' = Hidden
    /\ UNCHANGED <<putc, page>>

\* After an escape everything but '[' is dropped, and the state kept.
Bracket(w) ==
    /\ At(w, "idle") /\ parser.state = "esc"
    /\ parser' = [parser EXCEPT !.state = "param"]
    /\ UNCHANGED <<screen, t, putc, page>>

\* parameter_byte(): a digit, ';', or a character between them.
Digit(w, d) ==
    /\ At(w, "idle") /\ parser.state = "param"
    /\ parser.num <= CSI_MAX_PARAM
    /\ parser.param[parser.num] * 10 + d <= MaxParam
    /\ parser' = [parser EXCEPT !.param[parser.num] = @ * 10 + d]
    /\ UNCHANGED <<screen, t, putc, page>>
Semicolon(w) ==
    /\ At(w, "idle") /\ parser.state = "param"
    /\ parser.num <= CSI_MAX_PARAM
    /\ parser' = [parser EXCEPT !.num = @ + 1]
    /\ UNCHANGED <<screen, t, putc, page>>

\* Neither a parameter nor a final byte: the parameters are over, and until a
\* final byte comes everything is dropped.
Intermediate(w) ==
    /\ At(w, "idle") /\ parser.state = "param"
    /\ parser' = [parser EXCEPT !.state = "intermediate"]
    /\ UNCHANGED <<screen, t, putc, page>>

\* The lines and columns that erase_line() and erase_display() clear in mode
\* n: ANSI_EFWD, ANSI_EBACK, ANSI_EFULL.
LineColumns(n) ==
    CASE n = 0 -> t.col .. Width - 1
      [] n = 1 -> 0 .. t.col - 1
      [] n = 2 -> 0 .. Width - 1
      [] OTHER -> {}
DisplayRows(n) ==
    CASE n = 0 -> t.row + 1 .. t.height - 1
      [] n = 1 -> 0 .. t.row - 1
      [] n = 2 -> 0 .. t.height - 1
      [] OTHER -> {}

ansi_pos_param(i) == IF parser.param[i] = 0 THEN 0 ELSE parser.param[i] - 1

\* final_byte() and execute_ansi_escape().  The next escape would clear the
\* parameters; here they are forgotten at once.
Final(w, cmd) ==
    LET n == parser.param[1] IN
    /\ At(w, "idle") /\ parser.state \in {"param", "intermediate"}
    /\ parser' = NoParams
    /\ \/ /\ cmd = "CUP"
          /\ t' = [t EXCEPT !.row = ansi_pos_param(1), !.col = ansi_pos_param(2)]
          /\ UNCHANGED <<screen, page>>
       \/ /\ cmd = "EL"
          /\ screen' = Erase(screen, {t.row}, LineColumns(n))
          /\ Page(Erased({t.row}, LineColumns(n)))
          /\ UNCHANGED t
       \/ /\ cmd = "ED"
          /\ screen' = Erase(Erase(screen, {t.row}, LineColumns(n)),
                             DisplayRows(n), 0 .. Width - 1)
          /\ Page([r \in DOMAIN page |->
                      IF r - 1 \in DisplayRows(n) THEN BlankLine
                      ELSE Erased({t.row}, LineColumns(n))[r]])
          /\ UNCHANGED t
       \/ cmd = "unknown" /\ UNCHANGED <<screen, t, page>>
    /\ UNCHANGED putc

-----------------------------------------------------------------------------
(* Characters *)

\* term_putc() of a character that belongs to no escape sequence.
Putc(w, ch) ==
    /\ At(w, "idle") /\ parser.state = "ready"
    /\ t.row \in -1 .. MaxParam /\ t.col <= MaxParam
    /\ screen' = Cleared /\ t' = Hidden
    /\ To(w, [at |-> "bounds", then |-> "char", ch |-> ch])
    /\ UNCHANGED <<parser, page>>

\* move_cursor_into_bounds(): the end of a line wraps, the end of the window
\* overflows.  It is called before the character and for the cursor after it.
IntoBounds(w) ==
    /\ At(w, "bounds")
    /\ LET wrap == t.overflow # "clip" /\ t.col >= Width IN
       /\ t' = IF wrap THEN [t EXCEPT !.row = @ + 1, !.col = 0] ELSE t
       /\ To(w, [putc[w] EXCEPT !.at =
             IF t.overflow # "clip" /\ t'.row >= t.height
             THEN "overflow" ELSE putc[w].then])
    /\ UNCHANGED <<screen, parser, page>>

\* overflow(): how many rows too far, and a scroll by as many; or by one for
\* each row the window can grow upwards, with the cursor a row further down.
Overflow(w) ==
    LET row_ct == t.row - t.height + 1
        grows == t.overflow = "grow" /\ t.start_row > 0
    IN  /\ At(w, "overflow")
        /\ IF row_ct <= 0
           THEN To(w, [putc[w] EXCEPT !.at = putc[w].then]) /\ UNCHANGED <<t, page>>
           ELSE /\ t' = IF grows THEN [t EXCEPT !.start_row = @ - 1,
                                                !.height = @ + 1, !.row = @ + 1]
                        ELSE t
                /\ Page(IF grows THEN <<BlankLine>> \o page ELSE page)
                /\ To(w, [at |-> "scroll", then |-> putc[w].then, ch |-> putc[w].ch,
                          r |-> 0, row_ct |-> IF grows THEN 1 ELSE row_ct])
        /\ UNCHANGED <<screen, parser>>

\* scroll(): a row at a time (memcpy), then the rows at the bottom are blank
\* and the cursor goes up.  GROW goes round its loop.
CopyRow(w) ==
    LET p == putc[w] IN
    /\ At(w, "scroll") /\ p.r + p.row_ct < t.height
    /\ screen' = [a \in Cells |->
          IF \E c \in 0 .. Width - 1 : a = term_ptr(p.r, c)
          THEN screen[a + p.row_ct * Cols] ELSE screen[a]]
    /\ To(w, [p EXCEPT !.r = @ + 1])
    /\ UNCHANGED <<t, parser, page>>
Scrolled(w) ==
    LET p == putc[w]
        n == IF p.row_ct < t.height THEN p.row_ct ELSE t.height
    IN  /\ At(w, "scroll") /\ p.r + p.row_ct >= t.height
        /\ screen' = Erase(screen, p.r .. t.height - 1, 0 .. Width - 1)
        /\ Page(SubSeq(page, n + 1, Len(page)) \o [i \in 1 .. n |-> BlankLine])
        /\ t' = [t EXCEPT !.row = @ - p.row_ct]
        /\ To(w, [at |-> IF t.overflow = "grow" THEN "overflow" ELSE p.then,
                  then |-> p.then, ch |-> p.ch])
        /\ UNCHANGED parser

\* Where backspace() goes.
Before ==
    IF t.col > 0 THEN <<t.row, t.col - 1>>
    ELSE IF t.row = 0 THEN <<0, 0>> ELSE <<t.row - 1, Width - 1>>

\* The character itself, and the first half of write_cursor().
Char(w) ==
    LET ch == putc[w].ch IN
    /\ At(w, "char")
    /\ CASE ch = "newline" -> /\ t' = [t EXCEPT !.row = @ + 1, !.col = 0]
                         /\ UNCHANGED <<screen, page>>
         [] ch = "return" -> t' = [t EXCEPT !.col = 0] /\ UNCHANGED <<screen, page>>
         [] ch = "backspace" -> IF t.row = 0 /\ t.col = 0
                         THEN UNCHANGED <<t, screen, page>>
                         ELSE /\ t' = [t EXCEPT !.row = Before[1], !.col = Before[2]]
                              /\ screen' = setcc(screen, Before[1], Before[2], Blank)
                              /\ Page(Put(page, Before[1], Before[2], ""))
         [] OTHER -> /\ screen' = setcc(screen, t.row, t.col,
                                        [ch |-> ch, cursor |-> FALSE])
                     /\ Page(Put(page, t.row, t.col, ch))
                     /\ t' = [t EXCEPT !.col = @ + 1]
    /\ To(w, IF ShowCursor THEN [at |-> "bounds", then |-> "cursor", ch |-> ""]
             ELSE [at |-> "idle"])
    /\ UNCHANGED parser

Cursor(w) ==
    /\ At(w, "cursor")
    /\ screen' = setcolor(screen, t.row, t.col, TRUE)
    /\ t' = [t EXCEPT !.cursor_visible = TRUE]
    /\ To(w, [at |-> "idle"])
    /\ UNCHANGED <<parser, page>>

\* vkprintf() with LOG_DUMP.
Dump(w) ==
    /\ At(w, "idle") /\ "grow" \in Modes
    /\ t' = [t EXCEPT !.overflow = "grow"]
    /\ UNCHANGED <<screen, parser, putc, page>>

Next ==
    \E w \in Writers :
        \/ Escape(w) \/ Bracket(w) \/ Semicolon(w) \/ Intermediate(w) \/ Dump(w)
        \/ \E d \in 0 .. 9 : Digit(w, d)
        \/ \E cmd \in {"CUP", "EL", "ED", "unknown"} : Final(w, cmd)
        \/ \E ch \in {"a", "newline", "return", "backspace"} : Putc(w, ch)
        \/ IntoBounds(w) \/ Overflow(w) \/ CopyRow(w) \/ Scrolled(w)
        \/ Char(w) \/ Cursor(w)

Spec == Init /\ [][Next]_terminalVars

-----------------------------------------------------------------------------
(* Properties *)

InWindow(a) ==
    \E r \in 0 .. t.height - 1, c \in 0 .. Width - 1 : a = term_ptr(r, c)

\* The window stays on the screen and the cells of the other windows are never
\* written, even when tasks that print with printk interrupt one another
\* between a test and the store it is for, or in the middle of a scroll.
OthersUntouched ==
    /\ t.start_row >= 0 /\ t.start_row + t.height <= Rows
    /\ \A a \in Cells : ~InWindow(a) => screen[a] = Other

\* Between two characters the window shows the page: the last lines written,
\* the old ones scrolled away, with what the erase sequences and backspaces
\* removed gone; and the only cell in the cursor's colours is the one where
\* the cursor is, although scrolling moves cells and not the cursor.
ShowsPage ==
    (\A w \in Writers : At(w, "idle")) /\ Cardinality(Writers) = 1 =>
        /\ Len(page) = t.height
        /\ \A r \in 0 .. t.height - 1, c \in 0 .. Width - 1 :
              screen[term_ptr(r, c)] =
                  [ch |-> page[r + 1][c],
                   cursor |-> t.cursor_visible /\ t.row = r /\ t.col = c]
=============================================================================
