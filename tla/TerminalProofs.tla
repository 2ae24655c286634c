--------------------------- MODULE TerminalProofs ---------------------------
(***************************************************************************)
(* The text console stays on its screen and shows what was written, for    *)
(* every size of it, every text and every report, and at whatever point an *)
(* exception takes over.                                                   *)
(***************************************************************************)
EXTENDS Terminal, TLAPS, WellFoundedInduction

(* The report's first character is still to be written. *)
Fresh == who = "exception" /\ todo = Report

(***************************************************************************)
(* Where the next character goes.  Behind the last row only the first      *)
(* column is ever waited in; behind the last column, only an exception's   *)
(* first character finds itself, which came before a full row was wrapped. *)
(***************************************************************************)
Vertical ==
    /\ pc \in {"begin", "move_cursor"} /\ current_ypos = max_ypos => current_xpos = 0
    /\ pc \in {"scroll", "scrolled"} => current_ypos = max_ypos /\ current_xpos = 0
    /\ pc \in {"place", "store", "wrap", "next_row"} => current_ypos < max_ypos

Horizontal ==
    /\ pc = "next_row" => current_xpos = 0
    /\ pc = "move_cursor" => current_xpos < max_xpos
    /\ pc \in {"begin", "place"} =>
           current_xpos < max_xpos \/ (Fresh /\ current_xpos = max_xpos)
    /\ pc \in {"store", "wrap"} =>
           /\ current_xpos \in 1 .. max_xpos \/ (Fresh /\ current_xpos = max_xpos + 1)
           /\ at = max_xpos * current_ypos + (current_xpos - 1)

Progress ==
    /\ pc # "begin" => todo # <<>>
    /\ pc = "scroll" => k \in 1 .. max_ypos

IInv == Confined /\ Vertical /\ Horizontal /\ Progress

-----------------------------------------------------------------------------
LEMMA Sizes ==
    /\ max_xpos \in Nat \ {0} /\ max_ypos \in Nat \ {0}
    /\ Size \in Nat /\ max_xpos <= Size
<1>1. max_xpos \in Nat \ {0} /\ max_ypos \in Nat \ {0}
  BY TerminalAssumption
<1>2. max_xpos * max_ypos \in Nat /\ max_xpos <= max_xpos * max_ypos
  BY <1>1
<1> QED BY <1>1, <1>2 DEF Size

(* A row and a column of the screen, or the column behind it, as a cell. *)
LEMMA CellOnScreen ==
    ASSUME NEW y \in Nat, y < max_ypos
    PROVE  /\ max_xpos * y \in Nat /\ max_xpos * y + max_xpos <= Size
           /\ y * max_xpos = max_xpos * y
<1> DEFINE a == max_xpos * y
<1>1. max_xpos \in Nat \ {0} /\ max_ypos \in Nat
  BY TerminalAssumption
<1>2. a \in Nat /\ y * max_xpos = a
  BY <1>1
<1>3. max_xpos * (y + 1) = a + max_xpos
  BY <1>1
<1>4. max_xpos * (y + 1) <= max_xpos * max_ypos
  BY <1>1
<1> QED BY <1>1, <1>2, <1>3, <1>4 DEF Size

(* The cells of a row of the screen lie on the screen. *)
LEMMA RowOnScreen ==
    ASSUME NEW i \in Nat, NEW r \in Nat, r < max_ypos, i \div max_xpos = r
    PROVE  i < Size /\ (r + 1 < max_ypos => i + max_xpos < Size)
<1>1. max_xpos \in Nat \ {0} /\ max_ypos \in Nat
  BY TerminalAssumption
<1>2. i < max_xpos * r + max_xpos
  BY <1>1
<1>3. /\ max_xpos * r \in Nat /\ max_xpos * r + max_xpos <= Size
  BY CellOnScreen
<1>4. r + 1 < max_ypos => max_xpos * (r + 1) + max_xpos <= Size
  BY CellOnScreen
<1>5. max_xpos * (r + 1) = max_xpos * r + max_xpos
  BY <1>1
<1> HIDE DEF Size
<1>6. Size \in Nat
  BY Sizes
<1> QED BY <1>1, <1>2, <1>3, <1>4, <1>5, <1>6

-----------------------------------------------------------------------------
LEMMA InitConfined == Init => IInv
<1> SUFFICES ASSUME Init PROVE IInv
  OBVIOUS
<1> USE Sizes
<1>1. cells \in [0 .. Size + max_xpos - 1 -> Characters \cup {Blank, Junk}]
  BY DEF Init
<1>2. todo \in Seq(Characters \cup {Blank})
  BY DEF Init
<1>3. text \in Seq(Glyphs \cup {"\n", "\r"})
  BY DEF Init
<1>4. TypeOK
  BY <1>1, <1>2, <1>3 DEF Init, TypeOK
<1>5. \A i \in Size .. Size + max_xpos - 1 : cells[i] = Junk
  BY DEF Init
<1>6. Confined
  BY <1>4, <1>5 DEF Confined
<1>7. Vertical /\ Horizontal /\ Progress
  BY DEF Init, Vertical, Horizontal, Progress
<1> QED BY <1>6, <1>7 DEF IInv

LEMMA Positions ==
    ASSUME IInv
    PROVE  /\ current_xpos \in 0 .. max_xpos + 1 /\ current_ypos \in 0 .. max_ypos
           /\ cursor \in 0 .. Size /\ at \in 0 .. Size /\ k \in 0 .. max_ypos
           /\ todo \in Seq(Characters \cup {Blank})
           /\ who \in {"setup", "kernel", "exception"}
           /\ pc \in {"begin", "scroll", "scrolled", "place", "store", "wrap", "next_row",
                     "move_cursor"}
           /\ Vertical /\ Horizontal /\ Progress
BY DEF IInv, Confined, TypeOK

(* A step that stores nothing and prints nothing new. *)
LEMMA CellsKept ==
    ASSUME IInv, UNCHANGED <<cells, text>>,
           who = "exception" => who' = "exception",
           who' \in {"setup", "kernel", "exception"},
           current_xpos' \in 0 .. max_xpos + 1, current_ypos' \in 0 .. max_ypos,
           cursor' \in 0 .. Size, todo' \in Seq(Characters \cup {Blank}),
           pc' \in {"begin", "scroll", "scrolled", "place", "store", "wrap", "next_row",
                    "move_cursor"},
           k' \in 0 .. max_ypos, at' \in 0 .. Size
    PROVE  Confined'
<1>1. TypeOK'
  BY DEF IInv, Confined, TypeOK
<1> QED BY <1>1 DEF IInv, Confined

LEMMA ScrollKeeps == ASSUME IInv, ScrollRow \/ BlankLastRow PROVE IInv'
<1>1. /\ pc = "scroll" /\ k \in 1 .. max_ypos
      /\ UNCHANGED <<current_xpos, current_ypos, cursor, who, todo, at, text>>
  BY DEF IInv, Progress, ScrollRow, BlankLastRow, position
<1>2. cells \in [0 .. Size + max_xpos - 1 -> Characters \cup {Blank, Junk}]
  BY DEF IInv, Confined, TypeOK
<1>3. /\ cells' \in [0 .. Size + max_xpos - 1 -> Characters \cup {Blank, Junk}]
      /\ \A i \in Size .. Size + max_xpos - 1 : cells'[i] = cells[i]
  <2> DEFINE Cell == 0 .. Size + max_xpos - 1
  <2>1. Size \in Nat /\ max_xpos \in Nat /\ max_ypos \in Nat /\ DOMAIN cells = Cell
    BY <1>2, Sizes
  <2>2. ASSUME NEW i \in Cell, i \div max_xpos = k - 1
        PROVE  i < Size /\ (k < max_ypos => i + max_xpos \in Cell)
    <3>1. i \in Nat /\ k - 1 \in Nat /\ k - 1 < max_ypos /\ ((k - 1) + 1 < max_ypos <=> k < max_ypos)
      BY <1>1, <2>1
    <3>2. i < Size /\ ((k - 1) + 1 < max_ypos => i + max_xpos < Size)
      BY <2>2, <3>1, RowOnScreen
    <3> HIDE DEF Size
    <3> QED BY <2>1, <3>1, <3>2
  <2> HIDE DEF Size
  <2>3. CASE ScrollRow
    <3>1. /\ k < max_ypos
          /\ cells' = [i \in Cell |->
                         IF i \div max_xpos = k - 1 THEN cells[i + max_xpos] ELSE cells[i]]
      BY <2>1, <2>3 DEF ScrollRow
    <3> HIDE DEF Cell
    <3>2. cells' \in [Cell -> Characters \cup {Blank, Junk}]
      BY <1>2, <2>2, <3>1 DEF Cell
    <3>3. ASSUME NEW i \in Size .. Size + max_xpos - 1 PROVE cells'[i] = cells[i]
      <4>1. i \in Cell /\ ~ i < Size
        BY <2>1 DEF Cell
      <4> QED BY <2>2, <3>1, <4>1
    <3> QED BY <3>2, <3>3 DEF Cell
  <2>4. CASE BlankLastRow
    <3>1. cells' = [i \in Cell |-> IF i \div max_xpos = k - 1 THEN Blank ELSE cells[i]]
      BY <2>1, <2>4 DEF BlankLastRow
    <3> HIDE DEF Cell
    <3>2. cells' \in [Cell -> Characters \cup {Blank, Junk}]
      BY <1>2, <3>1 DEF Cell
    <3>3. ASSUME NEW i \in Size .. Size + max_xpos - 1 PROVE cells'[i] = cells[i]
      <4>1. i \in Cell /\ ~ i < Size
        BY <2>1 DEF Cell
      <4> QED BY <2>2, <3>1, <4>1
    <3> QED BY <3>2, <3>3 DEF Cell
  <2> QED BY <2>3, <2>4
<1>4. (pc' = "scroll" /\ k' \in 1 .. max_ypos) \/ (pc' = "scrolled" /\ k' = k)
  BY <1>1, Sizes DEF ScrollRow, BlankLastRow
<1>5. Confined'
  <2>1. pc' \in {"scroll", "scrolled"} /\ k' \in 0 .. max_ypos
    BY <1>1, <1>4, Sizes
  <2>2. TypeOK'
    BY <1>1, <1>3, <2>1 DEF IInv, Confined, TypeOK
  <2>3. \A i \in Size .. Size + max_xpos - 1 :
           cells'[i] # Junk => i = Size /\ who' = "exception" /\ cells'[i] = Head(Report)
    BY <1>1, <1>3 DEF IInv, Confined
  <2> QED BY <2>2, <2>3 DEF Confined
<1>6. Vertical' /\ Horizontal' /\ Progress'
  BY <1>1, <1>4 DEF IInv, Vertical, Horizontal, Progress
<1> QED BY <1>5, <1>6 DEF IInv

-----------------------------------------------------------------------------
(* Choosing the row, and going to the next one. *)
LEMMA RowStepsKeep ==
    ASSUME IInv, Begin \/ Scrolled \/ Newline \/ NextRow PROVE IInv'
<1> USE Sizes
<1>1. CASE Begin
  <2>1. k' \in 0 .. max_ypos /\ pc' \in {"scroll", "place"} /\ k' = 1
        /\ UNCHANGED <<cells, current_xpos, current_ypos, cursor, who, todo, at, text>>
    BY <1>1 DEF Begin, position
  <2>2. Confined'
    BY <2>1, Positions, CellsKept
  <2>3. Vertical' /\ Horizontal' /\ Progress'
    BY <1>1, <2>1, Positions DEF Begin, scroll_due, Vertical, Horizontal, Progress, Fresh
  <2> QED BY <2>2, <2>3 DEF IInv
<1>2. CASE Scrolled
  <2>1. /\ pc = "scrolled" /\ current_ypos' = max_ypos - 1 /\ pc' = "place"
        /\ UNCHANGED <<cells, current_xpos, cursor, who, todo, k, at, text>>
    BY <1>2 DEF Scrolled, row_after_scroll
  <2>2. Confined'
    BY <2>1, Positions, CellsKept
  <2>3. Vertical' /\ Horizontal' /\ Progress'
    BY <2>1, Positions DEF Vertical, Horizontal, Progress
  <2> QED BY <2>2, <2>3 DEF IInv
<1>3. CASE Newline
  <2>1. /\ pc = "place" /\ current_xpos' = 0 /\ pc' = "next_row"
        /\ UNCHANGED <<cells, current_ypos, cursor, who, todo, k, at, text>>
    BY <1>3 DEF Newline, first_column
  <2>2. Confined'
    BY <2>1, Positions, CellsKept
  <2>3. Vertical' /\ Horizontal' /\ Progress'
    BY <2>1, Positions DEF Vertical, Horizontal, Progress
  <2> QED BY <2>2, <2>3 DEF IInv
<1>4. CASE NextRow
  <2>1. /\ pc = "next_row" /\ current_ypos' = current_ypos + 1 /\ pc' = "move_cursor"
        /\ UNCHANGED <<cells, current_xpos, cursor, who, todo, k, at, text>>
    BY <1>4 DEF NextRow
  <2>2. current_ypos' \in 0 .. max_ypos
    BY <2>1, Positions DEF Vertical
  <2>3. Confined'
    BY <2>1, <2>2, Positions, CellsKept
  <2>4. Vertical' /\ Horizontal' /\ Progress'
    BY <2>1, Positions DEF Vertical, Horizontal, Progress
  <2> QED BY <2>3, <2>4 DEF IInv
<1> QED BY <1>1, <1>2, <1>3, <1>4

(* An exception's first character is one that shows, and so not skipped. *)
LEMMA CharacterKeeps ==
    ASSUME IInv, CarriageReturn \/ Glyph \/ Wrap PROVE IInv'
<1> USE Sizes
<1>1. CASE CarriageReturn
  <2>1. /\ pc = "place" /\ Head(todo) = "\r" /\ pc' = "move_cursor"
        /\ UNCHANGED <<cells, current_xpos, current_ypos, cursor, who, todo, k, at, text>>
    BY <1>1 DEF CarriageReturn, position
  <2>2. ~ Fresh
    BY <2>1, TerminalAssumption DEF Fresh
  <2>3. Confined'
    BY <2>1, Positions, CellsKept
  <2>4. Vertical' /\ Horizontal' /\ Progress'
    BY <2>1, <2>2, Positions DEF Vertical, Horizontal, Progress
  <2> QED BY <2>3, <2>4 DEF IInv
<1>2. CASE Glyph
  <2>1. /\ pc = "place" /\ at' = max_xpos * current_ypos + current_xpos
        /\ current_xpos' = current_xpos + 1 /\ pc' = "store"
        /\ UNCHANGED <<cells, current_ypos, cursor, who, todo, k, text>>
    BY <1>2 DEF Glyph
  <2>2. current_ypos \in Nat /\ current_ypos < max_ypos /\ current_xpos \in 0 .. max_xpos
    BY <2>1, Positions DEF Vertical, Horizontal
  <2>3. /\ max_xpos * current_ypos \in Nat
        /\ max_xpos * current_ypos + max_xpos <= Size
    BY <2>2, CellOnScreen
  <2>4. at' \in 0 .. Size /\ current_xpos' \in 0 .. max_xpos + 1
    <3> DEFINE a == max_xpos * current_ypos
    <3>1. a \in Nat /\ a + max_xpos <= Size /\ at' = a + current_xpos
      BY <2>1, <2>3
    <3> HIDE DEF a, Size
    <3> QED BY <2>1, <2>2, <3>1
  <2>5. Confined'
    BY <2>1, <2>4, Positions, CellsKept
  <2>6. Horizontal'
    <3> DEFINE a == max_xpos * current_ypos
    <3>1. /\ current_xpos' \in 1 .. max_xpos \/ (Fresh' /\ current_xpos' = max_xpos + 1)
      BY <2>1, <2>2, Positions DEF Horizontal, Fresh
    <3>2. a \in Int /\ at' = a + current_xpos /\ current_xpos = current_xpos' - 1
      BY <2>1, <2>2, <2>3
    <3>3. at' = max_xpos * current_ypos' + (current_xpos' - 1)
      BY <2>1, <3>2
    <3> QED BY <2>1, <3>1, <3>3 DEF Horizontal
  <2>7. Vertical' /\ Progress'
    BY <2>1, <2>2, Positions DEF Vertical, Progress
  <2> QED BY <2>5, <2>6, <2>7 DEF IInv
<1>3. CASE Wrap
  <2>1. /\ pc = "wrap"
        /\ \/ current_xpos >= max_xpos /\ current_xpos' = 0 /\ pc' = "next_row"
           \/ current_xpos < max_xpos /\ current_xpos' = current_xpos /\ pc' = "move_cursor"
        /\ UNCHANGED <<cells, current_ypos, cursor, who, todo, k, at, text>>
    BY <1>3, Positions DEF Wrap, row_full
  <2>2. Confined'
    BY <2>1, Positions, CellsKept
  <2>3. Vertical' /\ Horizontal' /\ Progress'
    BY <2>1, Positions DEF Vertical, Horizontal, Progress
  <2> QED BY <2>2, <2>3 DEF IInv
<1> QED BY <1>1, <1>2, <1>3

(***************************************************************************)
(* The store itself: it stays on the screen, but for an exception's first  *)
(* character, which may land in the one cell behind it.                    *)
(***************************************************************************)
LEMMA StoreKeeps == ASSUME IInv, Store PROVE IInv'
<1>1. /\ pc = "store" /\ cells' = [cells EXCEPT ![at] = Head(todo)] /\ pc' = "wrap"
      /\ UNCHANGED <<current_xpos, current_ypos, cursor, who, todo, k, at, text>>
  BY DEF Store, position
<1>2. current_ypos \in Nat /\ current_ypos < max_ypos /\ at \in 0 .. Size
  BY <1>1 DEF IInv, Confined, TypeOK, Vertical
<1>3. /\ max_xpos \in Nat \ {0} /\ Size \in Nat
      /\ max_xpos * current_ypos \in Nat /\ max_xpos * current_ypos + max_xpos <= Size
  BY <1>2, Sizes, CellOnScreen
<1>4. at < Size \/ (Fresh /\ at = Size)
  <2> DEFINE a == max_xpos * current_ypos
  <2>1. current_xpos \in 1 .. max_xpos \/ (Fresh /\ current_xpos = max_xpos + 1)
    BY <1>1 DEF IInv, Horizontal
  <2>2. a \in Nat /\ a + max_xpos <= Size /\ at = a + (current_xpos - 1)
    BY <1>1, <1>3 DEF IInv, Horizontal
  <2> HIDE DEF a, Size
  <2> QED BY <1>2, <1>3, <2>1, <2>2
<1>5. Head(todo) \in Characters \cup {Blank} /\ (Fresh => Head(todo) = Head(Report))
  <2>1. todo \in Seq(Characters \cup {Blank}) /\ todo # <<>>
    BY <1>1 DEF IInv, Confined, TypeOK, Progress
  <2> QED BY <2>1 DEF Fresh
<1>6. cells' \in [0 .. Size + max_xpos - 1 -> Characters \cup {Blank, Junk}]
  BY <1>1, <1>5 DEF IInv, Confined, TypeOK
<1>7. TypeOK'
  BY <1>1, <1>6 DEF IInv, Confined, TypeOK
<1>8. ASSUME NEW i \in Size .. Size + max_xpos - 1, cells'[i] # Junk
      PROVE  i = Size /\ who' = "exception" /\ cells'[i] = Head(Report)
  <2>1. i \in 0 .. Size + max_xpos - 1 /\ ~ i < Size
    BY <1>3
  <2>2. CASE i = at
    <3>1. Fresh /\ at = Size
      BY <1>4, <2>1, <2>2
    <3>2. cells'[i] = Head(todo)
      BY <1>1, <2>1, <2>2 DEF IInv, Confined, TypeOK
    <3> QED BY <1>1, <1>5, <2>2, <3>1, <3>2 DEF Fresh
  <2>3. CASE i # at
    <3>1. cells'[i] = cells[i]
      BY <1>1, <2>1, <2>3 DEF IInv, Confined, TypeOK
    <3> QED BY <1>1, <1>8, <3>1 DEF IInv, Confined
  <2> QED BY <2>2, <2>3
<1>9. Confined'
  BY <1>7, <1>8 DEF Confined
<1>10. Vertical' /\ Progress'
  BY <1>1, <1>2 DEF IInv, Vertical, Progress
<1>11. Horizontal'
  BY <1>1 DEF IInv, Horizontal, Fresh
<1> QED BY <1>9, <1>10, <1>11 DEF IInv

LEMMA MoveCursorKeeps == ASSUME IInv, MoveCursor PROVE IInv'
<1>1. /\ pc = "move_cursor" /\ cursor' = current_ypos * max_xpos + current_xpos
      /\ todo' = Tail(todo) /\ pc' = "begin"
      /\ UNCHANGED <<cells, current_xpos, current_ypos, who, k, at, text>>
  BY DEF MoveCursor, early_printk_move_cursor, position
<1>2. /\ current_ypos \in 0 .. max_ypos /\ current_xpos \in 0 .. max_xpos - 1
      /\ current_ypos = max_ypos => current_xpos = 0
  BY <1>1, Sizes, Positions DEF Vertical, Horizontal
<1>3. cursor' \in 0 .. Size
  <2> DEFINE a == current_ypos * max_xpos
  <2>1. a \in Nat /\ max_xpos \in Nat /\ Size \in Nat
    BY <1>2, Sizes
  <2>2. current_ypos < max_ypos => a + max_xpos <= Size
    BY <1>2, CellOnScreen
  <2>3. current_ypos = max_ypos => a = Size
    BY <2>1, Sizes DEF Size
  <2>4. max_ypos \in Nat /\ cursor' = a + current_xpos
    BY <1>1, Sizes
  <2> HIDE DEF a, Size
  <2> QED BY <1>2, <2>1, <2>2, <2>3, <2>4
<1>4. todo' \in Seq(Characters \cup {Blank})
  <2>1. todo \in Seq(Characters \cup {Blank}) /\ todo # <<>>
    BY <1>1, Positions DEF Progress
  <2> QED BY <1>1, <2>1
<1>5. Confined'
  BY <1>1, <1>3, <1>4, Positions, CellsKept
<1>6. Vertical' /\ Horizontal' /\ Progress'
  BY <1>1, <1>2, Positions DEF Vertical, Horizontal, Progress
<1> QED BY <1>5, <1>6 DEF IInv

-----------------------------------------------------------------------------
(* A row that is full when an exception comes has at most yet to wrap. *)
LEMMA ColumnFound == ASSUME IInv, who = "kernel" PROVE current_xpos \in 0 .. max_xpos
<1>1. ~ Fresh
  BY DEF Fresh
<1>2. CASE pc \in {"scroll", "scrolled"}
  BY <1>2, Positions, Sizes DEF Vertical
<1>3. CASE pc \in {"begin", "place", "store", "wrap", "next_row", "move_cursor"}
  BY <1>1, <1>3, Positions, Sizes DEF Horizontal
<1> QED BY <1>2, <1>3, Positions

(* Who writes next, the exception at any point of a character included. *)
LEMMA CallersKeep ==
    ASSUME IInv,
           early_printk_setup \/ (\E c \in Glyphs \cup {"\n", "\r"} : putc(c)) \/ isr_handler
    PROVE  IInv'
<1> USE Sizes
<1>1. CASE early_printk_setup
  <2>1. /\ who = "setup" /\ pc = "begin" /\ current_xpos' = 0 /\ current_ypos' = 0
        /\ cursor' = 0 /\ who' = "kernel" /\ UNCHANGED <<cells, todo, pc, k, at, text>>
    BY <1>1 DEF early_printk_setup, Written
  <2>2. Confined'
    BY <2>1, Positions, CellsKept
  <2> QED BY <2>1, <2>2, Positions DEF Vertical, Horizontal, Progress, IInv
<1>2. ASSUME NEW c \in Glyphs \cup {"\n", "\r"}, putc(c) PROVE IInv'
  <2>1. /\ who = "kernel" /\ pc = "begin" /\ todo' = <<c>> /\ text' = Append(text, c)
        /\ UNCHANGED <<cells, current_xpos, current_ypos, cursor, who, pc, k, at>>
    BY <1>2 DEF putc, Written, position
  <2> DEFINE Printed == Glyphs \cup {"\n", "\r"}
  <2>2. /\ text \in Seq(Printed) /\ c \in Printed
        /\ c \in Characters \cup {Blank}
    BY DEF IInv, Confined, TypeOK, Characters
  <2> HIDE DEF Printed
  <2>3. text' \in Seq(Printed) /\ todo' \in Seq(Characters \cup {Blank})
    BY <2>1, <2>2
  <2>4. TypeOK'
    BY <2>1, <2>3 DEF IInv, Confined, TypeOK, Printed
  <2>5. Confined'
    BY <2>1, <2>4 DEF IInv, Confined
  <2> QED BY <2>1, <2>5, Positions DEF Vertical, Horizontal, Progress, Fresh, IInv
<1>3. CASE isr_handler
  <2>1. /\ who = "kernel" /\ who' = "exception" /\ todo' = Report /\ pc' = "begin"
        /\ UNCHANGED <<cells, current_xpos, current_ypos, cursor, k, at, text>>
    BY <1>3 DEF isr_handler, position
  <2>2. todo' \in Seq(Characters \cup {Blank})
    BY <2>1, TerminalAssumption DEF Characters
  <2>3. Confined'
    BY <2>1, <2>2, Positions, CellsKept
  <2>4. Vertical' /\ Progress'
    BY <2>1, Positions DEF Vertical, Progress
  <2>5. current_xpos \in 0 .. max_xpos
    BY <2>1, ColumnFound
  <2>6. Fresh'
    BY <2>1 DEF Fresh
  <2>7. Horizontal'
    BY <2>1, <2>5, <2>6, Sizes DEF Horizontal
  <2> QED BY <2>3, <2>4, <2>7 DEF IInv
<1> QED BY <1>1, <1>2, <1>3

LEMMA ConfinedStep == IInv /\ [Next]_vars => IInv'
<1> SUFFICES ASSUME IInv, [Next]_vars PROVE IInv'
  OBVIOUS
<1>1. CASE UNCHANGED vars
  <2>1. UNCHANGED <<cells, current_xpos, current_ypos, cursor, who, todo, pc, k, at, text>>
    BY <1>1 DEF vars, position
  <2>2. Confined'
    BY <2>1, Positions, CellsKept
  <2> QED BY <2>1, <2>2, Positions DEF IInv, Vertical, Horizontal, Progress, Fresh
<1> QED
  BY <1>1, ScrollKeeps, RowStepsKeep, CharacterKeeps, StoreKeeps, MoveCursorKeeps,
     CallersKeep DEF Next, early_printk_write

(***************************************************************************)
(* Nothing is ever written behind the screen but the first character of an *)
(* exception's report, in the one cell after it, whatever the size of the  *)
(* screen, the text, the report and the moment the exception comes.        *)
(***************************************************************************)
THEOREM StoresAreConfined == Spec => []Confined
<1>1. IInv => Confined
  BY DEF IInv
<1> QED BY <1>1, InitConfined, ConfinedStep, PTL DEF Spec

-----------------------------------------------------------------------------
(* Counting up: what holds of 0 and of the next number of each it holds of. *)
LEMMA CountUp ==
    ASSUME NEW S \in SUBSET Nat, 0 \in S, \A j \in S : j + 1 \in S
    PROVE  S = Nat
<1> SUFFICES ASSUME Nat \ S # {} PROVE FALSE
  OBVIOUS
<1> DEFINE Less == {p \in Nat \X Nat : p[1] < p[2]}
<1>1. OpToRel(<, Nat) = Less
  BY DEF OpToRel
<1>2. IsWellFoundedOn(Less, Nat)
  BY <1>1, NatLessThanWellFounded
<1>3. PICK x \in Nat \ S : \A y \in Nat \ S : <<y, x>> \notin Less
  <2> HIDE DEF Less
  <2> QED BY <1>2, WFMin
<1>4. x # 0 /\ x - 1 \in Nat /\ <<x - 1, x>> \in Less /\ (x - 1) + 1 = x
  BY <1>3
<1>5. x - 1 \in S
  BY <1>3, <1>4
<1> QED BY <1>3, <1>4, <1>5

(* A function that builds the rows of the first m characters, one by one.  *)
Builds(f, b, s, m) == f = [j \in 0 .. m |-> IF j = 0 THEN <<b>> ELSE Onto(f[j - 1], s[j])]

LEMMA RowsCanBeBuilt ==
    ASSUME NEW b, NEW s, NEW m \in Nat
    PROVE  \E f : Builds(f, b, s, m)
<1> DEFINE S == {i \in Nat : \E f : Builds(f, b, s, i)}
<1>1. 0 \in S
  <2> DEFINE f == [j \in 0 .. 0 |-> <<b>>]
  <2>1. Builds(f, b, s, 0)
    BY DEF Builds
  <2> QED BY <2>1
<1>2. ASSUME NEW i \in S PROVE i + 1 \in S
  <2>1. PICK f : Builds(f, b, s, i)
    OBVIOUS
  <2> DEFINE g == [j \in 0 .. i + 1 |-> IF j = i + 1 THEN Onto(f[i], s[i + 1]) ELSE f[j]]
             step == [j \in 0 .. i + 1 |-> IF j = 0 THEN <<b>> ELSE Onto(g[j - 1], s[j])]
  <2>2. ASSUME NEW j \in 0 .. i + 1 PROVE g[j] = step[j]
    <3>1. CASE j = i + 1
      <4>1. j - 1 \in 0 .. i + 1 /\ j - 1 = i /\ j # 0 /\ i # i + 1
        BY <3>1
      <4>2. g[j - 1] = f[i]
        BY <4>1
      <4> QED BY <3>1, <4>1, <4>2
    <3>2. CASE j # i + 1
      <4>1. j \in 0 .. i /\ g[j] = f[j]
        BY <3>2
      <4>2. f[j] = IF j = 0 THEN <<b>> ELSE Onto(f[j - 1], s[j])
        BY <2>1, <4>1 DEF Builds
      <4>3. j # 0 => j - 1 \in 0 .. i + 1 /\ j - 1 # i + 1
        BY <4>1
      <4>4. j # 0 => g[j - 1] = f[j - 1]
        BY <4>3
      <4> QED BY <4>1, <4>2, <4>4
    <3> QED BY <3>1, <3>2
  <2>3. g = step
    <3> HIDE DEF g, step
    <3>1. g = [j \in 0 .. i + 1 |-> g[j]]
      BY DEF g
    <3>2. step = [j \in 0 .. i + 1 |-> step[j]]
      BY DEF step
    <3> QED BY <2>2, <3>1, <3>2
  <2>4. Builds(g, b, s, i + 1)
    BY <2>3 DEF Builds
  <2> HIDE DEF g
  <2> QED BY <2>4
<1>3. S = Nat
  <2> HIDE DEF S
  <2>1. S \in SUBSET Nat
    BY DEF S
  <2> QED BY <1>1, <1>2, <2>1, CountUp
<1> QED BY <1>3

LEMMA BuiltAlike ==
    ASSUME NEW b, NEW s, NEW t, NEW m \in Nat, NEW p \in Nat, NEW f, NEW g,
           Builds(f, b, s, m), Builds(g, b, t, p),
           NEW q \in Nat, q <= m, q <= p, \A j \in 1 .. q : s[j] = t[j]
    PROVE  f[q] = g[q]
<1> DEFINE S == {i \in Nat : i <= q => f[i] = g[i]}
<1>1. 0 \in S
  <2>1. f[0] = <<b>> /\ g[0] = <<b>>
    BY DEF Builds
  <2> QED BY <2>1
<1>2. ASSUME NEW i \in S PROVE i + 1 \in S
  <2> SUFFICES ASSUME i + 1 <= q PROVE f[i + 1] = g[i + 1]
    OBVIOUS
  <2>1. i + 1 \in 0 .. m /\ i + 1 \in 0 .. p /\ i + 1 \in 1 .. q /\ (i + 1) - 1 = i /\ i + 1 # 0
    OBVIOUS
  <2>2. f[i + 1] = Onto(f[(i + 1) - 1], s[i + 1])
    BY <2>1 DEF Builds
  <2>3. g[i + 1] = Onto(g[(i + 1) - 1], t[i + 1])
    BY <2>1 DEF Builds
  <2>4. f[i] = g[i] /\ s[i + 1] = t[i + 1]
    BY <2>1
  <2> QED BY <2>1, <2>2, <2>3, <2>4
<1>3. S = Nat
  <2> HIDE DEF S
  <2>1. S \in SUBSET Nat
    BY DEF S
  <2> QED BY <1>1, <1>2, <2>1, CountUp
<1>4. q \in S
  BY <1>3
<1> QED BY <1>4

LEMMA LinesAreBuilt ==
    ASSUME NEW b, NEW s, Len(s) \in Nat
    PROVE  \E f : Builds(f, b, s, Len(s)) /\ LinesAfter(b, s) = f[Len(s)]
<1> DEFINE ls == CHOOSE f : Builds(f, b, s, Len(s))
<1>1. Builds(ls, b, s, Len(s))
  BY RowsCanBeBuilt
<1>2. LinesAfter(b, s) = ls[Len(s)]
  BY DEF LinesAfter, Builds
<1> HIDE DEF ls
<1> QED BY <1>1, <1>2

(* The rows of a text with one more character. *)
LEMMA LinesGrow ==
    ASSUME NEW b, NEW S, NEW s \in Seq(S), NEW c \in S
    PROVE  /\ LinesAfter(b, <<>>) = <<b>>
           /\ LinesAfter(b, Append(s, c)) = Onto(LinesAfter(b, s), c)
<1>1. LinesAfter(b, <<>>) = <<b>>
  <2>1. PICK f : Builds(f, b, <<>>, Len(<<>>)) /\ LinesAfter(b, <<>>) = f[Len(<<>>)]
    BY LinesAreBuilt
  <2>2. f[0] = <<b>>
    BY <2>1 DEF Builds
  <2> QED BY <2>1, <2>2
<1> DEFINE t == Append(s, c)
           m == Len(s)
<1>2. m \in Nat /\ Len(t) = m + 1 /\ t[m + 1] = c /\ \A j \in 1 .. m : s[j] = t[j]
  OBVIOUS
<1>3. PICK f : Builds(f, b, s, m) /\ LinesAfter(b, s) = f[m]
  BY <1>2, LinesAreBuilt
<1>4. PICK g : Builds(g, b, t, m + 1) /\ LinesAfter(b, t) = g[m + 1]
  <2> HIDE DEF t, m
  <2>1. Len(t) \in Nat
    BY <1>2
  <2> QED BY <1>2, <2>1, LinesAreBuilt
<1>5. g[m + 1] = Onto(g[m], t[m + 1])
  <2> HIDE DEF t, m
  <2>1. m + 1 \in 0 .. m + 1 /\ m + 1 # 0 /\ (m + 1) - 1 = m
    BY <1>2
  <2> QED BY <1>4, <2>1 DEF Builds
<1>6. f[m] = g[m]
  <2> HIDE DEF t, m
  <2>1. m \in Nat /\ m <= m /\ m <= m + 1 /\ m + 1 \in Nat
    BY <1>2
  <2>2. \A j \in 1 .. m : s[j] = t[j]
    BY <1>2
  <2>3. Builds(f, b, s, m) /\ Builds(g, b, t, m + 1)
    BY <1>3, <1>4
  <2> QED BY <2>1, <2>2, <2>3, BuiltAlike
<1> QED BY <1>1, <1>2, <1>3, <1>4, <1>5, <1>6

-----------------------------------------------------------------------------
Marks == Characters \cup {Blank, Junk}

(* Rows on paper, the last one with room for a character more. *)
Sheets == {ls \in Seq(Seq(Marks)) : ls # <<>> /\ Len(ls[Len(ls)]) < max_xpos}

(* The last row with a character more. *)
Inked(ls, c) == [ls EXCEPT ![Len(ls)] = Append(ls[Len(ls)], c)]

LEMMA InkedIs ==
    ASSUME NEW L \in Sheets, NEW c \in Marks
    PROVE  /\ L \in Seq(Seq(Marks)) /\ Len(L) \in Nat \ {0} /\ DOMAIN L = 1 .. Len(L)
           /\ L[Len(L)] \in Seq(Marks) /\ Last(L) = L[Len(L)]
           /\ Inked(L, c) \in Seq(Seq(Marks)) /\ Len(Inked(L, c)) = Len(L)
           /\ DOMAIN Inked(L, c) = DOMAIN L
           /\ Inked(L, c)[Len(L)] = Append(L[Len(L)], c)
           /\ \A i \in DOMAIN L : i # Len(L) => Inked(L, c)[i] = L[i]
           /\ Last(Inked(L, c)) = Inked(L, c)[Len(L)]
           /\ Len(Last(Inked(L, c))) = Len(Last(L)) + 1
<1>1. L \in Seq(Seq(Marks)) /\ L # <<>>
  BY DEF Sheets
<1>2. Len(L) \in Nat \ {0} /\ DOMAIN L = 1 .. Len(L)
  BY <1>1
<1>3. L[Len(L)] \in Seq(Marks) /\ Last(L) = L[Len(L)]
  BY <1>1, <1>2 DEF Last
<1>4. Append(L[Len(L)], c) \in Seq(Marks) /\ Len(Append(L[Len(L)], c)) = Len(L[Len(L)]) + 1
  BY <1>3
<1>5. Inked(L, c) \in Seq(Seq(Marks)) /\ Len(Inked(L, c)) = Len(L)
  <2> DEFINE e == Append(L[Len(L)], c)
  <2>1. e \in Seq(Marks)
    BY <1>4
  <2> HIDE DEF e
  <2>2. [L EXCEPT ![Len(L)] = e] \in Seq(Seq(Marks)) /\ Len([L EXCEPT ![Len(L)] = e]) = Len(L)
    BY <1>1, <1>2, <2>1
  <2> QED BY <2>2 DEF Inked, e
<1>6. /\ DOMAIN Inked(L, c) = DOMAIN L
      /\ Inked(L, c)[Len(L)] = Append(L[Len(L)], c)
      /\ \A i \in DOMAIN L : i # Len(L) => Inked(L, c)[i] = L[i]
  BY <1>2 DEF Inked
<1>7. Last(Inked(L, c)) = Inked(L, c)[Len(L)]
  BY <1>5 DEF Last
<1> QED BY <1>1, <1>2, <1>3, <1>4, <1>5, <1>6, <1>7

(* What Onto does, by cases. *)
LEMMA OntoIs ==
    ASSUME NEW L \in Sheets, NEW c \in Marks
    PROVE  /\ Onto(L, c) \in Sheets
           /\ c = "\r" => Onto(L, c) = L
           /\ c = "\n" => Onto(L, c) = Append(L, <<>>)
           /\ c \notin {"\n", "\r"} /\ Len(Last(L)) + 1 = max_xpos =>
                  Onto(L, c) = Append(Inked(L, c), <<>>)
           /\ c \notin {"\n", "\r"} /\ Len(Last(L)) + 1 # max_xpos => Onto(L, c) = Inked(L, c)
<1> DEFINE M == Inked(L, c)
<1>1. /\ L \in Seq(Seq(Marks)) /\ Last(L) = L[Len(L)] /\ Len(L) \in Nat \ {0}
      /\ M \in Seq(Seq(Marks)) /\ Len(M) = Len(L)
      /\ Last(M) = M[Len(L)] /\ Len(Last(M)) = Len(Last(L)) + 1
      /\ L[Len(L)] \in Seq(Marks)
  BY InkedIs
<1>2. [L EXCEPT ![Len(L)] = Append(@, c)] = M
  BY DEF Inked
<1> HIDE DEF M
<1>3. Onto(L, c) = IF c = "\r" THEN L
                   ELSE IF c = "\n" THEN Append(L, <<>>)
                   ELSE IF Len(Last(M)) = max_xpos THEN Append(M, <<>>)
                   ELSE M
  BY <1>2 DEF Onto
<1>4. ASSUME NEW K \in Seq(Seq(Marks)) PROVE Append(K, <<>>) \in Sheets
  <2>1. /\ Append(K, <<>>) \in Seq(Seq(Marks)) /\ Append(K, <<>>) # <<>>
        /\ Append(K, <<>>)[Len(Append(K, <<>>))] = <<>>
    OBVIOUS
  <2>2. Len(Append(K, <<>>)[Len(Append(K, <<>>))]) < max_xpos
    BY <2>1, Sizes
  <2> QED BY <2>1, <2>2 DEF Sheets
<1>5. Len(Last(M)) # max_xpos => M \in Sheets
  <2>1. Len(L[Len(L)]) < max_xpos /\ Len(L[Len(L)]) \in Nat /\ max_xpos \in Nat
    BY <1>1, Sizes DEF Sheets
  <2>2. Len(M[Len(M)]) = Len(L[Len(L)]) + 1 /\ M # <<>>
    BY <1>1
  <2> QED BY <1>1, <2>1, <2>2 DEF Sheets
<1>6. Onto(L, c) \in Sheets
  BY <1>1, <1>3, <1>4, <1>5
<1> QED BY <1>1, <1>3, <1>6 DEF M

-----------------------------------------------------------------------------
CellOf(r, x) == max_xpos * r + x - 1

LEMMA CellsOfRows ==
    ASSUME NEW r \in 0 .. max_ypos - 1, NEW x \in 1 .. max_xpos
    PROVE  /\ CellOf(r, x) \in 0 .. Size - 1 /\ CellOf(r, x) \in 0 .. Size + max_xpos - 1
           /\ CellOf(r, x) \div max_xpos = r
           /\ CellOf(r, x) + max_xpos = CellOf(r + 1, x)
<1> DEFINE a == max_xpos * r
<1>1. max_xpos \in Nat \ {0} /\ max_ypos \in Nat \ {0} /\ Size \in Nat
  BY Sizes
<1>2. r \in Nat /\ r < max_ypos /\ x \in Nat /\ 1 <= x /\ x <= max_xpos
  BY <1>1
<1>3. a \in Nat /\ a + max_xpos <= Size
  BY <1>2, CellOnScreen
<1>4. CellOf(r, x) = a + (x - 1)
  BY <1>2, <1>3 DEF CellOf
<1>5. CellOf(r, x) \in 0 .. Size - 1 /\ CellOf(r, x) \in 0 .. Size + max_xpos - 1
  <2> HIDE DEF a, Size
  <2> QED BY <1>1, <1>2, <1>3, <1>4
<1>6. max_xpos * (r + 1) = a + max_xpos
  BY <1>1, <1>2
<1>7. CellOf(r, x) + max_xpos = CellOf(r + 1, x)
  <2>1. CellOf(r + 1, x) = (a + max_xpos) + (x - 1)
    BY <1>1, <1>2, <1>3, <1>6 DEF CellOf
  <2> HIDE DEF a
  <2> QED BY <1>1, <1>2, <1>3, <1>4, <2>1
<1>8. (max_xpos * r + (x - 1)) \div max_xpos = r
  <2>1. x - 1 \in 0 .. max_xpos - 1
    BY <1>1, <1>2
  <2> QED BY <1>1, <1>2, <2>1
<1> QED BY <1>4, <1>5, <1>7, <1>8

LEMMA CellsDiffer ==
    ASSUME NEW r \in 0 .. max_ypos - 1, NEW x \in 1 .. max_xpos,
           NEW t \in 0 .. max_ypos - 1, NEW z \in 1 .. max_xpos, CellOf(r, x) = CellOf(t, z)
    PROVE  r = t /\ x = z
<1>1. r = t
  BY CellsOfRows
<1>2. max_xpos * r \in Int /\ x \in Int /\ z \in Int
  BY Sizes
<1> QED BY <1>1, <1>2 DEF CellOf

-----------------------------------------------------------------------------
(***************************************************************************)
(* A cell shows place x of the i-th row of the paper.  Where the paper has *)
(* no such place the cell is blank, if the screen has been set up for the  *)
(* text; an exception finds what is there, which its paper calls junk.     *)
(***************************************************************************)
Shows(v, L, i, x, w) ==
    IF i \in DOMAIN L /\ x \in DOMAIN L[i]
    THEN v = L[i][x] \/ (w = "exception" /\ L[i][x] = Junk)
    ELSE w = "kernel" => v = Blank

(* The last row of the paper is row y of the screen. *)
On(cs, L, y, w) ==
    /\ w = "kernel" => y + 1 <= Len(L) /\ (y + 1 < Len(L) => y >= max_ypos - 1)
    /\ \A r \in 0 .. max_ypos - 1, x \in 1 .. max_xpos :
           Shows(cs[CellOf(r, x)], L, Len(L) - y + r, x, w)

(* The rows above the j-th have moved up, the others have yet to. *)
Half(cs, L, j, w) ==
    /\ w = "kernel" => max_ypos + 1 <= Len(L)
    /\ \A r \in 0 .. max_ypos - 1, x \in 1 .. max_xpos :
           Shows(cs[CellOf(r, x)], L,
                 Len(L) - max_ypos + r + (IF r < j - 1 THEN 1 ELSE 0), x, w)

LEMMA NewRow ==
    ASSUME NEW cs, NEW L \in Seq(Seq(Marks)), NEW y \in Nat, NEW w, On(cs, L, y, w)
    PROVE  On(cs, Append(L, <<>>), y + 1, w)
<1> DEFINE K == Append(L, <<>>)
<1>1. /\ Len(L) \in Nat /\ Len(K) = Len(L) + 1 /\ DOMAIN L = 1 .. Len(L)
      /\ DOMAIN K = 1 .. Len(L) + 1
      /\ K[Len(L) + 1] = <<>> /\ \A i \in 1 .. Len(L) : K[i] = L[i]
  OBVIOUS
<1> HIDE DEF K
<1>2. max_ypos \in Nat \ {0} /\ max_xpos \in Nat \ {0}
  BY Sizes
<1>3. w = "kernel" => (y + 1) + 1 <= Len(K) /\ ((y + 1) + 1 < Len(K) => y + 1 >= max_ypos - 1)
  BY <1>1, <1>2 DEF On
<1>4. ASSUME NEW r \in 0 .. max_ypos - 1, NEW x \in 1 .. max_xpos
      PROVE  Shows(cs[CellOf(r, x)], K, Len(K) - (y + 1) + r, x, w)
  <2> DEFINE i == Len(L) - y + r
  <2>1. Shows(cs[CellOf(r, x)], L, i, x, w)
    BY DEF On
  <2>2. i \in Int /\ Len(K) - (y + 1) + r = i
    BY <1>1, <1>2
  <2> HIDE DEF i
  <2>3. i \in DOMAIN K /\ x \in DOMAIN K[i] <=> i \in DOMAIN L /\ x \in DOMAIN L[i]
    <3>1. i = Len(L) + 1 => ~ (x \in DOMAIN K[i]) /\ i \notin DOMAIN L
      BY <1>1
    <3> QED BY <1>1, <2>2, <3>1
  <2>4. i \in DOMAIN L => K[i] = L[i]
    BY <1>1
  <2>5. Shows(cs[CellOf(r, x)], K, i, x, w)
    BY <2>1, <2>3, <2>4 DEF Shows
  <2> QED BY <2>2, <2>5
<1>5. On(cs, K, y + 1, w)
  BY <1>3, <1>4 DEF On
<1> QED BY <1>5 DEF K

(* A store behind the last row on paper writes it there too. *)
LEMMA InkOnScreen ==
    ASSUME NEW cs \in [0 .. Size + max_xpos - 1 -> Marks], NEW L \in Sheets, NEW c \in Marks,
           NEW y \in Nat, y < max_ypos, NEW w, On(cs, L, y, w)
    PROVE  On([cs EXCEPT ![max_xpos * y + Len(Last(L))] = c], Inked(L, c), y, w)
<1> DEFINE M == Inked(L, c)
           p == Len(L[Len(L)])
           a == max_xpos * y + Len(Last(L))
           ds == [cs EXCEPT ![a] = c]
<1>1. /\ max_xpos \in Nat \ {0} /\ max_ypos \in Nat \ {0} /\ Size \in Nat
      /\ max_xpos * y \in Nat
  BY Sizes
<1>2. p \in Nat /\ p < max_xpos /\ a = max_xpos * y + p
  BY InkedIs DEF Sheets
<1>3. /\ Len(L) \in Nat \ {0} /\ DOMAIN L = 1 .. Len(L) /\ L[Len(L)] \in Seq(Marks)
      /\ Len(M) = Len(L) /\ DOMAIN M = DOMAIN L /\ M[Len(L)] = Append(L[Len(L)], c)
      /\ \A i \in DOMAIN L : i # Len(L) => M[i] = L[i]
  BY InkedIs
<1>4. /\ DOMAIN M[Len(L)] = 1 .. p + 1 /\ DOMAIN L[Len(L)] = 1 .. p
      /\ M[Len(L)][p + 1] = c /\ \A x \in 1 .. p : M[Len(L)][x] = L[Len(L)][x]
  BY <1>3
<1>5. y \in 0 .. max_ypos - 1 /\ p + 1 \in 1 .. max_xpos
  BY <1>1, <1>2
<1>6. a = CellOf(y, p + 1)
  <2> DEFINE b == max_xpos * y
  <2>1. b \in Nat /\ p \in Nat /\ a = b + p
    BY <1>1, <1>2
  <2>2. CellOf(y, p + 1) = b + (p + 1) - 1
    BY DEF CellOf
  <2> HIDE DEF a, b, p
  <2> QED BY <2>1, <2>2
<1> HIDE DEF M, p, a
<1>7. ASSUME NEW r \in 0 .. max_ypos - 1, NEW x \in 1 .. max_xpos
      PROVE  ds[CellOf(r, x)] = IF r = y /\ x = p + 1 THEN c ELSE cs[CellOf(r, x)]
  <2>1. CellOf(r, x) \in 0 .. Size + max_xpos - 1
    BY CellsOfRows
  <2>2. CellOf(r, x) = a <=> r = y /\ x = p + 1
    BY <1>5, <1>6, CellsDiffer
  <2> QED BY <2>1, <2>2
<1> HIDE DEF ds
<1>8. ASSUME NEW r \in 0 .. max_ypos - 1, NEW x \in 1 .. max_xpos
      PROVE  Shows(ds[CellOf(r, x)], M, Len(M) - y + r, x, w)
  <2> DEFINE i == Len(L) - y + r
             v == cs[CellOf(r, x)]
  <2>1. Shows(v, L, i, x, w)
    BY DEF On
  <2>2. i \in Int /\ Len(M) - y + r = i /\ (i = Len(L) <=> r = y)
    <3>1. Len(L) \in Nat /\ Len(M) = Len(L) /\ r \in Int
      BY <1>1, <1>3
    <3> QED BY <3>1
  <2>3. ds[CellOf(r, x)] = IF i = Len(L) /\ x = p + 1 THEN c ELSE v
    BY <1>7, <2>2
  <2> HIDE DEF i, v
  <2>4. Len(L) \in DOMAIN L
    BY <1>3
  <2>5. CASE i = Len(L) /\ x = p + 1
    <3>1. i \in DOMAIN M /\ x \in DOMAIN M[i] /\ M[i][x] = c
      BY <1>2, <1>3, <1>4, <2>4, <2>5
    <3> QED BY <2>2, <2>3, <2>5, <3>1 DEF Shows
  <2>6. CASE i = Len(L) /\ x # p + 1
    <3>1. i \in DOMAIN M /\ i \in DOMAIN L /\ (x \in DOMAIN M[i] <=> x \in DOMAIN L[i])
      BY <1>2, <1>3, <1>4, <2>4, <2>6
    <3>2. x \in DOMAIN L[i] => M[i][x] = L[i][x]
      BY <1>4, <2>6
    <3>3. ds[CellOf(r, x)] = v
      BY <2>3, <2>6
    <3> QED BY <2>1, <2>2, <3>1, <3>2, <3>3 DEF Shows
  <2>7. CASE i # Len(L)
    <3>1. ds[CellOf(r, x)] = v /\ (i \in DOMAIN M <=> i \in DOMAIN L) /\ (i \in DOMAIN L => M[i] = L[i])
      BY <1>3, <2>3, <2>7
    <3> QED BY <2>1, <2>2, <3>1 DEF Shows
  <2> QED BY <2>5, <2>6, <2>7
<1>9. On(ds, M, y, w)
  <2>1. w = "kernel" => y + 1 <= Len(M) /\ (y + 1 < Len(M) => y >= max_ypos - 1)
    BY <1>3 DEF On
  <2> QED BY <1>8, <2>1 DEF On
<1> QED BY <1>9 DEF M, a, ds

-----------------------------------------------------------------------------
(* The scroll, a row at a time. *)
LEMMA ScrollBegins ==
    ASSUME NEW cs, NEW L \in Sheets, NEW w, On(cs, L, max_ypos, w)
    PROVE  Half(cs, L, 1, w)
<1>1. max_ypos \in Nat \ {0} /\ Len(L) \in Nat
  BY Sizes DEF Sheets
<1>2. ASSUME NEW r \in 0 .. max_ypos - 1, NEW x \in 1 .. max_xpos
      PROVE  Shows(cs[CellOf(r, x)], L, Len(L) - max_ypos + r + (IF r < 1 - 1 THEN 1 ELSE 0), x, w)
  <2>1. Shows(cs[CellOf(r, x)], L, Len(L) - max_ypos + r, x, w)
    BY DEF On
  <2>2. Len(L) - max_ypos + r + (IF r < 1 - 1 THEN 1 ELSE 0) = Len(L) - max_ypos + r
    BY <1>1
  <2> QED BY <2>1, <2>2
<1> QED BY <1>2 DEF On, Half

LEMMA RowMovesUp ==
    ASSUME NEW cs \in [0 .. Size + max_xpos - 1 -> Marks], NEW L \in Sheets, NEW w,
           NEW j \in 1 .. max_ypos, j < max_ypos, Half(cs, L, j, w),
           NEW ds, ds = [i \in 0 .. Size + max_xpos - 1 |->
                           IF i \div max_xpos = j - 1 THEN cs[i + max_xpos] ELSE cs[i]]
    PROVE  Half(ds, L, j + 1, w)
<1>1. max_ypos \in Nat \ {0} /\ max_xpos \in Nat \ {0} /\ Len(L) \in Nat /\ Size \in Nat
  BY Sizes DEF Sheets
<1>2. ASSUME NEW r \in 0 .. max_ypos - 1, NEW x \in 1 .. max_xpos
      PROVE  Shows(ds[CellOf(r, x)], L,
                   Len(L) - max_ypos + r + (IF r < (j + 1) - 1 THEN 1 ELSE 0), x, w)
  <2>1. CellOf(r, x) \in 0 .. Size + max_xpos - 1
    BY CellsOfRows
  <2>2. ds[CellOf(r, x)] = IF r = j - 1 THEN cs[CellOf(r + 1, x)] ELSE cs[CellOf(r, x)]
    BY <2>1, CellsOfRows
  <2>3. CASE r = j - 1
    <3>1. r + 1 \in 0 .. max_ypos - 1 /\ r + 1 = j
      BY <1>1, <2>3
    <3>2. Shows(cs[CellOf(r + 1, x)], L,
                Len(L) - max_ypos + (r + 1) + (IF r + 1 < j - 1 THEN 1 ELSE 0), x, w)
      BY <3>1 DEF Half
    <3>3. Len(L) - max_ypos + (r + 1) + (IF r + 1 < j - 1 THEN 1 ELSE 0)
              = Len(L) - max_ypos + r + (IF r < (j + 1) - 1 THEN 1 ELSE 0)
      BY <1>1, <3>1
    <3> QED BY <2>2, <2>3, <3>2, <3>3
  <2>4. CASE r # j - 1
    <3>1. Shows(cs[CellOf(r, x)], L,
                Len(L) - max_ypos + r + (IF r < j - 1 THEN 1 ELSE 0), x, w)
      BY DEF Half
    <3>2. r < j - 1 <=> r < (j + 1) - 1
      BY <1>1, <2>4
    <3> QED BY <2>2, <2>4, <3>1, <3>2
  <2> QED BY <2>3, <2>4
<1> QED BY <1>2 DEF Half

LEMMA LastRowBlanked ==
    ASSUME NEW cs \in [0 .. Size + max_xpos - 1 -> Marks], NEW L \in Sheets, NEW w,
           Half(cs, L, max_ypos, w), Len(Last(L)) = 0,
           NEW ds, ds = [i \in 0 .. Size + max_xpos - 1 |->
                           IF i \div max_xpos = max_ypos - 1 THEN Blank ELSE cs[i]]
    PROVE  On(ds, L, max_ypos - 1, w)
<1>1. max_ypos \in Nat \ {0} /\ Len(L) \in Nat
  BY Sizes DEF Sheets
<1>2. DOMAIN L[Len(L)] = {}
  <2>1. Last(L) = L[Len(L)] /\ L[Len(L)] \in Seq(Marks)
    BY InkedIs DEF Marks
  <2> QED BY <2>1
<1>3. ASSUME NEW r \in 0 .. max_ypos - 1, NEW x \in 1 .. max_xpos
      PROVE  Shows(ds[CellOf(r, x)], L, Len(L) - (max_ypos - 1) + r, x, w)
  <2>1. CellOf(r, x) \in 0 .. Size + max_xpos - 1
    BY CellsOfRows
  <2>2. ds[CellOf(r, x)] = IF r = max_ypos - 1 THEN Blank ELSE cs[CellOf(r, x)]
    BY <2>1, CellsOfRows
  <2>3. CASE r = max_ypos - 1
    <3>1. Len(L) - (max_ypos - 1) + r = Len(L)
      BY <1>1, <2>3
    <3>2. Shows(Blank, L, Len(L), x, w)
      BY <1>2 DEF Shows
    <3> QED BY <2>2, <2>3, <3>1, <3>2
  <2>4. CASE r # max_ypos - 1
    <3>1. Shows(cs[CellOf(r, x)], L,
                Len(L) - max_ypos + r + (IF r < max_ypos - 1 THEN 1 ELSE 0), x, w)
      BY DEF Half
    <3>2. Len(L) - max_ypos + r + (IF r < max_ypos - 1 THEN 1 ELSE 0) = Len(L) - (max_ypos - 1) + r
      BY <1>1, <2>4
    <3> QED BY <2>2, <2>4, <3>1, <3>2
  <2> QED BY <2>3, <2>4
<1>4. w = "kernel" => (max_ypos - 1) + 1 <= Len(L)
  BY <1>1 DEF Half
<1> QED BY <1>1, <1>3, <1>4 DEF On

(***************************************************************************)
(* The screen shows the paper L, and the step of the character under way   *)
(* what the character adds to it.                                          *)
(***************************************************************************)
Writing(L, w) ==
    /\ pc \in {"begin", "place"} =>
           On(cells, L, current_ypos, w) /\ current_xpos = Len(Last(L))
    /\ pc = "scroll" => Half(cells, L, k, w) /\ Len(Last(L)) = 0
    /\ pc = "scrolled" => On(cells, L, max_ypos - 1, w) /\ Len(Last(L)) = 0
    /\ pc \in {"store", "wrap"} =>
           Head(todo) \notin {"\n", "\r"} /\ current_xpos = Len(Last(L)) + 1
    /\ pc = "store" => On(cells, L, current_ypos, w)
    /\ pc = "wrap" => On(cells, Inked(L, Head(todo)), current_ypos, w)
    /\ pc \in {"next_row", "move_cursor"} => current_xpos = Len(Last(Onto(L, Head(todo))))
    /\ pc = "next_row" => On(cells, Onto(L, Head(todo)), current_ypos + 1, w)
    /\ pc = "move_cursor" => On(cells, Onto(L, Head(todo)), current_ypos, w)

LEMMA NextCharacter ==
    ASSUME IInv, pc # "begin"
    PROVE  Head(todo) \in Marks /\ cells \in [0 .. Size + max_xpos - 1 -> Marks]
<1>1. todo \in Seq(Characters \cup {Blank}) /\ todo # <<>>
  BY Positions DEF Progress
<1>2. Head(todo) \in Characters \cup {Blank}
  BY <1>1
<1> QED BY <1>2 DEF IInv, Confined, TypeOK, Marks

LEMMA ScrollShows ==
    ASSUME IInv, NEW L \in Sheets, NEW w, Writing(L, w),
           Begin \/ ScrollRow \/ BlankLastRow \/ Scrolled
    PROVE  Writing(L, w)' /\ todo' = todo
<1>1. CASE Begin
  <2>1. /\ pc = "begin" /\ pc' = (IF current_ypos >= max_ypos THEN "scroll" ELSE "place")
        /\ k' = 1 /\ UNCHANGED <<cells, current_xpos, current_ypos, todo>>
    BY <1>1 DEF Begin, scroll_due, position
  <2>2. On(cells, L, current_ypos, w) /\ current_xpos = Len(Last(L))
    BY <2>1 DEF Writing
  <2>3. CASE pc' = "place"
    BY <2>1, <2>2, <2>3 DEF Writing
  <2>4. CASE pc' = "scroll"
    <3>1. current_ypos = max_ypos /\ current_xpos = 0
      BY <2>1, <2>4, Sizes, Positions DEF Vertical
    <3>2. Half(cells, L, 1, w)
      BY <2>2, <3>1, ScrollBegins
    <3> QED BY <2>1, <2>2, <2>4, <3>1, <3>2 DEF Writing
  <2> QED BY <2>1, <2>3, <2>4
<1>2. CASE ScrollRow
  <2>1. /\ pc = "scroll" /\ pc' = "scroll" /\ k < max_ypos /\ k' = k + 1
        /\ cells' = [i \in DOMAIN cells |->
                       IF i \div max_xpos = k - 1 THEN cells[i + max_xpos] ELSE cells[i]]
        /\ UNCHANGED todo
    BY <1>2 DEF ScrollRow
  <2>2. /\ cells \in [0 .. Size + max_xpos - 1 -> Marks] /\ k \in 1 .. max_ypos
        /\ Half(cells, L, k, w) /\ Len(Last(L)) = 0
    BY <2>1, NextCharacter, Positions DEF Writing, Progress
  <2>3. DOMAIN cells = 0 .. Size + max_xpos - 1
    BY <2>2
  <2>4. Half(cells', L, k + 1, w)
    BY <2>1, <2>2, <2>3, RowMovesUp
  <2> QED BY <2>1, <2>2, <2>4 DEF Writing
<1>3. CASE BlankLastRow
  <2>1. /\ pc = "scroll" /\ pc' = "scrolled" /\ k = max_ypos
        /\ cells' = [i \in DOMAIN cells |-> IF i \div max_xpos = k - 1 THEN Blank ELSE cells[i]]
        /\ UNCHANGED todo
    BY <1>3 DEF BlankLastRow
  <2>2. /\ cells \in [0 .. Size + max_xpos - 1 -> Marks]
        /\ Half(cells, L, max_ypos, w) /\ Len(Last(L)) = 0
    BY <2>1, NextCharacter DEF Writing
  <2>3. DOMAIN cells = 0 .. Size + max_xpos - 1
    BY <2>2
  <2>4. On(cells', L, max_ypos - 1, w)
    BY <2>1, <2>2, <2>3, LastRowBlanked
  <2> QED BY <2>1, <2>2, <2>4 DEF Writing
<1>4. CASE Scrolled
  <2>1. /\ pc = "scrolled" /\ pc' = "place" /\ current_ypos' = max_ypos - 1
        /\ UNCHANGED <<cells, current_xpos, todo>>
    BY <1>4 DEF Scrolled, row_after_scroll
  <2>2. On(cells, L, max_ypos - 1, w) /\ Len(Last(L)) = 0 /\ current_xpos = 0
    BY <2>1, Positions DEF Writing, Vertical
  <2> QED BY <2>1, <2>2 DEF Writing
<1> QED BY <1>1, <1>2, <1>3, <1>4

LEMMA CharacterShows ==
    ASSUME IInv, NEW L \in Sheets, NEW w, Writing(L, w),
           Newline \/ CarriageReturn \/ Glyph \/ Store \/ Wrap \/ NextRow
    PROVE  Writing(L, w)' /\ todo' = todo
<1> DEFINE c == Head(todo)
<1>0. /\ current_xpos \in Nat /\ current_ypos \in Nat /\ max_ypos \in Nat
      /\ max_xpos \in Nat \ {0} /\ Len(Last(L)) \in Nat /\ L \in Seq(Seq(Marks))
      /\ Len(Last(L)) < max_xpos
  <2>1. /\ L[Len(L)] \in Seq(Marks) /\ Last(L) = L[Len(L)] /\ L \in Seq(Seq(Marks))
    BY InkedIs DEF Marks
  <2> QED BY <2>1, Sizes, Positions DEF Sheets
<1>1. CASE Newline
  <2>1. /\ pc = "place" /\ c = "\n" /\ pc' = "next_row" /\ current_xpos' = 0
        /\ UNCHANGED <<cells, current_ypos, todo>>
    BY <1>1 DEF Newline, first_column
  <2>2. On(cells, L, current_ypos, w) /\ c \in Marks
    BY <2>1, NextCharacter DEF Writing
  <2>3. Onto(L, c) = Append(L, <<>>)
    BY <2>1, <2>2, OntoIs
  <2>4. On(cells, Onto(L, c), current_ypos + 1, w)
    BY <1>0, <2>2, <2>3, NewRow
  <2>5. Len(Last(Onto(L, c))) = 0
    BY <1>0, <2>3 DEF Last
  <2> QED BY <2>1, <2>4, <2>5 DEF Writing
<1>2. CASE CarriageReturn
  <2>1. /\ pc = "place" /\ c = "\r" /\ pc' = "move_cursor"
        /\ UNCHANGED <<cells, current_xpos, current_ypos, todo>>
    BY <1>2 DEF CarriageReturn, position
  <2>2. On(cells, L, current_ypos, w) /\ current_xpos = Len(Last(L)) /\ c \in Marks
    BY <2>1, NextCharacter DEF Writing
  <2>3. Onto(L, c) = L
    BY <2>1, <2>2, OntoIs
  <2> QED BY <2>1, <2>2, <2>3 DEF Writing
<1>3. CASE Glyph
  <2>1. /\ pc = "place" /\ c \notin {"\n", "\r"} /\ pc' = "store"
        /\ current_xpos' = current_xpos + 1 /\ UNCHANGED <<cells, current_ypos, todo>>
    BY <1>3 DEF Glyph
  <2>2. On(cells, L, current_ypos, w) /\ current_xpos = Len(Last(L))
    BY <2>1 DEF Writing
  <2> QED BY <2>1, <2>2 DEF Writing
<1>4. CASE Store
  <2>1. /\ pc = "store" /\ cells' = [cells EXCEPT ![at] = c] /\ pc' = "wrap"
        /\ UNCHANGED <<current_xpos, current_ypos, todo>>
    BY <1>4 DEF Store, position
  <2>2. /\ On(cells, L, current_ypos, w) /\ c \in Marks /\ c \notin {"\n", "\r"}
        /\ current_xpos = Len(Last(L)) + 1 /\ cells \in [0 .. Size + max_xpos - 1 -> Marks]
    BY <2>1, NextCharacter DEF Writing
  <2>3. current_ypos < max_ypos /\ at = max_xpos * current_ypos + (current_xpos - 1)
    BY <2>1, Positions DEF Vertical, Horizontal
  <2>4. current_xpos - 1 = Len(Last(L))
    BY <1>0, <2>2
  <2>5. at = max_xpos * current_ypos + Len(Last(L))
    BY <2>3, <2>4
  <2>6. On(cells', Inked(L, c), current_ypos, w)
    <3> HIDE DEF c
    <3> QED BY <1>0, <2>1, <2>2, <2>3, <2>5, InkOnScreen
  <2> QED BY <2>1, <2>2, <2>6 DEF Writing
<1>5. CASE Wrap
  <2>1. /\ pc = "wrap"
        /\ \/ current_xpos >= max_xpos /\ current_xpos' = 0 /\ pc' = "next_row"
           \/ current_xpos < max_xpos /\ current_xpos' = current_xpos /\ pc' = "move_cursor"
        /\ UNCHANGED <<cells, current_ypos, todo>>
    BY <1>0, <1>5 DEF Wrap, row_full
  <2>2. /\ On(cells, Inked(L, c), current_ypos, w) /\ c \in Marks /\ c \notin {"\n", "\r"}
        /\ current_xpos = Len(Last(L)) + 1
    BY <2>1, NextCharacter DEF Writing
  <2>3. Inked(L, c) \in Seq(Seq(Marks)) /\ Len(Last(Inked(L, c))) = Len(Last(L)) + 1
    BY <2>2, InkedIs
  <2>4. CASE current_xpos >= max_xpos
    <3>1. Len(Last(L)) + 1 = max_xpos /\ current_xpos' = 0 /\ pc' = "next_row"
      BY <1>0, <2>1, <2>2, <2>4
    <3>2. Onto(L, c) = Append(Inked(L, c), <<>>)
      BY <2>2, <3>1, OntoIs
    <3>3. On(cells, Onto(L, c), current_ypos + 1, w)
      BY <1>0, <2>2, <2>3, <3>2, NewRow
    <3>4. Len(Last(Onto(L, c))) = 0
      BY <2>3, <3>2 DEF Last
    <3> QED BY <2>1, <3>1, <3>3, <3>4 DEF Writing
  <2>5. CASE current_xpos < max_xpos
    <3>1. Len(Last(L)) + 1 # max_xpos /\ current_xpos' = current_xpos /\ pc' = "move_cursor"
      BY <1>0, <2>1, <2>2, <2>5
    <3>2. Onto(L, c) = Inked(L, c)
      BY <2>2, <3>1, OntoIs
    <3> QED BY <2>1, <2>2, <2>3, <3>1, <3>2 DEF Writing
  <2> QED BY <1>0, <2>4, <2>5
<1>6. CASE NextRow
  <2>1. /\ pc = "next_row" /\ pc' = "move_cursor" /\ current_ypos' = current_ypos + 1
        /\ UNCHANGED <<cells, current_xpos, todo>>
    BY <1>6 DEF NextRow
  <2>2. On(cells, Onto(L, c), current_ypos + 1, w) /\ current_xpos = Len(Last(Onto(L, c)))
    BY <2>1 DEF Writing
  <2> QED BY <2>1, <2>2 DEF Writing
<1> QED BY <1>1, <1>2, <1>3, <1>4, <1>5, <1>6

LEMMA CharacterShown ==
    ASSUME IInv, NEW L \in Sheets, NEW w, Writing(L, w), MoveCursor
    PROVE  /\ todo # <<>> /\ Head(todo) \in Marks /\ todo' = Tail(todo)
           /\ \E K \in Sheets : K = Onto(L, Head(todo)) /\ Writing(K, w)'
<1>1. /\ pc = "move_cursor" /\ todo' = Tail(todo) /\ pc' = "begin"
      /\ UNCHANGED <<cells, current_xpos, current_ypos>>
  BY DEF MoveCursor, position
<1>2. todo # <<>> /\ Head(todo) \in Marks
  BY <1>1, NextCharacter, Positions DEF Progress
<1>3. PICK K \in Sheets : K = Onto(L, Head(todo))
  BY <1>2, OntoIs
<1>4. On(cells, K, current_ypos, w) /\ current_xpos = Len(Last(K))
  BY <1>1, <1>3 DEF Writing
<1>5. Writing(K, w)'
  BY <1>1, <1>4 DEF Writing
<1> QED BY <1>1, <1>2, <1>3, <1>5

-----------------------------------------------------------------------------
(* What is written of a string is on the screen, its steps under way too. *)
Picture(begun, string, w) ==
    \E D \in Seq(Marks) :
        /\ D \o todo = string
        /\ LinesAfter(begun, D) \in Sheets /\ Writing(LinesAfter(begun, D), w)

LEMMA PictureStep ==
    ASSUME IInv, NEW begun, NEW string, NEW w, Picture(begun, string, w), early_printk_write
    PROVE  Picture(begun, string, w)'
<1>1. PICK D \in Seq(Marks) :
          /\ D \o todo = string
          /\ LinesAfter(begun, D) \in Sheets /\ Writing(LinesAfter(begun, D), w)
  BY DEF Picture
<1>2. CASE ~ MoveCursor
  <2>1. \/ Begin \/ ScrollRow \/ BlankLastRow \/ Scrolled
        \/ Newline \/ CarriageReturn \/ Glyph \/ Store \/ Wrap \/ NextRow
    BY <1>2 DEF early_printk_write
  <2>2. Writing(LinesAfter(begun, D), w)' /\ todo' = todo
    BY <1>1, <2>1, ScrollShows, CharacterShows
  <2> QED BY <1>1, <2>2 DEF Picture
<1>3. CASE MoveCursor
  <2>1. PICK c : c = Head(todo)
    OBVIOUS
  <2>2. /\ todo # <<>> /\ c \in Marks /\ todo' = Tail(todo)
        /\ \E K \in Sheets : K = Onto(LinesAfter(begun, D), c) /\ Writing(K, w)'
    BY <1>1, <1>3, <2>1, CharacterShown
  <2>3. PICK K \in Sheets : K = Onto(LinesAfter(begun, D), c) /\ Writing(K, w)'
    BY <2>2
  <2>4. Append(D, c) \in Seq(Marks) /\ LinesAfter(begun, Append(D, c)) = K
    BY <2>2, <2>3, LinesGrow
  <2>5. Append(D, c) \o todo' = string
    <3>1. PICK t : t = todo
      OBVIOUS
    <3>2. t \in Seq(Characters \cup {Blank}) /\ t # <<>> /\ c = Head(t)
      BY <2>1, <2>2, <3>1, Positions
    <3>3. Append(D, c) \o Tail(t) = D \o t
      <4> HIDE DEF Marks
      <4>1. Append(D, c) \in Seq(Marks) /\ Tail(t) \in Seq(Characters \cup {Blank})
        BY <2>4, <3>2
      <4>2. Len(Append(D, c) \o Tail(t)) = Len(D \o t)
        BY <2>4, <3>2, <4>1
      <4>3. ASSUME NEW i \in 1 .. Len(D \o t) PROVE (Append(D, c) \o Tail(t))[i] = (D \o t)[i]
        BY <2>4, <3>2, <4>1
      <4> QED BY <4>2, <4>3, <4>1, <3>2
    <3> QED BY <1>1, <2>2, <3>1, <3>3
  <2>6. \E E \in Seq(Marks) :
          E \o todo' = string /\ LinesAfter(begun, E) \in Sheets /\ Writing(LinesAfter(begun, E), w)'
    BY <2>3, <2>4, <2>5
  <2> QED BY <2>6 DEF Picture
<1> QED BY <1>2, <1>3

-----------------------------------------------------------------------------
CursorFollows ==
    pc = "begin" /\ ~ Fresh => cursor = max_xpos * current_ypos + current_xpos

LEMMA CursorStep == ASSUME IInv, CursorFollows, Next PROVE CursorFollows'
<1>0. max_xpos \in Nat /\ current_ypos \in Nat
  BY Sizes, Positions
<1>1. CASE MoveCursor
  <2>1. cursor' = current_ypos * max_xpos + current_xpos /\ UNCHANGED <<current_xpos, current_ypos>>
    BY <1>1 DEF MoveCursor, early_printk_move_cursor, position
  <2>2. current_ypos * max_xpos = max_xpos * current_ypos
    BY <1>0
  <2> QED BY <2>1, <2>2 DEF CursorFollows
<1>2. CASE early_printk_write /\ ~ MoveCursor
  <2>1. pc' # "begin"
    BY <1>2 DEF early_printk_write, Begin, ScrollRow, BlankLastRow, Scrolled, Newline,
                CarriageReturn, Glyph, Store, Wrap, NextRow
  <2> QED BY <2>1 DEF CursorFollows
<1>3. CASE early_printk_setup
  <2>1. cursor' = 0 /\ current_xpos' = 0 /\ current_ypos' = 0
    BY <1>3 DEF early_printk_setup
  <2>2. max_xpos * 0 + 0 = 0
    BY <1>0
  <2> QED BY <2>1, <2>2 DEF CursorFollows
<1>4. ASSUME NEW c \in Glyphs \cup {"\n", "\r"}, putc(c) PROVE CursorFollows'
  <2>1. who = "kernel" /\ pc = "begin" /\ UNCHANGED <<current_xpos, current_ypos, cursor, who, pc>>
    BY <1>4 DEF putc, Written, position
  <2> QED BY <2>1 DEF CursorFollows, Fresh
<1>5. CASE isr_handler
  BY <1>5 DEF isr_handler, CursorFollows, Fresh
<1> QED BY <1>1, <1>2, <1>3, <1>4, <1>5 DEF Next

-----------------------------------------------------------------------------
(* The cells that the setup has blanked, and those it has yet to.          *)
Reached ==
    max_xpos * (IF pc = "next_row" THEN current_ypos + 1 ELSE current_ypos)
        + current_xpos - (IF pc = "store" THEN 1 ELSE 0)

Clearing ==
    who = "setup" =>
        /\ text = <<>> /\ pc \notin {"scroll", "scrolled"}
        /\ \A i \in DOMAIN todo : todo[i] = Blank
        /\ Reached + Len(todo)
               = Size + (IF pc \in {"wrap", "next_row", "move_cursor"} THEN 1 ELSE 0)
        /\ \A i \in 0 .. Size - 1 : i < Reached => cells[i] = Blank

LEMMA ClearingBegins == Init => Clearing
<1> SUFFICES ASSUME Init PROVE Clearing
  OBVIOUS
<1>1. /\ text = <<>> /\ pc = "begin" /\ current_xpos = 0 /\ current_ypos = 0
      /\ todo = [i \in 1 .. Size |-> Blank]
  BY DEF Init
<1>2. Size \in Nat /\ max_xpos \in Nat
  BY Sizes
<1>3. Len(todo) = Size /\ \A i \in DOMAIN todo : todo[i] = Blank
  <2> HIDE DEF Size
  <2> QED BY <1>1, <1>2
<1>4. Reached = 0
  BY <1>1, <1>2 DEF Reached
<1> HIDE DEF Size
<1> QED BY <1>1, <1>2, <1>3, <1>4 DEF Clearing

LEMMA ClearingStep ==
    ASSUME IInv, Clearing, who = "setup", early_printk_write
    PROVE  Clearing'
<1> DEFINE a == max_xpos * current_ypos
           b == max_xpos * (current_ypos + 1)
<1>1. /\ text = <<>> /\ pc \notin {"scroll", "scrolled"}
      /\ \A i \in DOMAIN todo : todo[i] = Blank
      /\ Reached + Len(todo)
             = Size + (IF pc \in {"wrap", "next_row", "move_cursor"} THEN 1 ELSE 0)
      /\ \A i \in 0 .. Size - 1 : i < Reached => cells[i] = Blank
  BY DEF Clearing
<1>2. /\ max_xpos \in Nat \ {0} /\ Size \in Nat /\ current_xpos \in Nat /\ current_ypos \in Nat
      /\ a \in Nat /\ b = a + max_xpos /\ max_ypos \in Nat
  BY Sizes, Positions
<1>3. Reached = (IF pc = "next_row" THEN b ELSE a) + current_xpos - (IF pc = "store" THEN 1 ELSE 0)
  BY DEF Reached
<1>4. Len(todo) \in Nat /\ (pc # "begin" => Len(todo) > 0 /\ Head(todo) = Blank)
  <2>1. todo \in Seq(Characters \cup {Blank}) /\ (pc # "begin" => todo # <<>>)
    BY Positions DEF Progress
  <2>2. pc # "begin" => 1 \in DOMAIN todo /\ Head(todo) = todo[1]
    BY <2>1
  <2> QED BY <1>1, <2>1, <2>2
<1>5. text' = text /\ who' = who
  BY DEF early_printk_write, Begin, ScrollRow, BlankLastRow, Scrolled, Newline,
         CarriageReturn, Glyph, Store, Wrap, NextRow, MoveCursor
<1> SUFFICES /\ pc' \notin {"scroll", "scrolled"}
             /\ \A i \in DOMAIN todo' : todo'[i] = Blank
             /\ Reached' + Len(todo')
                    = Size + (IF pc' \in {"wrap", "next_row", "move_cursor"} THEN 1 ELSE 0)
             /\ \A i \in 0 .. Size - 1 : i < Reached' => cells'[i] = Blank
  BY <1>1, <1>5 DEF Clearing, Size
<1>6. CASE Begin
  <2>1. /\ pc = "begin" /\ pc' = (IF current_ypos >= max_ypos THEN "scroll" ELSE "place")
        /\ UNCHANGED <<cells, current_xpos, current_ypos, todo>> /\ todo # <<>>
    BY <1>6 DEF Begin, scroll_due, position
  <2>2. Len(todo) > 0
    BY <1>4, <2>1, Positions
  <2>3. current_ypos < max_ypos
    <3>1. SUFFICES ASSUME current_ypos = max_ypos PROVE FALSE
      BY <1>2, Positions
    <3>2. a = Size
      BY <3>1 DEF Size
    <3> HIDE DEF a, b, Size
    <3> QED BY <1>1, <1>2, <1>3, <1>4, <2>1, <2>2, <3>2
  <2>4. pc' = "place"
    BY <1>2, <2>1, <2>3
  <2>5. Reached' = Reached
    BY <2>1, <2>4 DEF Reached
  <2> QED BY <1>1, <2>1, <2>4, <2>5
<1>7. CASE ScrollRow \/ BlankLastRow \/ Scrolled \/ Newline \/ CarriageReturn
  BY <1>1, <1>4, <1>7 DEF ScrollRow, BlankLastRow, Scrolled, Newline, CarriageReturn, Blank
<1>8. CASE Glyph
  <2>1. /\ pc = "place" /\ pc' = "store" /\ current_xpos' = current_xpos + 1
        /\ UNCHANGED <<cells, current_ypos, todo>>
    BY <1>8 DEF Glyph
  <2>2. Reached' = a + (current_xpos + 1) - 1
    BY <2>1 DEF Reached
  <2>3. Reached' = Reached
    <3> HIDE DEF a, b, Size
    <3> QED BY <1>2, <1>3, <2>1, <2>2
  <2> QED BY <1>1, <2>1, <2>3
<1>9. CASE Store
  <2>1. /\ pc = "store" /\ cells' = [cells EXCEPT ![at] = Blank] /\ pc' = "wrap"
        /\ UNCHANGED <<current_xpos, current_ypos, todo>>
    BY <1>4, <1>9 DEF Store, position
  <2>2. at = a + (current_xpos - 1)
    BY <2>1, Positions DEF Horizontal
  <2>3. Reached' = a + current_xpos
    <3>1. Reached' = a + current_xpos - 0
      BY <2>1 DEF Reached
    <3> HIDE DEF a
    <3> QED BY <1>2, <3>1
  <2>4. Reached = at /\ Reached' = at + 1 /\ at \in Int
    <3> HIDE DEF a, b, Size
    <3> QED BY <1>2, <1>3, <2>1, <2>2, <2>3
  <2>5. DOMAIN cells = 0 .. Size + max_xpos - 1
    BY DEF IInv, Confined, TypeOK
  <2>6. ASSUME NEW i \in 0 .. Size - 1, i < at + 1 PROVE cells'[i] = Blank
    <3>1. i \in DOMAIN cells /\ (i # at => i < at)
      <4> HIDE DEF Size
      <4> QED BY <1>2, <2>4, <2>5, <2>6
    <3> QED BY <1>1, <2>1, <2>4, <3>1
  <2> HIDE DEF a, b, Size
  <2> QED BY <1>1, <1>2, <1>4, <2>1, <2>4, <2>6
<1>10. CASE Wrap
  <2>1. /\ pc = "wrap"
        /\ \/ current_xpos >= max_xpos /\ current_xpos' = 0 /\ pc' = "next_row"
           \/ current_xpos < max_xpos /\ current_xpos' = current_xpos /\ pc' = "move_cursor"
        /\ UNCHANGED <<cells, current_ypos, todo>>
    BY <1>2, <1>10 DEF Wrap, row_full
  <2>2. current_xpos \in 1 .. max_xpos
    BY <2>1, Positions DEF Horizontal, Fresh
  <2>3. Reached' = Reached
    <3>1. CASE current_xpos >= max_xpos
      <4>1. Reached' = b + 0 - 0
        BY <1>2, <2>1, <3>1 DEF Reached
      <4> HIDE DEF a, b, Size
      <4> QED BY <1>2, <1>3, <2>1, <2>2, <3>1, <4>1
    <3>2. CASE current_xpos < max_xpos
      <4>1. Reached' = a + current_xpos - 0
        BY <1>2, <2>1, <3>2 DEF Reached
      <4> HIDE DEF a, b, Size
      <4> QED BY <1>2, <1>3, <2>1, <2>2, <3>2, <4>1
    <3> QED BY <1>2, <3>1, <3>2
  <2> QED BY <1>1, <2>1, <2>3
<1>11. CASE NextRow
  <2>1. /\ pc = "next_row" /\ pc' = "move_cursor" /\ current_ypos' = current_ypos + 1
        /\ UNCHANGED <<cells, current_xpos, todo>>
    BY <1>11 DEF NextRow
  <2>2. Reached' = Reached
    BY <2>1 DEF Reached
  <2> QED BY <1>1, <2>1, <2>2
<1>12. CASE MoveCursor
  <2>1. /\ pc = "move_cursor" /\ todo' = Tail(todo) /\ pc' = "begin"
        /\ UNCHANGED <<cells, current_xpos, current_ypos>>
    BY <1>12 DEF MoveCursor, position
  <2>2. Reached' = Reached
    BY <2>1 DEF Reached
  <2>3. Len(todo') = Len(todo) - 1 /\ \A i \in DOMAIN todo' : todo'[i] = Blank
    <3>1. todo \in Seq(Characters \cup {Blank}) /\ todo # <<>>
      BY <2>1, Positions DEF Progress
    <3> QED BY <1>1, <2>1, <3>1
  <2>4. Reached \in Int
    <3> HIDE DEF a, b, Size
    <3> QED BY <1>2, <1>3
  <2> HIDE DEF a, b, Size
  <2> QED BY <1>1, <1>2, <1>4, <2>1, <2>2, <2>3, <2>4
<1> QED BY <1>6, <1>7, <1>8, <1>9, <1>10, <1>11, <1>12 DEF early_printk_write

-----------------------------------------------------------------------------
KernelShows == who = "kernel" => Picture(<<>>, text, "kernel")

(* The row was full, and its wrap is lost with the first character.        *)
Losing ==
    /\ todo = Report
    /\ pc \in {"begin", "place", "store", "wrap", "next_row", "move_cursor"}
    /\ pc \in {"begin", "place"} => current_xpos = max_xpos
    /\ pc \in {"store", "wrap"} => current_xpos = max_xpos + 1
    /\ pc \in {"next_row", "move_cursor"} => current_xpos = 0

Smudge(column) == [x \in 1 .. column |-> Junk]

ExceptionShows ==
    who = "exception" =>
        \/ Losing
        \/ \E column \in 0 .. max_xpos - 1, lost \in 0 .. 1 :
               Picture(Smudge(column), SubSeq(Report, lost + 1, Len(Report)), "exception")

Shown == Clearing /\ CursorFollows /\ KernelShows /\ ExceptionShows

(* A paper with one row begun. *)
LEMMA OneRow ==
    ASSUME NEW begun \in Seq(Marks), Len(begun) < max_xpos
    PROVE  /\ LinesAfter(begun, <<>>) = <<begun>> /\ <<begun>> \in Sheets
           /\ Last(<<begun>>) = begun
<1>1. LinesAfter(begun, <<>>) = <<begun>>
  BY LinesGrow DEF Marks
<1>2. <<begun>> \in Seq(Seq(Marks)) /\ <<begun>> # <<>> /\ <<begun>>[Len(<<begun>>)] = begun
  OBVIOUS
<1> QED BY <1>1, <1>2 DEF Sheets, Last

LEMMA KernelBegins ==
    ASSUME IInv, Shown, early_printk_setup PROVE Picture(<<>>, text, "kernel")'
<1>1. /\ who = "setup" /\ pc = "begin" /\ todo = <<>> /\ current_xpos' = 0 /\ current_ypos' = 0
      /\ UNCHANGED <<cells, todo, pc, text>>
  BY DEF early_printk_setup, Written
<1>2. text = <<>> /\ Reached = Size /\ \A i \in 0 .. Size - 1 : i < Reached => cells[i] = Blank
  <2>1. Reached \in Int /\ Size \in Nat
    <3>1. max_xpos * current_ypos \in Int /\ current_xpos \in Int /\ Size \in Nat
      BY Sizes, Positions
    <3> QED BY <1>1, <3>1 DEF Reached
  <2>2. Reached + 0 = Size + 0
    <3>1. Len(todo) = 0 /\ pc \notin {"wrap", "next_row", "move_cursor"}
      BY <1>1
    <3>2. Reached + Len(todo)
              = Size + (IF pc \in {"wrap", "next_row", "move_cursor"} THEN 1 ELSE 0)
      BY <1>1 DEF Shown, Clearing
    <3> QED BY <3>1, <3>2
  <2> HIDE DEF Size
  <2>3. Reached = Size
    BY <2>1, <2>2
  <2> QED BY <1>1, <2>3 DEF Shown, Clearing
<1> DEFINE L == <<<<>>>>
<1>3. LinesAfter(<<>>, <<>>) = L /\ L \in Sheets /\ Len(Last(L)) = 0
  <2>1. <<>> \in Seq(Marks) /\ Len(<<>>) < max_xpos /\ Len(<<>>) = 0
    BY Sizes
  <2> QED BY <2>1, OneRow
<1>4. On(cells, L, 0, "kernel")
  <2>1. ASSUME NEW r \in 0 .. max_ypos - 1, NEW x \in 1 .. max_xpos
        PROVE  Shows(cells[CellOf(r, x)], L, Len(L) - 0 + r, x, "kernel")
    <3>1. CellOf(r, x) \in 0 .. Size - 1
      BY CellsOfRows
    <3>2. cells[CellOf(r, x)] = Blank
      <4> HIDE DEF Size
      <4> QED BY <1>2, <3>1, Sizes
    <3>3. \A i \in DOMAIN L : L[i] = <<>>
      OBVIOUS
    <3> HIDE DEF L
    <3> QED BY <3>2, <3>3 DEF Shows
  <2>2. Len(L) = 1
    OBVIOUS
  <2> QED BY <2>1, <2>2 DEF On
<1>5. Writing(L, "kernel")'
  BY <1>1, <1>3, <1>4 DEF Writing
<1>6. <<>> \in Seq(Marks) /\ <<>> \o todo' = text'
  BY <1>1, <1>2
<1> HIDE DEF L
<1> QED BY <1>3, <1>5, <1>6 DEF Picture

LEMMA KernelPrints ==
    ASSUME IInv, Picture(<<>>, text, "kernel"), NEW c \in Glyphs \cup {"\n", "\r"}, putc(c)
    PROVE  Picture(<<>>, text, "kernel")'
<1>1. /\ pc = "begin" /\ todo = <<>> /\ todo' = <<c>> /\ text' = Append(text, c)
      /\ UNCHANGED <<cells, current_xpos, current_ypos, pc>>
  BY DEF putc, Written, position
<1>2. PICK D \in Seq(Marks) :
          /\ D \o todo = text
          /\ LinesAfter(<<>>, D) \in Sheets /\ Writing(LinesAfter(<<>>, D), "kernel")
  BY DEF Picture
<1>3. D \o todo' = text'
  <2>1. D \o <<>> = D /\ D \o <<c>> = Append(D, c)
    <3> HIDE DEF Marks
    <3> QED OBVIOUS
  <2> QED BY <1>1, <1>2, <2>1
<1>4. Writing(LinesAfter(<<>>, D), "kernel")'
  BY <1>1, <1>2 DEF Writing
<1> QED BY <1>2, <1>3, <1>4 DEF Picture

-----------------------------------------------------------------------------
(* An exception that finds a row with room begins in the middle of it. *)
LEMMA ReportBegins ==
    ASSUME IInv, isr_handler PROVE ExceptionShows'
<1>1. /\ who = "kernel" /\ who' = "exception" /\ todo' = Report /\ pc' = "begin"
      /\ UNCHANGED <<cells, current_xpos, current_ypos>>
  BY DEF isr_handler, position
<1>2. current_xpos \in 0 .. max_xpos
  BY <1>1, ColumnFound
<1>3. CASE current_xpos = max_xpos
  <2>1. Losing'
    BY <1>1, <1>3 DEF Losing
  <2> QED BY <2>1 DEF ExceptionShows
<1>4. CASE current_xpos # max_xpos
  <2>1. PICK column \in 0 .. max_xpos - 1 : column = current_xpos
    BY <1>2, <1>4, Sizes
  <2> DEFINE b == Smudge(column)
             L == <<b>>
  <2>2. max_xpos \in Nat /\ column \in Nat /\ column < max_xpos
    BY Sizes
  <2>3. b \in Seq(Marks) /\ Len(b) = column /\ \A x \in DOMAIN b : b[x] = Junk
    BY <2>2 DEF Smudge, Marks
  <2>4. LinesAfter(b, <<>>) = L /\ L \in Sheets /\ Last(L) = b
    BY <2>2, <2>3, OneRow
  <2>5. \A i \in DOMAIN L : L[i] = b
    OBVIOUS
  <2> HIDE DEF b, L
  <2>6. On(cells, L, current_ypos, "exception")
    BY <2>3, <2>5 DEF On, Shows
  <2>7. Writing(L, "exception")'
    BY <1>1, <2>1, <2>3, <2>4, <2>6 DEF Writing
  <2>8. Picture(b, Report, "exception")'
    <3>1. <<>> \in Seq(Marks) /\ <<>> \o Report = Report
      BY TerminalAssumption
    <3> QED BY <1>1, <2>4, <2>7, <3>1 DEF Picture
  <2>9. SubSeq(Report, 0 + 1, Len(Report)) = Report
    BY TerminalAssumption
  <2>10. 0 \in 0 .. 1
    OBVIOUS
  <2> QED BY <2>8, <2>9, <2>10 DEF ExceptionShows, b
<1> QED BY <1>3, <1>4

(* With the first character gone, the report begins a row of its own. *)
LEMMA LosingStep ==
    ASSUME IInv, who = "exception", Losing, early_printk_write PROVE ExceptionShows'
<1>1. max_xpos \in Nat \ {0} /\ Head(Report) \notin {"\n", "\r"}
  BY TerminalAssumption
<1>2. CASE MoveCursor
  <2>1. /\ pc = "move_cursor" /\ todo' = Tail(Report) /\ pc' = "begin"
        /\ UNCHANGED <<cells, current_xpos, current_ypos>> /\ current_xpos = 0
    BY <1>2 DEF MoveCursor, Losing, position
  <2> DEFINE b == Smudge(0)
             L == <<b>>
  <2>2. b = <<>>
    BY DEF Smudge
  <2>3. b \in Seq(Marks) /\ Len(b) < max_xpos
    <3>1. <<>> \in Seq(Marks) /\ Len(<<>>) < max_xpos
      BY <1>1
    <3> QED BY <2>2, <3>1
  <2>4. LinesAfter(b, <<>>) = L /\ L \in Sheets /\ Last(L) = b
    BY <2>3, OneRow
  <2>5. \A i \in DOMAIN L : L[i] = <<>>
    BY <2>2
  <2>6. Len(Last(L)) = 0
    BY <2>2, <2>4
  <2> HIDE DEF b, L
  <2>7. On(cells, L, current_ypos, "exception")
    BY <2>5 DEF On, Shows
  <2>8. Writing(L, "exception")'
    BY <2>1, <2>6, <2>7 DEF Writing
  <2>9. Picture(b, Tail(Report), "exception")'
    <3>1. <<>> \in Seq(Marks) /\ <<>> \o Tail(Report) = Tail(Report)
      BY TerminalAssumption
    <3> QED BY <2>1, <2>4, <2>8, <3>1 DEF Picture
  <2>10. SubSeq(Report, 1 + 1, Len(Report)) = Tail(Report)
    BY TerminalAssumption
  <2>11. 0 \in 0 .. max_xpos - 1 /\ 1 \in 0 .. 1
    BY <1>1
  <2> QED BY <2>9, <2>10, <2>11 DEF ExceptionShows, b
<1>3. CASE ~ MoveCursor
  <2>1. \/ Begin \/ Newline \/ CarriageReturn \/ Glyph \/ Store \/ Wrap \/ NextRow
    BY <1>3 DEF early_printk_write, ScrollRow, BlankLastRow, Scrolled, Losing
  <2>2. ~ Newline /\ ~ CarriageReturn
    BY <1>1 DEF Newline, CarriageReturn, Losing
  <2>3. CASE Begin
    <3>1. current_ypos < max_ypos
      BY <1>1, <2>3, Sizes, Positions DEF Begin, Losing, Vertical
    <3>2. pc' = "place"
      BY <2>3, <3>1, Sizes, Positions DEF Begin, scroll_due
    <3> QED BY <2>3, <3>2 DEF Begin, Losing, position, ExceptionShows
  <2>4. CASE Glyph
    BY <2>4 DEF Glyph, Losing, ExceptionShows
  <2>5. CASE Store
    BY <2>5 DEF Store, Losing, position, ExceptionShows
  <2>6. CASE Wrap
    <3>1. max_xpos + 1 >= max_xpos
      BY <1>1
    <3> QED BY <2>6, <3>1 DEF Wrap, row_full, Losing, ExceptionShows
  <2>7. CASE NextRow
    BY <2>7 DEF NextRow, Losing, ExceptionShows
  <2> QED BY <2>1, <2>2, <2>3, <2>4, <2>5, <2>6, <2>7
<1> QED BY <1>2, <1>3

-----------------------------------------------------------------------------
LEMMA ShownBegins == Init => Shown
<1> SUFFICES ASSUME Init PROVE Shown
  OBVIOUS
<1>1. who = "setup" /\ cursor = 0 /\ current_xpos = 0 /\ current_ypos = 0
  BY DEF Init
<1>2. CursorFollows
  <2>1. max_xpos * 0 + 0 = 0
    BY Sizes
  <2> QED BY <1>1, <2>1 DEF CursorFollows
<1> QED BY <1>1, <1>2, ClearingBegins DEF Shown, KernelShows, ExceptionShows

LEMMA ShownStep == IInv /\ Shown /\ [Next]_vars => Shown'
<1> SUFFICES ASSUME IInv, Shown, [Next]_vars PROVE Shown'
  OBVIOUS
<1>1. CASE UNCHANGED vars
  <2>1. UNCHANGED <<cells, current_xpos, current_ypos, cursor, who, todo, pc, k, text>>
    BY <1>1 DEF vars, position
  <2>2. Clearing' /\ CursorFollows'
    BY <2>1 DEF Shown, Clearing, Reached, CursorFollows, Fresh
  <2>3. ASSUME NEW begun, NEW string, NEW w, Picture(begun, string, w)
        PROVE  Picture(begun, string, w)'
    BY <2>1, <2>3 DEF Picture, Writing
  <2>4. KernelShows'
    <3>1. Picture(<<>>, text, "kernel") => Picture(<<>>, text, "kernel")'
      BY <2>1 DEF Picture, Writing
    <3> QED BY <2>1, <3>1 DEF Shown, KernelShows
  <2>5. ExceptionShows'
    BY <2>1, <2>3 DEF Shown, ExceptionShows, Losing
  <2> QED BY <2>2, <2>4, <2>5 DEF Shown
<1>2. CASE early_printk_write
  <2>1. who' = who /\ text' = text
    BY <1>2 DEF early_printk_write, Begin, ScrollRow, BlankLastRow, Scrolled, Newline,
                CarriageReturn, Glyph, Store, Wrap, NextRow, MoveCursor
  <2>2. Clearing'
    BY <1>2, <2>1, ClearingStep DEF Shown, Clearing
  <2>3. CursorFollows'
    BY <1>2, CursorStep DEF Shown, Next
  <2>4. KernelShows'
    <3> SUFFICES ASSUME who = "kernel" PROVE Picture(<<>>, text, "kernel")'
      BY <2>1 DEF KernelShows
    <3>1. PICK t : t = text
      OBVIOUS
    <3>2. Picture(<<>>, t, "kernel")
      BY <3>1 DEF Shown, KernelShows
    <3>3. Picture(<<>>, t, "kernel")'
      BY <1>2, <3>2, PictureStep
    <3> QED BY <2>1, <3>1, <3>3 DEF Picture
  <2>5. ExceptionShows'
    <3> SUFFICES ASSUME who = "exception" PROVE ExceptionShows'
      BY <2>1 DEF ExceptionShows
    <3>1. CASE Losing
      BY <1>2, <3>1, LosingStep
    <3>2. ASSUME NEW column \in 0 .. max_xpos - 1, NEW lost \in 0 .. 1,
                 Picture(Smudge(column), SubSeq(Report, lost + 1, Len(Report)), "exception")
          PROVE  ExceptionShows'
      <4>1. Picture(Smudge(column), SubSeq(Report, lost + 1, Len(Report)), "exception")'
        BY <1>2, <3>2, PictureStep
      <4> QED BY <4>1 DEF ExceptionShows
    <3> QED BY <3>1, <3>2 DEF Shown, ExceptionShows
  <2> QED BY <2>2, <2>3, <2>4, <2>5 DEF Shown
<1>3. CASE early_printk_setup
  <2>1. who' = "kernel"
    BY <1>3 DEF early_printk_setup
  <2> QED BY <1>3, <2>1, CursorStep, KernelBegins
          DEF Next, Shown, Clearing, KernelShows, ExceptionShows
<1>4. ASSUME NEW c \in Glyphs \cup {"\n", "\r"}, putc(c) PROVE Shown'
  <2>1. who = "kernel" /\ who' = "kernel"
    BY <1>4 DEF putc
  <2>2. Picture(<<>>, text, "kernel")'
    BY <1>4, <2>1, KernelPrints DEF Shown, KernelShows
  <2>3. CursorFollows'
    BY <1>4, CursorStep DEF Shown, Next
  <2> QED BY <2>1, <2>2, <2>3 DEF Shown, Clearing, KernelShows, ExceptionShows
<1>5. CASE isr_handler
  <2>1. who' = "exception"
    BY <1>5 DEF isr_handler
  <2> QED BY <1>5, <2>1, CursorStep, ReportBegins DEF Next, Shown, Clearing, KernelShows
<1> QED BY <1>1, <1>2, <1>3, <1>4, <1>5 DEF Next

-----------------------------------------------------------------------------
(* A row of the screen, place by place. *)
LEMMA RowIs ==
    ASSUME NEW r, NEW x \in 1 .. max_xpos PROVE Row(r)[x] = cells[CellOf(r, x)]
BY DEF Row, CellOf

LEMMA TailIsShown == IInv /\ Shown => ShowsTail
<1> SUFFICES ASSUME IInv, Shown, who = "kernel", Written PROVE ShowsTail
  BY DEF ShowsTail
<1>1. pc = "begin" /\ todo = <<>>
  BY DEF Written
<1>2. PICK D \in Seq(Marks) :
          /\ D \o todo = text
          /\ LinesAfter(<<>>, D) \in Sheets /\ Writing(LinesAfter(<<>>, D), "kernel")
  BY DEF Picture, Shown, KernelShows
<1>3. D = text
  <2>1. D \o <<>> = D
    <3> HIDE DEF Marks
    <3> QED OBVIOUS
  <2> QED BY <1>1, <1>2, <2>1
<1>4. PICK L : L = LinesAfter(<<>>, text)
  OBVIOUS
<1>5. L \in Sheets /\ On(cells, L, current_ypos, "kernel") /\ current_xpos = Len(Last(L))
  BY <1>1, <1>2, <1>3, <1>4 DEF Writing
<1>6. /\ L \in Seq(Seq(Marks)) /\ Len(L) \in Nat \ {0} /\ DOMAIN L = 1 .. Len(L)
      /\ current_ypos \in Nat /\ max_ypos \in Nat /\ max_xpos \in Nat
  BY <1>5, Sizes, Positions DEF Sheets
<1>7. cursor = max_xpos * current_ypos + current_xpos
  BY <1>1 DEF Shown, CursorFollows, Fresh
<1> DEFINE above == Len(L) - 1 - current_ypos
<1>8. above >= 0 /\ (above > 0 => current_ypos >= max_ypos - 1)
  BY <1>5, <1>6 DEF On
<1>9. ASSUME NEW r \in 0 .. max_ypos - 1
      PROVE  Row(r) = Padded(IF above + r < Len(L) THEN L[above + r + 1] ELSE <<>>)
  <2> DEFINE line == IF above + r < Len(L) THEN L[above + r + 1] ELSE <<>>
             i == Len(L) - current_ypos + r
  <2>1. i \in Int /\ above + r + 1 = i /\ i >= 1 /\ (above + r < Len(L) <=> i \in DOMAIN L)
    BY <1>6, <1>8
  <2>2. line = IF i \in DOMAIN L THEN L[i] ELSE <<>>
    BY <2>1
  <2> HIDE DEF line
  <2>3. line \in Seq(Marks)
    BY <1>6, <2>2
  <2>4. ASSUME NEW x \in 1 .. max_xpos
        PROVE  cells[CellOf(r, x)] = IF x <= Len(line) THEN line[x] ELSE Blank
    <3>1. Shows(cells[CellOf(r, x)], L, i, x, "kernel")
      BY <1>5 DEF On
    <3> HIDE DEF i
    <3>2. x <= Len(line) <=> i \in DOMAIN L /\ x \in DOMAIN L[i]
      <4>1. x <= Len(line) <=> x \in DOMAIN line
        BY <2>3
      <4> QED BY <2>2, <4>1
    <3>3. x <= Len(line) => line = L[i]
      BY <2>2, <3>2
    <3> QED BY <3>1, <3>2, <3>3 DEF Shows
  <2>5. Row(r) = Padded(line)
    BY <2>4 DEF Row, CellOf, Padded
  <2> QED BY <2>5 DEF line
<1> HIDE DEF above
<1>10. /\ above >= 0 /\ (above > 0 => current_ypos >= max_ypos - 1)
       /\ \A r \in 0 .. max_ypos - 1 :
              Row(r) = Padded(IF above + r < Len(L) THEN L[above + r + 1] ELSE <<>>)
       /\ current_xpos = Len(Last(L))
       /\ cursor = max_xpos * current_ypos + current_xpos
  BY <1>5, <1>7, <1>8, <1>9
<1> QED BY <1>4, <1>10 DEF ShowsTail, above

LEMMA ReportIsShown == IInv /\ Shown => ReportReadable
<1> SUFFICES ASSUME IInv, Shown, who = "exception", Written PROVE ReportReadable
  BY DEF ReportReadable, Halted
<1>1. pc = "begin" /\ todo = <<>> /\ todo # Report
  BY TerminalAssumption DEF Written
<1>2. PICK column \in 0 .. max_xpos - 1, lost \in 0 .. 1 :
          Picture(Smudge(column), SubSeq(Report, lost + 1, Len(Report)), "exception")
  BY <1>1 DEF Shown, ExceptionShows, Losing
<1> DEFINE b == Smudge(column)
           string == SubSeq(Report, lost + 1, Len(Report))
<1>3. PICK D \in Seq(Marks) :
          /\ D \o todo = string
          /\ LinesAfter(b, D) \in Sheets /\ Writing(LinesAfter(b, D), "exception")
  BY <1>2 DEF Picture
<1>4. D = string
  <2>1. D \o <<>> = D
    <3> HIDE DEF Marks
    <3> QED OBVIOUS
  <2> QED BY <1>1, <1>3, <2>1
<1>5. PICK L : L = LinesAfter(b, string)
  OBVIOUS
<1>6. L \in Sheets /\ On(cells, L, current_ypos, "exception") /\ current_xpos = Len(Last(L))
  BY <1>1, <1>3, <1>4, <1>5 DEF Writing
<1>7. cursor = max_xpos * current_ypos + current_xpos
  BY <1>1 DEF Shown, CursorFollows, Fresh
<1> DEFINE above == Len(L) - 1 - current_ypos
<1>8. ASSUME NEW r \in 0 .. max_ypos - 1, NEW x \in 1 .. max_xpos, above + r + 1 \in DOMAIN L,
             x \in DOMAIN L[above + r + 1], L[above + r + 1][x] # Junk
      PROVE  Row(r)[x] = L[above + r + 1][x]
  <2>1. above + r + 1 = Len(L) - current_ypos + r
    <3>1. Len(L) \in Nat /\ current_ypos \in Nat
      BY <1>6, Positions DEF Sheets
    <3> QED BY <3>1
  <2>2. Shows(cells[CellOf(r, x)], L, Len(L) - current_ypos + r, x, "exception")
    BY <1>6 DEF On
  <2> HIDE DEF above
  <2> QED BY <1>8, <2>1, <2>2, RowIs DEF Shows
<1> HIDE DEF above
<1>9. /\ \A r \in 0 .. max_ypos - 1, x \in 1 .. max_xpos :
             above + r + 1 \in DOMAIN L =>
                 LET line == L[above + r + 1]
                 IN  x \in DOMAIN line /\ line[x] # Junk => Row(r)[x] = line[x]
      /\ current_xpos = Len(Last(L))
      /\ cursor = max_xpos * current_ypos + current_xpos
  BY <1>6, <1>7, <1>8
<1> QED BY <1>5, <1>9 DEF ReportReadable, above, b, string, Smudge

(***************************************************************************)
(* Whenever the kernel has written a text, the screen shows its last rows  *)
(* and the cursor stands behind them, whatever the size of the screen and  *)
(* the length of the text.                                                 *)
(***************************************************************************)
THEOREM ScreenShowsTail == Spec => []ShowsTail
<1>1. Init => IInv /\ Shown
  BY InitConfined, ShownBegins
<1>2. IInv /\ Shown /\ [Next]_vars => (IInv /\ Shown)'
  BY ConfinedStep, ShownStep
<1> QED BY <1>1, <1>2, TailIsShown, PTL DEF Spec

(***************************************************************************)
(* An exception's report ends up on the screen, all but at most its first  *)
(* character, at whatever step of whatever character it came.              *)
(***************************************************************************)
THEOREM ReportIsReadable == Spec => []ReportReadable
<1>1. Init => IInv /\ Shown
  BY InitConfined, ShownBegins
<1>2. IInv /\ Shown /\ [Next]_vars => (IInv /\ Shown)'
  BY ConfinedStep, ShownStep
<1> QED BY <1>1, <1>2, ReportIsShown, PTL DEF Spec
=============================================================================
