------------------------------ MODULE Terminal ------------------------------
(***************************************************************************)
(* arch/x86/early_printk.c: the VGA text console under printk, while the   *)
(* kernel starts (setup), while the kernel prints, and when an exception's *)
(* report (irq.c:61) takes over at any point of a character and never      *)
(* returns.  A row of the scroll is one step, every other store its own.   *)
(***************************************************************************)
EXTENDS Integers, FiniteSets, Sequences, SequencesExt

CONSTANTS
    max_xpos, max_ypos,   \* the size of the screen
    Glyphs,               \* the characters that show, in what the kernel prints
    Report,               \* what isr_handler prints
    MaxText               \* bound: the characters the kernel prints

ASSUME TerminalAssumption ==
    /\ max_xpos \in Nat \ {0} /\ max_ypos \in Nat \ {0}
    /\ IsFiniteSet(Glyphs) /\ {"\n", "\r"} \cap Glyphs = {}
    /\ Report \in Seq(ToSet(Report)) /\ Report # <<>>
    /\ Head(Report) \notin {"\n", "\r"}

VARIABLES
    cells,                        \* the text memory, a row more than the screen
    current_xpos, current_ypos,
    cursor,                       \* the CRT controller's cursor
    who,                          \* whose output: "setup", "kernel" or "exception"
    todo,                         \* what is left of the string being written
    pc, k, at,                    \* the step of the character, the row, the cell
    text                          \* history: what the kernel has printed

position == <<current_xpos, current_ypos>>
vars == <<cells, position, cursor, who, todo, pc, k, at, text>>

Size == max_xpos * max_ypos
Blank == " "
Junk == "junk"        \* what the memory holds before setup
Characters == Glyphs \cup ToSet(Report) \cup {"\n", "\r"}

Init ==
    /\ cells = [i \in 0 .. Size + max_xpos - 1 |-> Junk]
    /\ current_xpos = 0 /\ current_ypos = 0
    /\ cursor = 0
    /\ who = "setup" /\ todo = [i \in 1 .. Size |-> Blank]
    /\ pc = "begin" /\ k = 0 /\ at = 0
    /\ text = <<>>

-----------------------------------------------------------------------------
(* mutated: the row behind the last one is taken for a row of the screen *)
scroll_late == current_ypos > max_ypos
scroll_due == current_ypos >= max_ypos

Begin ==
    /\ pc = "begin" /\ todo # <<>>
    /\ pc' = IF scroll_due THEN "scroll" ELSE "place"
    /\ k' = 1
    /\ UNCHANGED <<cells, position, cursor, who, todo, at, text>>

ScrollRow ==
    /\ pc = "scroll" /\ k < max_ypos
    /\ cells' = [i \in DOMAIN cells |->
                    IF i \div max_xpos = k - 1 THEN cells[i + max_xpos] ELSE cells[i]]
    /\ k' = k + 1
    /\ UNCHANGED <<position, cursor, who, todo, pc, at, text>>

BlankLastRow ==
    /\ pc = "scroll" /\ k = max_ypos
    /\ cells' = [i \in DOMAIN cells |-> IF i \div max_xpos = k - 1 THEN Blank ELSE cells[i]]
    /\ pc' = "scrolled"
    /\ UNCHANGED <<position, cursor, who, todo, k, at, text>>

row_after_scroll == max_ypos - 1

Scrolled ==
    /\ pc = "scrolled"
    /\ current_ypos' = row_after_scroll
    /\ pc' = "place"
    /\ UNCHANGED <<cells, current_xpos, cursor, who, todo, k, at, text>>

(* mutated: a newline goes down and not back *)
column_kept == current_xpos
first_column == 0

Newline ==
    /\ pc = "place" /\ Head(todo) = "\n"
    /\ current_xpos' = first_column
    /\ pc' = "next_row"
    /\ UNCHANGED <<cells, current_ypos, cursor, who, todo, k, at, text>>

CarriageReturn ==
    /\ pc = "place" /\ Head(todo) = "\r"
    /\ pc' = "move_cursor"
    /\ UNCHANGED <<cells, position, cursor, who, todo, k, at, text>>

(* The argument of writew, its ++ included, comes before the store. *)
Glyph ==
    /\ pc = "place" /\ Head(todo) \notin {"\n", "\r"}
    /\ at' = max_xpos * current_ypos + current_xpos
    /\ current_xpos' = current_xpos + 1
    /\ pc' = "store"
    /\ UNCHANGED <<cells, current_ypos, cursor, who, todo, k, text>>

Store ==
    /\ pc = "store"
    /\ cells' = [cells EXCEPT ![at] = Head(todo)]
    /\ pc' = "wrap"
    /\ UNCHANGED <<position, cursor, who, todo, k, at, text>>

(* mutated: only a character that is already behind the row wraps *)
row_overfull == current_xpos > max_xpos
row_full == current_xpos >= max_xpos

Wrap ==
    /\ pc = "wrap"
    /\ IF row_full THEN current_xpos' = 0 /\ pc' = "next_row"
                   ELSE UNCHANGED current_xpos /\ pc' = "move_cursor"
    /\ UNCHANGED <<cells, current_ypos, cursor, who, todo, k, at, text>>

NextRow ==
    /\ pc = "next_row"
    /\ current_ypos' = current_ypos + 1
    /\ pc' = "move_cursor"
    /\ UNCHANGED <<cells, current_xpos, cursor, who, todo, k, at, text>>

early_printk_move_cursor == cursor' = current_ypos * max_xpos + current_xpos

MoveCursor ==
    /\ pc = "move_cursor"
    /\ early_printk_move_cursor
    /\ todo' = Tail(todo)
    /\ pc' = "begin"
    /\ UNCHANGED <<cells, position, who, k, at, text>>

early_printk_write ==
    \/ Begin \/ ScrollRow \/ BlankLastRow \/ Scrolled
    \/ Newline \/ CarriageReturn \/ Glyph \/ Store \/ Wrap \/ NextRow \/ MoveCursor

-----------------------------------------------------------------------------
Written == pc = "begin" /\ todo = <<>>

(* early_printk_setup, after its loop has printed a screen of blanks. *)
early_printk_setup ==
    /\ who = "setup" /\ Written
    /\ current_xpos' = 0 /\ current_ypos' = 0
    /\ cursor' = 0
    /\ who' = "kernel"
    /\ UNCHANGED <<cells, todo, pc, k, at, text>>

putc(c) ==
    /\ who = "kernel" /\ Written /\ Len(text) < MaxText
    /\ todo' = <<c>>
    /\ text' = Append(text, c)
    /\ UNCHANGED <<cells, position, cursor, who, pc, k, at>>

(* The first instruction of an exception, its report still to be printed. *)
isr_handler ==
    /\ who = "kernel"
    /\ who' = "exception"
    /\ todo' = Report
    /\ pc' = "begin"
    /\ UNCHANGED <<cells, position, cursor, k, at, text>>

Halted == who = "exception" /\ Written

Next ==
    \/ early_printk_write \/ early_printk_setup
    \/ \E c \in Glyphs \cup {"\n", "\r"} : putc(c)
    \/ isr_handler

Spec == Init /\ [][Next]_vars

-----------------------------------------------------------------------------
TypeOK ==
    /\ cells \in [0 .. Size + max_xpos - 1 -> Characters \cup {Blank, Junk}]
    /\ current_xpos \in 0 .. max_xpos + 1 /\ current_ypos \in 0 .. max_ypos
    /\ cursor \in 0 .. Size
    /\ who \in {"setup", "kernel", "exception"}
    /\ todo \in Seq(Characters \cup {Blank})
    /\ pc \in {"begin", "scroll", "scrolled", "place", "store", "wrap", "next_row", "move_cursor"}
    /\ k \in 0 .. max_ypos /\ at \in 0 .. Size
    /\ text \in Seq(Glyphs \cup {"\n", "\r"})

(* What a character adds to the rows of a text on paper.                   *)
Onto(ls, c) ==
    LET inked == [ls EXCEPT ![Len(ls)] = Append(@, c)]
    IN  IF c = "\r" THEN ls
        ELSE IF c = "\n" THEN Append(ls, <<>>)
        ELSE IF Len(Last(inked)) = max_xpos THEN Append(inked, <<>>)
        ELSE inked

(* The rows that a text takes, after what the first one holds.             *)
LinesAfter(begun, s) ==
    LET ls[j \in 0 .. Len(s)] == IF j = 0 THEN <<begun>> ELSE Onto(ls[j - 1], s[j])
    IN  ls[Len(s)]

Row(r) == [x \in 1 .. max_xpos |-> cells[max_xpos * r + x - 1]]
Padded(line) == [x \in 1 .. max_xpos |-> IF x <= Len(line) THEN line[x] ELSE Blank]

(***************************************************************************)
(* Whenever the kernel has written a text, the screen shows its last rows, *)
(* the memory behind the screen is untouched, and the cursor stands where  *)
(* the next character will go (early_printk.c:39-65).                      *)
(***************************************************************************)
ShowsTail ==
    LET ls == LinesAfter(<<>>, text)
        above == Len(ls) - 1 - current_ypos      \* rows that have scrolled away
    IN  who = "kernel" /\ Written =>
            /\ above >= 0 /\ (above > 0 => current_ypos >= max_ypos - 1)
            /\ \A r \in 0 .. max_ypos - 1 :
                    Row(r) = Padded(IF above + r < Len(ls) THEN ls[above + r + 1] ELSE <<>>)
            /\ current_xpos = Len(Last(ls))
            /\ cursor = max_xpos * current_ypos + current_xpos

(***************************************************************************)
(* An exception that comes in the middle of a character finds a row that   *)
(* is full and not yet wrapped, or a scroll half done.  Its report can be  *)
(* read all the same, up to the cursor, less at most the first character   *)
(* (irq.c:63, early_printk.c:56-62).                                       *)
(***************************************************************************)
ReportReadable ==
    Halted =>
        \E column \in 0 .. max_xpos - 1, lost \in 0 .. 1 :
            LET begun == [x \in 1 .. column |-> Junk]
                ls == LinesAfter(begun, SubSeq(Report, lost + 1, Len(Report)))
                above == Len(ls) - 1 - current_ypos
            IN  /\ \A r \in 0 .. max_ypos - 1, x \in 1 .. max_xpos :
                        above + r + 1 \in DOMAIN ls =>
                            LET line == ls[above + r + 1]
                            IN  x \in DOMAIN line /\ line[x] # Junk => Row(r)[x] = line[x]
                /\ current_xpos = Len(Last(ls))
                /\ cursor = max_xpos * current_ypos + current_xpos

(***************************************************************************)
(* Nothing is written behind the screen, except the one cell after it, and *)
(* that only by an exception's report (early_printk.c:57).                 *)
(***************************************************************************)
Confined ==
    /\ TypeOK
    /\ \A i \in Size .. Size + max_xpos - 1 :
           cells[i] # Junk => i = Size /\ who = "exception" /\ cells[i] = Head(Report)
=============================================================================
