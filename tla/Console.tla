------------------------------ MODULE Console ------------------------------
(***************************************************************************)
(* The two consoles, drivers/vga/vga.c and drivers/serial/serial.c, and    *)
(* those who share them without a lock: the workers, which print with      *)
(* interrupts on and lose the CPU between any two steps, and a program     *)
(* whose write calls run with interrupts off.                              *)
(*                                                                         *)
(* The text on the screen is left out; what counts is where the next       *)
(* character goes.  The kernel is built without optimization: row and col  *)
(* are loaded and stored at each use, and a tick may come between any two  *)
(* of these accesses.                                                      *)
(***************************************************************************)
EXTENDS Integers, FiniteSets

CONSTANTS
  Workers,    \* the workers that print
  Rows, Cols, \* 25 and 80
  Tab,        \* tab stops (8)
  ByteLimit,  \* row and col are bytes (256)
  FifoDepth,  \* bytes that the FIFO of the serial port takes (16)
  MaxChars    \* bound: characters printed

ASSUME ConsoleAssumption ==
  /\ Rows \in Nat \ {0} /\ Cols \in Nat \ {0}
  /\ Tab \in Nat \ {0} /\ ByteLimit \in Nat \ {0}
  /\ IsFiniteSet(Workers) /\ FifoDepth \in Nat /\ Cardinality(Workers) < FifoDepth

VARIABLES
  on,        \* the worker on the CPU, or "program"
  at,        \* at[w]: how far worker w is with its character
  char,      \* char[w]: "char", "newline", "return" or "tab"
  regs,      \* regs[w]: the row or col that w has in a register
  row, col,
  fifo,      \* bytes waiting in the serial port
  chars,     \* history: how many characters were begun
  tabbed     \* history: one of them was a tab

consoleVars == <<on, at, char, regs, row, col, fifo, chars, tabbed>>

Chars == {"char", "newline", "return", "tab"}

(* vga_clear *)
vga_init ==
  /\ on = "program" /\ at = [w \in Workers |-> "idle"] /\ char = [w \in Workers |-> "char"]
  /\ regs = [w \in Workers |-> 0]
  /\ row = 0 /\ col = 0 /\ chars = 0 /\ tabbed = FALSE
(* The FIFO is on and empty. *)
serial_init == fifo = 0

-----------------------------------------------------------------------------
(* A tab may leave the line. *)
Inc(n) == (n + 1) % ByteLimit
TabStop(n) == (((n + Tab) \div Tab) * Tab) % ByteLimit
(* The position after a character at p. *)
Advanced(p, c) ==
  CASE c = "newline" -> [row |-> Inc(p.row), col |-> 0]
    [] c = "return"  -> [p EXCEPT !.col = 0]
    [] c = "tab"     -> [p EXCEPT !.col = TabStop(@)]
    [] c = "char"    -> IF Inc(p.col) >= Cols THEN [row |-> Inc(p.row), col |-> 0]
                        ELSE [p EXCEPT !.col = Inc(@)]
(* Mutant: the first row below the screen is not noticed. *)
BelowLate(r) == r > Rows
Below(r) == r >= Rows
(* vga_scroll leaves the last row. *)
vga_scroll == row' = Rows - 1

(* kprintf prints a character on the screen, then on the serial port.  The *)
(* first access of vga_putc is to load col, or to clear it.                *)
kprintf(w, c) ==
  /\ on = w /\ at[w] = "idle" /\ chars < MaxChars
  /\ chars' = chars + 1 /\ tabbed' = (tabbed \/ c = "tab")
  /\ char' = [char EXCEPT ![w] = c]
  /\ IF c \in {"char", "tab"}
     THEN regs' = [regs EXCEPT ![w] = col] /\ at' = [at EXCEPT ![w] = "put"]
     ELSE at' = [at EXCEPT ![w] = "clear"] /\ UNCHANGED regs
  /\ UNCHANGED <<on, row, col, fifo>>
Put(w) ==
  /\ on = w /\ at[w] = "put"
  /\ col' = IF char[w] = "tab" THEN TabStop(regs[w]) ELSE Inc(regs[w])
  /\ regs' = [regs EXCEPT ![w] = col']
  /\ at' = [at EXCEPT ![w] = IF char[w] = "tab" THEN "check" ELSE "test"]
  /\ UNCHANGED <<on, char, row, fifo, chars, tabbed>>
(* The value of ++col is what was stored, or what col then holds: the     *)
(* compiler decides.                                                       *)
Test(w) ==
  /\ on = w /\ at[w] = "test"
  /\ \E seen \in {col, regs[w]} :
       at' = [at EXCEPT ![w] = IF seen >= Cols THEN "clear" ELSE "check"]
  /\ UNCHANGED <<on, char, regs, row, col, fifo, chars, tabbed>>
Clear(w) ==
  /\ on = w /\ at[w] = "clear"
  /\ col' = 0
  /\ at' = [at EXCEPT ![w] = IF char[w] = "return" THEN "check" ELSE "row"]
  /\ UNCHANGED <<on, char, regs, row, fifo, chars, tabbed>>
LoadRow(w) ==
  /\ on = w /\ at[w] = "row"
  /\ regs' = [regs EXCEPT ![w] = row]
  /\ at' = [at EXCEPT ![w] = "down"]
  /\ UNCHANGED <<on, char, row, col, fifo, chars, tabbed>>
Down(w) ==
  /\ on = w /\ at[w] = "down"
  /\ row' = Inc(regs[w])
  /\ at' = [at EXCEPT ![w] = "check"]
  /\ UNCHANGED <<on, char, regs, col, fifo, chars, tabbed>>
(* The registers hold nothing more that is used. *)
Check(w) ==
  /\ on = w /\ at[w] = "check"
  /\ at' = [at EXCEPT ![w] = IF Below(row) THEN "scroll" ELSE "poll"]
  /\ char' = [char EXCEPT ![w] = "char"] /\ regs' = [regs EXCEPT ![w] = 0]
  /\ UNCHANGED <<on, row, col, fifo, chars, tabbed>>
Scroll(w) ==
  /\ on = w /\ at[w] = "scroll" /\ vga_scroll
  /\ at' = [at EXCEPT ![w] = "poll"]
  /\ UNCHANGED <<on, char, regs, col, fifo, chars, tabbed>>
(* A line for the serial port alone begins here. *)
serial_write(w) ==
  /\ on = w /\ at[w] = "idle" /\ chars < MaxChars
  /\ chars' = chars + 1
  /\ at' = [at EXCEPT ![w] = "poll"]
  /\ UNCHANGED <<on, char, regs, row, col, fifo, tabbed>>
(* serial_write_n: the port is found empty, and later written. *)
Poll(w) ==
  /\ on = w /\ at[w] = "poll" /\ fifo = 0
  /\ at' = [at EXCEPT ![w] = "out"]
  /\ UNCHANGED <<on, char, regs, row, col, fifo, chars, tabbed>>
Out(w) ==
  /\ on = w /\ at[w] = "out"
  /\ fifo' = fifo + 1
  /\ at' = [at EXCEPT ![w] = "idle"]
  /\ UNCHANGED <<on, char, regs, row, col, chars, tabbed>>

(* A program's write to the screen and to the serial port, one character. *)
vga_putc(c) ==
  LET p == Advanced([row |-> row, col |-> col], c)
  IN  /\ on = "program" /\ chars < MaxChars
      /\ chars' = chars + 1 /\ tabbed' = (tabbed \/ c = "tab")
      /\ row' = IF Below(p.row) THEN Rows - 1 ELSE p.row
      /\ col' = p.col
      /\ UNCHANGED <<on, at, char, regs, fifo>>
serial_write_n ==
  /\ on = "program" /\ chars < MaxChars /\ fifo = 0
  /\ chars' = chars + 1 /\ fifo' = 1
  /\ UNCHANGED <<on, at, char, regs, row, col, tabbed>>

(* The serial port sends a byte. *)
Sent == fifo > 0 /\ fifo' = fifo - 1 /\ UNCHANGED <<on, at, char, regs, row, col, chars, tabbed>>
(* The timer gives the CPU to anybody. *)
Preempt == on' \in Workers \cup {"program"} /\ UNCHANGED <<at, char, regs, row, col, fifo, chars, tabbed>>

Printing ==
  \/ \E w \in Workers :
       (\E c \in Chars : kprintf(w, c)) \/ serial_write(w) \/ Put(w) \/ Test(w) \/ Clear(w)
       \/ LoadRow(w) \/ Down(w) \/ Check(w) \/ Scroll(w) \/ Poll(w) \/ Out(w)
  \/ (\E c \in Chars : vga_putc(c)) \/ serial_write_n
  \/ Sent

-----------------------------------------------------------------------------
(* What writers that interrupt each other can do to the consoles.  The row *)
(* is below the screen, where characters are lost, only as long as one of  *)
(* them has still to look at it or to scroll; the column is beyond the     *)
(* right edge only as long as one has still to test or to clear it, or     *)
(* after a tab; and although the serial port may be written by all who     *)
(* found it empty, no byte is lost, because its FIFO takes one of each     *)
(* (vga_putc, serial_write_n).                                             *)
ConsoleRecovers ==
  /\ row >= Rows => \E w \in Workers : at[w] \in {"check", "scroll"}
  /\ col >= Cols => tabbed \/ \E w \in Workers : at[w] \in {"test", "clear"}
  /\ fifo <= FifoDepth
=============================================================================
