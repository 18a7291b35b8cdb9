----------------------------- MODULE WorkProofs -----------------------------
(***************************************************************************)
(* Proofs about the consoles and the signals of Platform, for every size   *)
(* of the screen, every set of workers and signals, and every bound.       *)
(***************************************************************************)
EXTENDS Platform, FiniteSetTheorems, LeastNumbers, TLAPS

-----------------------------------------------------------------------------
(* The consoles.                                                           *)

Positions == [row : Nat, col : Nat]

(* Row and column stay natural numbers. *)
LEMMA CursorNatural ==
  ASSUME NEW n \in Nat
  PROVE  Inc(n) \in Nat /\ TabStop(n) \in Nat
<1>1. Inc(n) \in Nat
  BY ConsoleAssumption DEF Inc
<1>2. (n + Tab) \div Tab \in Nat
  BY ConsoleAssumption
<1>3. ((n + Tab) \div Tab) * Tab \in Nat
  BY <1>2, ConsoleAssumption
<1>4. TabStop(n) \in Nat
  BY <1>3, ConsoleAssumption DEF TabStop
<1> QED
  BY <1>1, <1>4, Zenon

(* A character other than a tab stays in the line. *)
LEMMA AdvancedStays ==
  ASSUME NEW p \in Positions, NEW c \in Chars
  PROVE  Advanced(p, c) \in Positions /\ (c # "tab" => Advanced(p, c).col < Cols)
<1> USE ConsoleAssumption
<1>0. p.row \in Nat /\ p.col \in Nat
  BY Zenon DEF Positions
<1>1. Inc(p.row) \in Nat /\ Inc(p.col) \in Nat /\ TabStop(p.col) \in Nat
  BY <1>0, CursorNatural, Zenon
<1>2. CASE c = "newline"
  BY <1>1, <1>2 DEF Advanced, Positions
<1>3. CASE c = "return"
  BY <1>3 DEF Advanced, Positions
<1>4. CASE c = "tab"
  BY <1>1, <1>4 DEF Advanced, Positions
<1>5. CASE c = "char"
  BY <1>1, <1>5 DEF Advanced, Positions
<1> QED
  BY <1>2, <1>3, <1>4, <1>5, Zenon DEF Chars

(* Those who found the serial port empty and have still to write to it. *)
Writers == {w \in Workers : at[w] = "out"}

(* The bytes in the serial port and those that will still come are at most
   one of each worker and one of the program. *)
PortInv == fifo \in Nat /\ fifo + Cardinality(Writers) <= Cardinality(Workers) + 1

Stages == {"idle", "put", "test", "clear", "row", "down", "check", "scroll", "poll", "out"}
(* A writer that will still bring the column back: the one that stored the
   column which is there now does so whichever of its two values it tests. *)
Clears(w) == at[w] = "clear" \/ (at[w] = "test" /\ regs[w] = col)
Late(w) == at[w] \in {"check", "scroll"}
ScreenInv ==
  /\ at \in [Workers -> Stages] /\ char \in [Workers -> Chars] /\ regs \in [Workers -> Nat]
  /\ row \in Nat /\ col \in Nat /\ tabbed \in BOOLEAN
  /\ row >= Rows => \E w \in Workers : Late(w)
  /\ ~tabbed => \A w \in Workers : char[w] # "tab"
  /\ ~tabbed /\ col >= Cols => \E w \in Workers : Clears(w)

ConsoleInv == ScreenInv /\ PortInv

(* There are finitely many writers. *)
LEMMA WorkersFinite ==
  ASSUME NEW W \in SUBSET Workers
  PROVE  /\ IsFiniteSet(W) /\ Cardinality(W) \in Nat
         /\ Cardinality(Workers) \in Nat /\ Cardinality(W) <= Cardinality(Workers)
<1>1. IsFiniteSet(Workers)
  BY ConsoleAssumption, Zenon
<1> QED
  BY <1>1, FS_Subset, FS_CardinalityType, Zenon

(* vga_init and serial_init leave the cursor on the screen and the FIFO empty. *)
LEMMA ConsoleInvInit == vga_init /\ serial_init => ConsoleInv
<1> SUFFICES ASSUME vga_init, serial_init PROVE ConsoleInv
  BY Zenon
<1>1. vga_init /\ fifo = 0
  BY Zenon DEF serial_init
<1>2. PortInv
  <2>1. Writers \in SUBSET Workers
    BY Zenon DEF Writers
  <2> QED
    BY <1>1, <2>1, WorkersFinite DEF PortInv
<1>3. ScreenInv
  <2>1. row \in Nat /\ ~ (row >= Rows) /\ col \in Nat /\ ~ (col >= Cols)
    BY <1>1, ConsoleAssumption DEF vga_init
  <2>2. at \in [Workers -> Stages] /\ char \in [Workers -> Chars] /\ regs \in [Workers -> Nat]
    BY <1>1 DEF vga_init, Stages, Chars
  <2>3. tabbed \in BOOLEAN
    BY <1>1, Zenon DEF vga_init
  <2>4. \A w \in Workers : char[w] # "tab"
    BY <1>1, Zenon DEF vga_init
  <2> QED
    BY <2>1, <2>2, <2>3, <2>4, Zenon DEF ScreenInv
<1> QED
  BY <1>2, <1>3, Zenon DEF ConsoleInv

(* No step fills the serial port beyond one byte of each writer: a worker
   that polls finds it empty. *)
LEMMA PortInvStep ==
  ASSUME ConsoleInv, Printing
  PROVE  PortInv'
<1>0. /\ fifo \in Nat /\ fifo + Cardinality(Writers) <= Cardinality(Workers) + 1
      /\ at \in [Workers -> Stages]
  BY Zenon DEF ConsoleInv, PortInv, ScreenInv
<1>1. Writers \in SUBSET Workers /\ Writers' \in SUBSET Workers
  BY Zenon DEF Writers
<1>2. /\ IsFiniteSet(Writers) /\ Cardinality(Writers) \in Nat
      /\ Cardinality(Workers) \in Nat /\ Cardinality(Writers) <= Cardinality(Workers)
      /\ Cardinality(Writers') \in Nat /\ Cardinality(Writers') <= Cardinality(Workers)
  BY <1>1, WorkersFinite, Zenon
<1>3. CASE UNCHANGED fifo /\ Writers' = Writers
  BY <1>0, <1>3, Zenon DEF PortInv
<1>4. ASSUME NEW w \in Workers, NEW x \in Stages \ {"out"},
             UNCHANGED fifo, at[w] # "out", at' = [at EXCEPT ![w] = x]
      PROVE  PortInv'
  <2>1. Writers' = Writers
    BY <1>0, <1>4, Zenon DEF Writers
  <2> QED
    BY <1>3, <1>4, <2>1, Zenon
<1>10. ASSUME NEW w \in Workers,
              (\E c \in Chars : kprintf(w, c)) \/ serial_write(w) \/ Put(w) \/ Test(w)
       PROVE  PortInv'
  <2>1. UNCHANGED fifo /\ at[w] # "out"
    BY <1>10, Zenon DEF kprintf, serial_write, Put, Test
  <2>2. PICK x \in {"put", "test", "clear", "check", "poll"} : at' = [at EXCEPT ![w] = x]
    BY <1>10, Zenon DEF kprintf, serial_write, Put, Test
  <2> QED
    BY <1>4, <2>1, <2>2, Zenon DEF Stages
<1>11. ASSUME NEW w \in Workers,
              Clear(w) \/ LoadRow(w) \/ Down(w) \/ Check(w) \/ Scroll(w)
       PROVE  PortInv'
  <2>1. UNCHANGED fifo /\ at[w] # "out"
    BY <1>11, Zenon DEF Clear, LoadRow, Down, Check, Scroll
  <2>2. PICK x \in {"row", "down", "check", "scroll", "poll"} : at' = [at EXCEPT ![w] = x]
    BY <1>11, Zenon DEF Clear, LoadRow, Down, Check, Scroll
  <2> QED
    BY <1>4, <2>1, <2>2, Zenon DEF Stages
<1>5. ASSUME NEW w \in Workers, Poll(w)
      PROVE  PortInv'
  <2>1. fifo' = 0
    BY <1>5, Zenon DEF Poll
  <2> QED
    BY <1>2, <2>1 DEF PortInv
<1>6. ASSUME NEW w \in Workers, Out(w)
      PROVE  PortInv'
  <2>1. fifo' = fifo + 1 /\ at[w] = "out" /\ at' = [at EXCEPT ![w] = "idle"]
    BY <1>6, Zenon DEF Out
  <2>2. w \in Writers /\ Writers' = Writers \ {w}
    BY <1>0, <2>1, Zenon DEF Writers
  <2>3. Cardinality(Writers') = Cardinality(Writers) - 1
    BY <1>2, <2>2, FS_RemoveElement, Zenon
  <2> QED
    BY <1>0, <1>2, <2>1, <2>3 DEF PortInv
<1>7. CASE \E c \in Chars : vga_putc(c)
  BY <1>3, <1>7, Zenon DEF vga_putc, Writers
<1>8. CASE serial_write_n
  <2>1. fifo' = 1 /\ Writers' = Writers
    BY <1>8, Zenon DEF serial_write_n, Writers
  <2> QED
    BY <1>2, <2>1 DEF PortInv
<1>9. CASE Sent
  <2>1. fifo > 0 /\ fifo' = fifo - 1 /\ Writers' = Writers
    BY <1>9, Zenon DEF Sent, Writers
  <2> QED
    BY <1>0, <1>2, <2>1 DEF PortInv
<1> QED
  BY <1>5, <1>6, <1>7, <1>8, <1>9, <1>10, <1>11, Zenon DEF Printing

(* Every step of a writer keeps the bounds on the cursor, and somebody who
   will bring it back. *)
LEMMA ScreenInvStep ==
  ASSUME ScreenInv, Printing
  PROVE  ScreenInv'
<1> USE ConsoleAssumption
<1>0. /\ at \in [Workers -> Stages] /\ char \in [Workers -> Chars] /\ regs \in [Workers -> Nat]
      /\ row \in Nat /\ col \in Nat /\ tabbed \in BOOLEAN
      /\ row >= Rows => \E w \in Workers : Late(w)
      /\ ~tabbed => \A w \in Workers : char[w] # "tab"
      /\ ~tabbed /\ col >= Cols => \E w \in Workers : Clears(w)
  BY Zenon DEF ScreenInv
(* The other workers stay where they are. *)
<1>1. ASSUME NEW w \in Workers, NEW x \in Stages, at' = [at EXCEPT ![w] = x]
      PROVE  /\ at' \in [Workers -> Stages] /\ at'[w] = x
             /\ \A v \in Workers : v # w => at'[v] = at[v]
  BY <1>0, <1>1, Zenon
(* A step that stores neither row nor col. *)
<1>2. ASSUME NEW w \in Workers, NEW x \in Stages, at' = [at EXCEPT ![w] = x],
             UNCHANGED <<row, col>>, NEW r \in Nat, regs' = [regs EXCEPT ![w] = r],
             char' \in [Workers -> Chars], tabbed' \in BOOLEAN, ~tabbed' => ~tabbed,
             ~tabbed' => \A v \in Workers : char'[v] # "tab",
             row >= Rows /\ Late(w) => x \in {"check", "scroll"},
             col >= Cols /\ Clears(w) => x = "clear"
      PROVE  ScreenInv'
  <2>1. /\ at' \in [Workers -> Stages] /\ at'[w] = x
        /\ \A v \in Workers : v # w => at'[v] = at[v]
    BY <1>1, <1>2, Zenon
  <2>2. regs' \in [Workers -> Nat] /\ \A v \in Workers : v # w => regs'[v] = regs[v]
    BY <1>0, <1>2, Zenon
  <2>3. row >= Rows => \A v \in Workers : Late(v) => Late(v)'
    BY <1>2, <2>1, Zenon DEF Late
  <2>4. col >= Cols => \A v \in Workers : Clears(v) => Clears(v)'
    BY <1>2, <2>1, <2>2, Zenon DEF Clears
  <2> QED
    BY <1>0, <1>2, <2>1, <2>2, <2>3, <2>4, Zenon DEF ScreenInv
<1>3. ASSUME NEW w \in Workers, NEW c \in Chars, kprintf(w, c)
      PROVE  ScreenInv'
  <2>1. /\ at[w] = "idle" /\ UNCHANGED <<row, col>> /\ char' = [char EXCEPT ![w] = c]
    BY <1>3, Zenon DEF kprintf
  <2>2. tabbed' = (tabbed \/ c = "tab")
    BY <1>3, Zenon DEF kprintf
  <2>3. PICK x \in {"put", "clear"}, r \in {col, regs[w]} :
          at' = [at EXCEPT ![w] = x] /\ regs' = [regs EXCEPT ![w] = r]
    <3>1. CASE c \in {"char", "tab"}
      BY <1>3, <3>1, Zenon DEF kprintf
    <3>2. CASE c \notin {"char", "tab"}
      <4>1. regs' = [regs EXCEPT ![w] = regs[w]]
        BY <1>0, <1>3, <3>2, Zenon DEF kprintf
      <4> QED
        BY <1>3, <3>2, <4>1, Zenon DEF kprintf
    <3> QED
      BY <3>1, <3>2, Zenon
  <2>4. tabbed' \in BOOLEAN /\ (~tabbed' => ~tabbed /\ c # "tab")
    BY <1>0, <2>2, Zenon
  <2>5. /\ char' \in [Workers -> Chars]
        /\ ~tabbed' => \A v \in Workers : char'[v] # "tab"
    BY <1>0, <2>1, <2>4, Zenon
  <2>6. ~Late(w) /\ ~Clears(w)
    BY <2>1, Zenon DEF Late, Clears
  <2>7. r \in Nat /\ x \in Stages
    BY <1>0, Zenon DEF Stages
  <2> QED
    BY <1>2, <2>1, <2>3, <2>4, <2>5, <2>6, <2>7, Zenon
<1>4. ASSUME NEW w \in Workers, Put(w)
      PROVE  ScreenInv'
  <2> DEFINE x == IF char[w] = "tab" THEN "check" ELSE "test"
  <2>1. /\ at[w] = "put" /\ at' = [at EXCEPT ![w] = x] /\ UNCHANGED <<row, char, tabbed>>
        /\ regs' = [regs EXCEPT ![w] = col']
        /\ col' = IF char[w] = "tab" THEN TabStop(regs[w]) ELSE Inc(regs[w])
    BY <1>4, Zenon DEF Put
  <2>2. x \in Stages
    BY Zenon DEF Stages
  <2>3. /\ at' \in [Workers -> Stages] /\ at'[w] = x
        /\ \A v \in Workers : v # w => at'[v] = at[v]
    BY <1>1, <2>1, <2>2, Zenon
  <2>4. col' \in Nat
    BY <1>0, <2>1, CursorNatural, Zenon
  <2>5. regs' \in [Workers -> Nat] /\ regs'[w] = col'
    BY <1>0, <2>1, <2>4, Zenon
  <2>6. \A v \in Workers : Late(v) => Late(v)'
    BY <2>1, <2>3, Zenon DEF Late
  <2>7. ~tabbed => Clears(w)'
    BY <1>0, <2>3, <2>5, Zenon DEF Clears
  <2> QED
    BY <1>0, <2>1, <2>3, <2>4, <2>5, <2>6, <2>7, Zenon DEF ScreenInv
<1>5. ASSUME NEW w \in Workers, Test(w)
      PROVE  ScreenInv'
  <2>1. PICK seen \in {col, regs[w]} :
          at' = [at EXCEPT ![w] = IF seen >= Cols THEN "clear" ELSE "check"]
    BY <1>5, Zenon DEF Test
  <2> DEFINE x == IF seen >= Cols THEN "clear" ELSE "check"
  <2>2. at[w] = "test" /\ UNCHANGED <<char, regs, row, col, tabbed>>
    BY <1>5, Zenon DEF Test
  <2>3. regs' = [regs EXCEPT ![w] = regs[w]] /\ regs[w] \in Nat /\ x \in Stages
    BY <1>0, <2>2, Zenon DEF Stages
  <2>4. col >= Cols /\ Clears(w) => x = "clear"
    BY <2>2, Zenon DEF Clears
  <2>5. ~Late(w)
    BY <2>2, Zenon DEF Late
  <2> QED
    BY <1>0, <1>2, <2>1, <2>2, <2>3, <2>4, <2>5, Zenon
<1>6. ASSUME NEW w \in Workers, Clear(w)
      PROVE  ScreenInv'
  <2> DEFINE x == IF char[w] = "return" THEN "check" ELSE "row"
  <2>1. /\ at[w] = "clear" /\ at' = [at EXCEPT ![w] = x] /\ col' = 0
        /\ UNCHANGED <<char, regs, row, tabbed>>
    BY <1>6, Zenon DEF Clear
  <2>2. x \in Stages
    BY Zenon DEF Stages
  <2>3. /\ at' \in [Workers -> Stages] /\ \A v \in Workers : v # w => at'[v] = at[v]
    BY <1>1, <2>1, <2>2, Zenon
  <2>4. col' \in Nat /\ ~ (col' >= Cols)
    BY <2>1
  <2>5. \A v \in Workers : Late(v) => Late(v)'
    BY <2>1, <2>3, Zenon DEF Late
  <2> QED
    BY <1>0, <2>1, <2>3, <2>4, <2>5, Zenon DEF ScreenInv
<1>7. ASSUME NEW w \in Workers, LoadRow(w)
      PROVE  ScreenInv'
  <2>1. /\ at[w] = "row" /\ at' = [at EXCEPT ![w] = "down"] /\ regs' = [regs EXCEPT ![w] = row]
        /\ UNCHANGED <<char, row, col, tabbed>>
    BY <1>7, Zenon DEF LoadRow
  <2>2. "down" \in Stages /\ ~Late(w) /\ ~Clears(w)
    BY <2>1, Zenon DEF Stages, Late, Clears
  <2> QED
    BY <1>0, <1>2, <2>1, <2>2, Zenon
<1>8. ASSUME NEW w \in Workers, Down(w)
      PROVE  ScreenInv'
  <2>1. /\ at[w] = "down" /\ at' = [at EXCEPT ![w] = "check"] /\ row' = Inc(regs[w])
        /\ UNCHANGED <<char, regs, col, tabbed>>
    BY <1>8, Zenon DEF Down
  <2>2. "check" \in Stages
    BY Zenon DEF Stages
  <2>3. /\ at' \in [Workers -> Stages] /\ at'[w] = "check"
        /\ \A v \in Workers : v # w => at'[v] = at[v]
    BY <1>1, <2>1, <2>2, Zenon
  <2>4. row' \in Nat
    BY <1>0, <2>1, CursorNatural, Zenon
  <2>5. Late(w)'
    BY <2>3, Zenon DEF Late
  <2>6. \A v \in Workers : Clears(v) => Clears(v)'
    BY <2>1, <2>3, Zenon DEF Clears
  <2> QED
    BY <1>0, <2>1, <2>3, <2>4, <2>5, <2>6, Zenon DEF ScreenInv
<1>9. ASSUME NEW w \in Workers, Check(w)
      PROVE  ScreenInv'
  <2> DEFINE x == IF Below(row) THEN "scroll" ELSE "poll"
  <2>1. /\ at[w] = "check" /\ at' = [at EXCEPT ![w] = x] /\ regs' = [regs EXCEPT ![w] = 0]
        /\ char' = [char EXCEPT ![w] = "char"] /\ UNCHANGED <<row, col, tabbed>>
    BY <1>9, Zenon DEF Check
  <2>2. x \in Stages /\ ~Clears(w)
    BY <2>1, Zenon DEF Stages, Clears
  <2>3. row >= Rows => x = "scroll"
    BY Zenon DEF Below
  <2>4. /\ char' \in [Workers -> Chars]
        /\ ~tabbed => \A v \in Workers : char'[v] # "tab"
    BY <1>0, <2>1, Zenon DEF Chars
  <2>5. 0 \in Nat
    OBVIOUS
  <2> HIDE DEF x
  <2> QED
    BY <1>0, <1>2, <2>1, <2>2, <2>3, <2>4, <2>5, Zenon
<1>10. ASSUME NEW w \in Workers, Scroll(w)
       PROVE  ScreenInv'
  <2>1. /\ at[w] = "scroll" /\ at' = [at EXCEPT ![w] = "poll"] /\ row' = Rows - 1
        /\ UNCHANGED <<char, regs, col, tabbed>>
    BY <1>10, Zenon DEF Scroll, vga_scroll
  <2>2. "poll" \in Stages
    BY Zenon DEF Stages
  <2>3. /\ at' \in [Workers -> Stages] /\ \A v \in Workers : v # w => at'[v] = at[v]
    BY <1>1, <2>1, <2>2, Zenon
  <2>4. row' \in Nat /\ ~ (row' >= Rows)
    BY <2>1
  <2>5. \A v \in Workers : Clears(v) => Clears(v)'
    BY <2>1, <2>3, Zenon DEF Clears
  <2> QED
    BY <1>0, <2>1, <2>3, <2>4, <2>5, Zenon DEF ScreenInv
<1>11. ASSUME NEW w \in Workers, serial_write(w) \/ Poll(w) \/ Out(w)
       PROVE  ScreenInv'
  <2>1. UNCHANGED <<char, regs, row, col, tabbed>> /\ at[w] \in {"idle", "poll", "out"}
    BY <1>11, Zenon DEF serial_write, Poll, Out
  <2>2. PICK x \in {"poll", "out", "idle"} : at' = [at EXCEPT ![w] = x]
    BY <1>11, Zenon DEF serial_write, Poll, Out
  <2>3. x \in Stages /\ ~Late(w) /\ ~Clears(w)
    BY <2>1, Zenon DEF Stages, Late, Clears
  <2>4. regs' = [regs EXCEPT ![w] = regs[w]] /\ regs[w] \in Nat
    BY <1>0, <2>1, Zenon
  <2> QED
    BY <1>0, <1>2, <2>1, <2>2, <2>3, <2>4, Zenon
<1>12. ASSUME NEW c \in Chars, vga_putc(c)
       PROVE  ScreenInv'
  <2> DEFINE p == Advanced([row |-> row, col |-> col], c)
  <2>1. /\ row' = IF Below(p.row) THEN Rows - 1 ELSE p.row
        /\ col' = p.col /\ UNCHANGED <<at, char, regs>>
    BY <1>12, Zenon DEF vga_putc
  <2>2. tabbed' = (tabbed \/ c = "tab")
    BY <1>12, Zenon DEF vga_putc
  <2>3. [row |-> row, col |-> col] \in Positions
    BY <1>0, Zenon DEF Positions
  <2>4. p \in Positions /\ (c # "tab" => p.col < Cols)
    BY <2>3, AdvancedStays, Zenon
  <2> HIDE DEF p
  <2>5. /\ row' \in Nat /\ ~ (row' >= Rows) /\ col' \in Nat
        /\ c # "tab" => ~ (col' >= Cols)
    BY <2>1, <2>4 DEF Below, Positions
  <2>6. tabbed' \in BOOLEAN /\ (~tabbed' => ~tabbed /\ c # "tab")
    BY <1>0, <2>2, Zenon
  <2> QED
    BY <1>0, <2>1, <2>5, <2>6, Zenon DEF ScreenInv
<1>13. CASE serial_write_n \/ Sent
  <2>1. UNCHANGED <<at, char, regs, row, col, tabbed>>
    BY <1>13, Zenon DEF serial_write_n, Sent
  <2> QED
    BY <1>0, <2>1, Zenon DEF ScreenInv, Late, Clears
<1> QED
  BY <1>3, <1>4, <1>5, <1>6, <1>7, <1>8, <1>9, <1>10, <1>11, <1>12, <1>13, Zenon DEF Printing

(* Only a printing worker, the program and the timer touch the consoles. *)
LEMMA ConsoleSteps ==
  ASSUME [Next]_vars
  PROVE  UNCHANGED consoleVars \/ Preempt \/ Printing
<1>1. CASE Kmain
  <2>1. CASE Unmask
    BY <2>1, Zenon DEF Unmask, pic_unmask, restVars, workVars
  <2> QED
    BY <1>1, <2>1, Zenon DEF Kmain, idt_init, AcpiInit, smp_init, ApicInit, IoapicInit, keyboard_init,
       Register, Drivers, NetInit, StartModules, process_enter_user, restVars, workVars
<1>2. CASE \E k \in ScanKinds : Press(k)
  BY <1>2, Zenon DEF Press, restVars, workVars
<1>3. CASE \E l \in {Timer, Keyboard} : irq_handler(l)
  BY <1>3, Zenon DEF irq_handler
<1>4. CASE PitEdge \/ SpuriousIrq \/ keyboard_getc \/ ksleep_ms \/ CheckPacket
  BY <1>4, Zenon DEF PitEdge, SpuriousIrq, keyboard_getc, ksleep_ms, CheckPacket, restVars, workVars
<1>5. CASE SocketCall \/ ModuleWork \/ PrintWork \/ SignalWork
  BY <1>5, Zenon DEF SocketCall, ModuleWork, PrintWork, SignalWork, workVars
<1>6. CASE hlt \/ UNCHANGED vars
  BY <1>6, Zenon DEF hlt, vars, restVars, workVars
<1> QED
  BY <1>1, <1>2, <1>3, <1>4, <1>5, <1>6, Zenon DEF Next

(* Every step of the system keeps the consoles' bounds. *)
LEMMA ConsoleInvNext == ConsoleInv /\ [Next]_vars => ConsoleInv'
<1> SUFFICES ASSUME ConsoleInv, [Next]_vars PROVE ConsoleInv'
  BY Zenon
<1>1. CASE UNCHANGED consoleVars
  BY <1>1, Zenon DEF consoleVars, ConsoleInv, ScreenInv, Late, Clears, PortInv, Writers
<1>2. CASE Preempt
  BY <1>2, Zenon DEF Preempt, ConsoleInv, ScreenInv, Late, Clears, PortInv, Writers
<1>3. CASE Printing
  BY <1>3, PortInvStep, ScreenInvStep, Zenon DEF ConsoleInv
<1> QED
  BY <1>1, <1>2, <1>3, ConsoleSteps, Zenon

(* Whatever workers and programs that share vga.c and serial.c without a lock
   do to each other, the cursor comes back to the screen and the serial port
   loses no byte, for every size of the screen and as long as there are fewer
   workers than places in the FIFO. *)
THEOREM ConsoleSound == Spec => []ConsoleRecovers
<1>1. ConsoleInv => ConsoleRecovers
  <2> SUFFICES ASSUME ConsoleInv PROVE ConsoleRecovers
    BY Zenon
  <2>1. Writers \in SUBSET Workers
    BY Zenon DEF Writers
  <2>2. fifo <= FifoDepth
    BY <2>1, WorkersFinite, ConsoleAssumption DEF ConsoleInv, PortInv
  <2>3. tabbed \in BOOLEAN
    BY Zenon DEF ConsoleInv, ScreenInv
  <2> QED
    BY <2>2, <2>3, Zenon DEF ConsoleInv, ScreenInv, Late, Clears, ConsoleRecovers
<1>2. Init => ConsoleInv
  BY ConsoleInvInit, Zenon DEF Init
<1> QED
  BY <1>1, <1>2, ConsoleInvNext, PTL DEF Spec

-----------------------------------------------------------------------------
(* The signals.                                                            *)

UserFrames == [image : Nat, code : Nat, call : Nat, stack : Nat, eax : Int]
Pcbs == [pending : SUBSET SignalNumbers, mask : SUBSET SignalNumbers,
         handlers : [SignalNumbers -> Nat], active : BOOLEAN, saved : UserFrames]

(* process_deliver_signal leaves PCB and frame as they are but for the
   signals it drops, or it starts the handler of a signal: then no handler
   was active, and the frame is saved. *)
LEMMA DeliveryIsSound ==
  ASSUME NEW p \in Pcbs, NEW r \in UserFrames, NEW room \in BOOLEAN,
         NEW d, d = process_deliver_signal(p, r, room)
  PROVE  /\ d.pcb \in Pcbs /\ d.frame \in UserFrames /\ d.delivered \in BOOLEAN
         /\ ~d.delivered => /\ d.frame = r
                            /\ d.pcb.active = p.active /\ d.pcb.saved = p.saved
         /\ d.delivered => /\ ~p.active /\ d.pcb.active /\ d.pcb.saved = r
                           /\ d.frame.code # Main /\ d.frame.stack = r.stack + 1
<1> DEFINE open == p.pending \ p.mask
           caught == {s \in open : p.handlers[s] # 0}
           first == Min(caught)
<1>1. CASE p.active
  <2>1. d = [pcb |-> p, frame |-> r, delivered |-> FALSE]
    BY <1>1, Zenon DEF process_deliver_signal, MayDeliver
  <2> QED
    BY <2>1 DEF Pcbs
<1>2. CASE ~p.active /\ (caught = {} \/ ~room)
  <2>1. d = [pcb |-> [p EXCEPT !.pending = @ \ open], frame |-> r, delivered |-> FALSE]
    BY <1>2, Zenon DEF process_deliver_signal, MayDeliver
  <2>2. [p EXCEPT !.pending = @ \ open] \in Pcbs
    BY Zenon DEF Pcbs
  <2> QED
    BY <2>1, <2>2 DEF Pcbs
<1>3. CASE ~p.active /\ caught # {} /\ room
  <2>1. first \in SignalNumbers /\ first \in Nat \ {0}
    <3>1. caught \in SUBSET Nat /\ caught \subseteq SignalNumbers
      BY SignalsAssumption, Zenon DEF Pcbs
    <3>2. first \in caught
      BY <1>3, <3>1, MinOfNaturals, Zenon
    <3> QED
      BY <3>1, <3>2, SignalsAssumption, Zenon
  <2> DEFINE q == [p EXCEPT !.pending = @ \ {s \in open : s <= first}, !.saved = r, !.active = TRUE]
             f == [image |-> p.handlers[first], code |-> first, call |-> 0,
                   stack |-> r.stack + 1, eax |-> first]
  <2>2. d = [pcb |-> q, frame |-> f, delivered |-> TRUE]
    BY <1>3, Zenon DEF process_deliver_signal, MayDeliver
  <2> HIDE DEF first
  <2>3. q \in Pcbs /\ q.active = TRUE /\ q.saved = r
    BY Zenon DEF Pcbs
  <2>4. f \in UserFrames /\ f.code = first /\ f.stack = r.stack + 1
    BY <2>1 DEF Pcbs, UserFrames
  <2> HIDE DEF q, f
  <2>5. d.pcb = q /\ d.frame = f /\ d.delivered = TRUE
    BY <2>2
  <2>6. d.frame.code # Main
    BY <2>1, <2>4, <2>5, Zenon DEF Main
  <2> QED
    BY <1>3, <2>3, <2>4, <2>5, <2>6, Zenon
<1> QED
  BY <1>1, <1>2, <1>3, Zenon DEF Pcbs

(* In the first image a handler that is active has interrupted the main
   program, at the bottom of its stack. *)
SignalInv ==
  /\ pcb \in Pcbs /\ frame \in UserFrames /\ entered \in Seq(UserFrames)
  /\ image \in Nat \ {0} /\ signal_calls \in Nat
  /\ HandlersReturn
  /\ image = 1 /\ pcb.active => pcb.saved.code = Main /\ pcb.saved.stack = 0

(* The frame in which an image starts is a frame. *)
LEMMA StartIsFrame ==
  ASSUME NEW n \in Nat
  PROVE  Start(n) \in UserFrames
BY DEF Start, Main, UserFrames

(* The result of a call goes into eax, and nothing else of the frame changes. *)
LEMMA ReturnedIsFrame ==
  ASSUME SignalInv, NEW eax \in Int
  PROVE  /\ Returned(eax) \in UserFrames
         /\ Returned(eax).code = frame.code /\ Returned(eax).stack = frame.stack
<1>1. frame \in UserFrames /\ signal_calls + 1 \in Nat
  BY DEF SignalInv
<1> DEFINE n == signal_calls + 1
<1>2. Returned(eax) = [[frame EXCEPT !.call = n] EXCEPT !.eax = eax]
  BY Zenon DEF Returned
<1> HIDE DEF n
<1>3. [frame EXCEPT !.call = n] \in UserFrames
  BY <1>1, Zenon DEF UserFrames, n
<1> QED
  BY <1>1, <1>2, <1>3, Zenon DEF UserFrames, n

(* A new process has no signal. *)
LEMMA SignalInvInit == SignalsInit => SignalInv
<1> SUFFICES ASSUME SignalsInit PROVE SignalInv
  BY Zenon
<1>1. SignalsInit
  BY Zenon
<1>2. pcb.active = FALSE /\ frame = Start(1) /\ entered = <<>> /\ image = 1 /\ signal_calls = 0
  BY <1>1 DEF SignalsInit
<1>3. pcb \in Pcbs
  BY <1>1, StartIsFrame DEF SignalsInit, Pcbs
<1>4. frame.code = Main /\ frame.stack = 0
  BY <1>2, Zenon DEF Start
<1> QED
  BY <1>2, <1>3, <1>4, StartIsFrame DEF SignalInv, HandlersReturn

(* A system call that returns, with or without a signal delivered, keeps the
   invariant, if it changed the PCB only where signals are noted. *)
LEMMA ReturnsKeepsInv ==
  ASSUME SignalInv, UNCHANGED image, NEW eax \in Int, NEW room \in BOOLEAN,
         NEW p \in Pcbs, p.active = pcb.active, p.saved = pcb.saved,
         Returns(p, eax, room)
  PROVE  SignalInv'
<1> DEFINE r == Returned(eax)
           d == process_deliver_signal(p, r, room)
<1>1. /\ pcb' = d.pcb /\ frame' = d.frame
      /\ entered' = IF d.delivered THEN Append(entered, r) ELSE entered
      /\ signal_calls' = signal_calls + 1
  BY Zenon DEF Returns, SignalStep
<1>2. r \in UserFrames /\ r.code = frame.code /\ r.stack = frame.stack
  BY ReturnedIsFrame, Zenon
<1> HIDE DEF r
<1>3. /\ d.pcb \in Pcbs /\ d.frame \in UserFrames /\ d.delivered \in BOOLEAN
      /\ ~d.delivered => /\ d.frame = r
                         /\ d.pcb.active = p.active /\ d.pcb.saved = p.saved
      /\ d.delivered => /\ ~p.active /\ d.pcb.active /\ d.pcb.saved = r
                        /\ d.frame.code # Main /\ d.frame.stack = r.stack + 1
  BY <1>2, DeliveryIsSound, Zenon
<1> HIDE DEF d
<1>4. signal_calls' \in Nat
  BY <1>1 DEF SignalInv
<1>5. CASE ~d.delivered
  <2>1. /\ frame' = r /\ pcb'.active = pcb.active /\ pcb'.saved = pcb.saved
        /\ entered' = entered
    BY <1>1, <1>3, <1>5, Zenon
  <2> QED
    BY <1>1, <1>2, <1>3, <1>4, <2>1, Zenon DEF SignalInv, HandlersReturn
<1>6. CASE d.delivered
  <2>1. ~pcb.active /\ entered = <<>>
    BY <1>3, <1>6, Zenon DEF SignalInv, HandlersReturn
  <2>2. entered' = <<r>>
    BY <1>1, <1>6, <2>1
  <2>3. /\ pcb'.active /\ pcb'.saved = r
        /\ frame'.code # Main /\ frame'.stack = r.stack + 1
    BY <1>1, <1>3, <1>6, Zenon
  <2>4. image = 1 => r.code = Main /\ r.stack = 0
    BY <1>2, <2>1, Zenon DEF SignalInv, HandlersReturn
  <2>5. entered' # <<>> /\ Len(entered') = 1 /\ entered' \in Seq(UserFrames)
    BY <1>2, <2>2
  <2>6. HandlersReturn'
    <3>1. image' = 1 => frame'.stack = Len(entered')
      BY <2>3, <2>4, <2>5
    <3> QED
      BY <2>2, <2>3, <2>5, <3>1, Zenon DEF HandlersReturn
  <2> QED
    BY <1>1, <1>3, <1>4, <2>3, <2>4, <2>5, <2>6, Zenon DEF SignalInv
<1> QED
  BY <1>3, <1>5, <1>6, Zenon

(* Every call, signal and exec keeps where an active handler goes back to. *)
LEMMA SignalInvStep == SignalInv /\ SignalNext => SignalInv'
<1> SUFFICES ASSUME SignalInv, SignalNext PROVE SignalInv'
  BY Zenon
<1>0. pcb \in Pcbs /\ frame \in UserFrames /\ image \in Nat /\ signal_calls \in Nat
  BY Zenon DEF SignalInv
<1>1. ASSUME NEW s \in SignalNumbers, NEW room \in BOOLEAN, NEW h \in {0, image},
             NEW m \in SUBSET SignalNumbers, sigaction_sys(s, h, m, room)
      PROVE  SignalInv'
  <2> DEFINE q == [pcb EXCEPT !.handlers[s] = h]
             p == [q EXCEPT !.mask = m]
  <2>1. q \in Pcbs /\ q.active = pcb.active /\ q.saved = pcb.saved
    BY <1>0, <1>1 DEF Pcbs
  <2> HIDE DEF q
  <2>2. p \in Pcbs /\ p.active = pcb.active /\ p.saved = pcb.saved
    BY <1>1, <2>1, Zenon DEF Pcbs
  <2>3. Returns(p, 0, room) /\ UNCHANGED image
    BY <1>1, Zenon DEF sigaction_sys, q
  <2> HIDE DEF p
  <2> QED
    BY <2>2, <2>3, ReturnsKeepsInv
<1>2. ASSUME NEW s \in SignalNumbers, NEW room \in BOOLEAN, kill_self(s, room)
      PROVE  SignalInv'
  <2> DEFINE p == [pcb EXCEPT !.pending = @ \cup {s}]
  <2>1. p \in Pcbs /\ p.active = pcb.active /\ p.saved = pcb.saved
    BY <1>0, Zenon DEF Pcbs
  <2>2. Returns(p, 0, room) /\ UNCHANGED image
    BY <1>2, Zenon DEF kill_self
  <2> HIDE DEF p
  <2> QED
    BY <2>1, <2>2, ReturnsKeepsInv
<1>3. ASSUME NEW eax \in {0, -1}, NEW room \in BOOLEAN, any_other_call(eax, room)
      PROVE  SignalInv'
  BY <1>0, <1>3, ReturnsKeepsInv DEF any_other_call
<1>4. ASSUME NEW room \in BOOLEAN, futex_wait_sys(room)
      PROVE  SignalInv'
  BY <1>0, <1>4, ReturnsKeepsInv DEF futex_wait_sys
<1>5. ASSUME NEW room \in BOOLEAN, ee(room)
      PROVE  SignalInv'
  <2> DEFINE d == process_deliver_signal(pcb, Returned(0), room)
  <2>1. /\ image' = image + 1 /\ entered' = <<>> /\ signal_calls' = signal_calls + 1
        /\ pcb' = d.pcb /\ frame' = [Start(image + 1) EXCEPT !.eax = d.frame.eax]
    BY <1>5, Zenon DEF ee, SignalStep
  <2>2. Returned(0) \in UserFrames
    BY ReturnedIsFrame
  <2>3. d.pcb \in Pcbs /\ d.frame \in UserFrames
    BY <1>0, <2>2, DeliveryIsSound, Zenon
  <2> HIDE DEF d
  <2>4. image' \in Nat \ {0} /\ image' # 1 /\ signal_calls' \in Nat
    BY <1>0, <2>1 DEF SignalInv
  <2>5. Start(image + 1) \in UserFrames
    BY <1>0, StartIsFrame
  <2>6. frame' \in UserFrames
    BY <2>1, <2>3, <2>5, Zenon DEF UserFrames
  <2> QED
    BY <2>1, <2>3, <2>4, <2>6 DEF SignalInv, HandlersReturn
<1>6. CASE sigreturn_sys
  <2>0. image' = image /\ signal_calls' \in Nat
    BY <1>0, <1>6 DEF sigreturn_sys, SignalStep
  <2>1. CASE pcb.active
    <3>1. /\ frame' = pcb.saved /\ pcb' = [pcb EXCEPT !.active = FALSE]
          /\ entered' = SubSeq(entered, 1, Len(entered) - 1)
      BY <1>6, <2>1, Zenon DEF sigreturn_sys
    <3>2. entered' = <<>>
      <4>1. CASE entered = <<>>
        BY <3>1, <4>1
      <4>2. CASE entered # <<>>
        <5>1. Len(entered) = 1
          BY <4>2 DEF SignalInv, HandlersReturn
        <5> QED
          BY <3>1, <5>1
      <4> QED
        BY <4>1, <4>2, Zenon
    <3>3. /\ pcb' \in Pcbs /\ pcb'.active = FALSE /\ pcb'.saved = pcb.saved
          /\ frame' \in UserFrames
      BY <1>0, <3>1, Zenon DEF Pcbs
    <3>4. image = 1 => frame'.code = Main /\ frame'.stack = 0
      BY <2>1, <3>1, Zenon DEF SignalInv
    <3> QED
      BY <2>0, <3>2, <3>3, <3>4 DEF SignalInv, HandlersReturn
  <2>2. CASE ~pcb.active
    <3>1. frame' = Returned(0) /\ UNCHANGED <<pcb, entered>>
      BY <1>6, <2>2, Zenon DEF sigreturn_sys
    <3>2. /\ Returned(0) \in UserFrames
          /\ Returned(0).code = frame.code /\ Returned(0).stack = frame.stack
      BY ReturnedIsFrame
    <3> QED
      BY <2>0, <3>1, <3>2, Zenon DEF SignalInv, HandlersReturn
  <2> QED
    BY <2>1, <2>2, Zenon
<1>7. ASSUME NEW s \in SignalNumbers, process_send_signal(s)
      PROVE  SignalInv'
  <2>1. /\ pcb' = [pcb EXCEPT !.pending = @ \cup {s}] /\ UNCHANGED <<frame, image, entered>>
        /\ signal_calls' \in Nat
    BY <1>0, <1>7 DEF process_send_signal, SignalStep
  <2>2. pcb' \in Pcbs /\ pcb'.active = pcb.active /\ pcb'.saved = pcb.saved
    BY <1>0, <2>1, Zenon DEF Pcbs
  <2> QED
    BY <2>1, <2>2, Zenon DEF SignalInv, HandlersReturn
<1>8. ASSUME NEW eax \in {0, Etimedout}, Woken(eax)
      PROVE  SignalInv'
  <2>1. frame' = [frame EXCEPT !.eax = eax] /\ UNCHANGED <<pcb, image, entered, signal_calls>>
    BY <1>8, Zenon DEF Woken
  <2>2. frame' \in UserFrames /\ frame'.code = frame.code /\ frame'.stack = frame.stack
    BY <1>0, <2>1 DEF UserFrames, Etimedout
  <2> QED
    BY <2>1, <2>2, Zenon DEF SignalInv, HandlersReturn
<1>9. ASSUME NEW eax \in {0, -1}, CallAsIdle(eax)
      PROVE  SignalInv'
  <2>1. frame' = Returned(eax) /\ UNCHANGED <<pcb, image, entered>> /\ signal_calls' \in Nat
    BY <1>0, <1>9 DEF CallAsIdle, SignalStep
  <2>2. eax \in Int
    BY <1>9
  <2>3. /\ frame' \in UserFrames
        /\ frame'.code = frame.code /\ frame'.stack = frame.stack
    BY <2>1, <2>2, ReturnedIsFrame, Zenon
  <2> QED
    BY <2>1, <2>3, Zenon DEF SignalInv, HandlersReturn
<1>10. ASSUME NEW s \in SignalNumbers, KillAsIdle(s)
       PROVE  SignalInv'
  <2>1. /\ pcb' = [pcb EXCEPT !.pending = @ \cup {s}] /\ frame' = Returned(0)
        /\ UNCHANGED <<image, entered>> /\ signal_calls' \in Nat
    BY <1>0, <1>10 DEF KillAsIdle, SignalStep
  <2>2. pcb' \in Pcbs /\ pcb'.active = pcb.active /\ pcb'.saved = pcb.saved
    BY <1>0, <2>1, Zenon DEF Pcbs
  <2>3. /\ frame' \in UserFrames
        /\ frame'.code = frame.code /\ frame'.stack = frame.stack
    BY <2>1, ReturnedIsFrame
  <2> QED
    BY <2>1, <2>2, <2>3, Zenon DEF SignalInv, HandlersReturn
<1>11. CASE Replaced
  BY <1>11, Zenon DEF Replaced, SignalInv, HandlersReturn
<1> QED
  BY <1>1, <1>2, <1>3, <1>4, <1>5, <1>6, <1>7, <1>8, <1>9, <1>10, <1>11, Zenon DEF SignalNext

(* Only the calls of the process and those who signal it touch its signals. *)
LEMMA SignalSteps ==
  ASSUME [Next]_vars
  PROVE  UNCHANGED signalVars \/ SignalNext
<1>1. CASE Kmain
  <2>1. CASE Unmask
    BY <2>1, Zenon DEF Unmask, pic_unmask, restVars, workVars
  <2> QED
    BY <1>1, <2>1, Zenon DEF Kmain, idt_init, AcpiInit, smp_init, ApicInit, IoapicInit, keyboard_init,
       Register, Drivers, NetInit, StartModules, process_enter_user, restVars, workVars
<1>2. CASE \E k \in ScanKinds : Press(k)
  BY <1>2, Zenon DEF Press, restVars, workVars
<1>3. CASE \E l \in {Timer, Keyboard} : irq_handler(l)
  BY <1>3, Zenon DEF irq_handler
<1>4. CASE PitEdge \/ SpuriousIrq \/ keyboard_getc \/ ksleep_ms \/ CheckPacket
  BY <1>4, Zenon DEF PitEdge, SpuriousIrq, keyboard_getc, ksleep_ms, CheckPacket, restVars, workVars
<1>5. CASE SocketCall \/ ModuleWork \/ PrintWork \/ SignalWork
  BY <1>5, Zenon DEF SocketCall, ModuleWork, PrintWork, SignalWork, workVars
<1>6. CASE hlt \/ UNCHANGED vars
  BY <1>6, Zenon DEF hlt, vars, restVars, workVars
<1> QED
  BY <1>1, <1>2, <1>3, <1>4, <1>5, <1>6, Zenon DEF Next

(* Every step of the system keeps where an active handler goes back to. *)
LEMMA SignalInvNext == SignalInv /\ [Next]_vars => SignalInv'
<1>1. SignalInv /\ UNCHANGED signalVars => SignalInv'
  BY Zenon DEF signalVars, SignalInv, HandlersReturn
<1> QED
  BY <1>1, SignalSteps, SignalInvStep, Zenon

(* process_deliver_signal never interrupts a handler, and sigreturn takes the
   process back to the frame that its handler interrupted, for every set of
   signals and every sequence of calls, waits, signals and execs. *)
THEOREM SignalsSound == Spec => []HandlersReturn
<1>1. SignalInv => HandlersReturn
  BY Zenon DEF SignalInv
<1>2. Init => SignalInv
  BY SignalInvInit, Zenon DEF Init
<1> QED
  BY <1>1, <1>2, SignalInvNext, PTL DEF Spec
=============================================================================
