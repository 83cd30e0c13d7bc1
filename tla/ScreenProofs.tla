---------------------------- MODULE ScreenProofs ----------------------------
(***************************************************************************)
(* The terminal and the shell's line editor, for screens of every size.    *)
(*                                                                         *)
(* The cursor stays on the screen: CursorOnScreen is inductive together    *)
(* with TypeOK; what needs care is what happens within one byte.  Advance  *)
(* may leave the screen, to the right in the row of the cursor or to the   *)
(* beginning of the row below; Wrap then leaves at most the row below, and *)
(* Scroll none.                                                            *)
(*                                                                         *)
(* Texts of several bytes are followed through the recursive function of   *)
(* tty_puts; induction is by the least position at which a claim fails     *)
(* (LeastNatural).  The line on the screen is inductive together with the  *)
(* rows below being empty, which a newline needs, and with lines that fit  *)
(* their row.                                                              *)
(***************************************************************************)
EXTENDS LineEditor, SequenceTheorems, WellFoundedInduction, TLAPS

TtyType ==
  [x : Nat, y : Nat, ansi_state : {"NORMAL", "ESC", "CSI"},
   params : [0 .. MaxParams - 1 -> Word], param_count : 0 .. MaxParams,
   current : Word, cells : [Cell -> Shown \cup {"?", Blank}]]

\* A terminal with its cursor on the screen.
Good(t) == t \in TtyType /\ t.x < Columns /\ t.y < Rows

-----------------------------------------------------------------------------
(* Arithmetic.                                                             *)

\* A remainder is below its divisor.
LEMMA RemainderBelow ==
  ASSUME NEW a \in Nat, NEW b \in Nat \ {0}
  PROVE  a % b \in 0 .. b - 1
OBVIOUS

\* The value of a digit that is read is one of 0 to 9.
LEMMA DigitBelowTen ==
  ASSUME NEW ch, IsDigit(ch)
  PROVE  DigitValue(ch) \in 0 .. 9
<1>1. PICK i \in 1 .. 10 : Digits[i] = ch
  BY DEF IsDigit
<1> QED
  BY <1>1 DEF DigitValue

-----------------------------------------------------------------------------
(* tty_render_char                                                         *)

Picture == [Cell -> Shown \cup {"?", Blank}]

\* The types of the fields.
LEMMA Fields ==
  ASSUME NEW t \in TtyType
  PROVE  /\ t.x \in Nat /\ t.y \in Nat /\ t.cells \in Picture
         /\ t.params \in [0 .. MaxParams - 1 -> Word]
         /\ t.param_count \in 0 .. MaxParams /\ t.current \in Word
BY DEF TtyType, Picture

\* Writing a character to a cell, and scrolling, leave cells with characters.
LEMMA CellsStay ==
  ASSUME NEW cells \in Picture, NEW cell, NEW ch \in Shown \cup {"?", Blank}
  PROVE  TmWrite(cells, cell, ch) \in Picture /\ TmScroll(cells) \in Picture
BY DEF TmWrite, TmScroll, Picture

\* A byte leaves the cursor in its row or at the beginning of the next.
LEMMA AdvanceLeaves ==
  ASSUME NEW t \in TtyType, t.y < Rows, NEW ch
  PROVE  /\ Advance(t, ch) \in TtyType
         /\ Advance(t, ch).y < Rows \/ (Advance(t, ch).x = 0 /\ Advance(t, ch).y <= Rows)
         /\ Advance(t, ch).ansi_state = t.ansi_state
<1> t.x \in Nat /\ t.y \in Nat /\ t.cells \in Picture
  BY Fields
<1>1. CASE ch = "NL"
  <2> DEFINE n == t.y + 1
             u == [t EXCEPT !.x = 0, !.y = n]
  <2>1. Advance(t, ch) = u
    BY <1>1 DEF Advance
  <2>2. n \in Nat /\ n <= Rows
    BY ScreenAssumption
  <2> HIDE DEF n
  <2>3. u \in TtyType /\ u.x = 0 /\ u.y = n /\ u.ansi_state = t.ansi_state
    BY <2>2 DEF TtyType
  <2> HIDE DEF u
  <2> QED
    BY <2>1, <2>2, <2>3
<1>2. CASE ch = "CR"
  <2> DEFINE u == [t EXCEPT !.x = 0]
  <2>1. Advance(t, ch) = u
    BY <1>2 DEF Advance
  <2>2. u \in TtyType /\ u.y = t.y /\ u.ansi_state = t.ansi_state
    BY DEF TtyType
  <2> HIDE DEF u
  <2> QED
    BY <2>1, <2>2
<1>3. CASE ch = "BS"
  <2> DEFINE back == IF t.x > 0 THEN t.x - 1 ELSE 0
             cs == TmWrite(t.cells, t.y * Columns + back, Blank)
             u == [t EXCEPT !.x = back, !.cells = cs]
  <2>1. Advance(t, ch) = u
    BY <1>3 DEF Advance
  <2>2. back \in Nat
    OBVIOUS
  <2> HIDE DEF back
  <2>3. cs \in Picture
    BY CellsStay
  <2> HIDE DEF cs
  <2>4. u \in TtyType /\ u.y = t.y /\ u.ansi_state = t.ansi_state
    BY <2>2, <2>3 DEF TtyType, Picture
  <2> HIDE DEF u
  <2> QED
    BY <2>1, <2>4
<1>4. CASE ch = "TAB"
  <2> DEFINE n == t.x + TabWidth - (t.x % TabWidth)
             u == [t EXCEPT !.x = n]
  <2>1. Advance(t, ch) = u
    BY <1>4 DEF Advance
  <2>2. t.x % TabWidth \in 0 .. TabWidth - 1
    BY RemainderBelow, ScreenAssumption
  <2>3. n \in Nat
    BY <2>2, ScreenAssumption
  <2> HIDE DEF n
  <2>4. u \in TtyType /\ u.y = t.y /\ u.ansi_state = t.ansi_state
    BY <2>3 DEF TtyType
  <2> HIDE DEF u
  <2> QED
    BY <2>1, <2>4
<1>5. CASE ch \notin {"NL", "CR", "BS", "TAB"}
  <2> DEFINE n == t.x + 1
             cs == TmWrite(t.cells, CursorCell(t), Look(ch))
             u == [t EXCEPT !.x = n, !.cells = cs]
  <2>1. Advance(t, ch) = u
    BY <1>5 DEF Advance
  <2>2. n \in Nat
    OBVIOUS
  <2> HIDE DEF n
  <2>3. Look(ch) \in Shown \cup {"?", Blank}
    BY DEF Look
  <2>4. cs \in Picture
    BY <2>3, CellsStay
  <2> HIDE DEF cs
  <2>5. u \in TtyType /\ u.y = t.y /\ u.ansi_state = t.ansi_state
    BY <2>2, <2>4 DEF TtyType, Picture
  <2> HIDE DEF u
  <2> QED
    BY <2>1, <2>5
<1> QED
  BY <1>1, <1>2, <1>3, <1>4, <1>5

\* A cursor that left its row, or stands at the beginning of the row below the
\* screen, is brought back: by Wrap to a column of the screen,
LEMMA WrapBrings ==
  ASSUME NEW t \in TtyType, t.y < Rows \/ (t.x = 0 /\ t.y <= Rows)
  PROVE  Wrap(t) \in TtyType /\ Wrap(t).x < Columns /\ Wrap(t).y <= Rows
         /\ Wrap(t).ansi_state = t.ansi_state
<1> t.x \in Nat /\ t.y \in Nat
  BY Fields
<1>1. CASE t.x >= Columns
  <2> DEFINE n == t.y + 1
             u == [t EXCEPT !.x = 0, !.y = n]
  <2>1. Wrap(t) = u
    BY <1>1 DEF Wrap
  <2>2. n \in Nat /\ n <= Rows
    BY <1>1, ScreenAssumption
  <2> HIDE DEF n
  <2>3. u \in TtyType /\ u.x = 0 /\ u.y = n /\ u.ansi_state = t.ansi_state
    BY <2>2 DEF TtyType
  <2> HIDE DEF u
  <2> QED
    BY <2>1, <2>2, <2>3, ScreenAssumption
<1>2. CASE t.x < Columns
  BY <1>2, ScreenAssumption DEF Wrap
<1> QED
  BY <1>1, <1>2, ScreenAssumption

\* and by Scroll to a row of it.
LEMMA ScrollBrings ==
  ASSUME NEW t \in TtyType, t.x < Columns, t.y <= Rows
  PROVE  Good(Scroll(t)) /\ Scroll(t).ansi_state = t.ansi_state /\ Scroll(t).x = t.x
<1> USE ScreenAssumption
<1> t.x \in Nat /\ t.y \in Nat /\ t.cells \in Picture
  BY Fields
<1>1. CASE t.y >= Rows
  <2> DEFINE cs == TmScroll(t.cells)
             u == [t EXCEPT !.y = t.y - 1, !.cells = cs]
  <2>1. Scroll(t) = u
    BY <1>1 DEF Scroll
  <2>2. cs \in Picture
    BY CellsStay
  <2> HIDE DEF cs
  <2>3. t.y - 1 \in Nat
    BY <1>1
  <2>4. u \in TtyType /\ u.x = t.x /\ u.y = t.y - 1 /\ u.ansi_state = t.ansi_state
    BY <2>2, <2>3 DEF TtyType, Picture
  <2> HIDE DEF u
  <2> QED
    BY <2>1, <2>4 DEF Good
<1>2. CASE t.y < Rows
  BY <1>2 DEF Scroll, Good
<1> QED
  BY <1>1, <1>2

\* A byte that is rendered leaves the cursor on the screen.
LEMMA RenderCharGood ==
  ASSUME NEW t, Good(t), NEW ch
  PROVE  Good(RenderChar(t, ch)) /\ RenderChar(t, ch).ansi_state = t.ansi_state
BY AdvanceLeaves, WrapBrings, ScrollBrings DEF RenderChar, Good

-----------------------------------------------------------------------------
(* tty_csi_dispatch and the parser                                         *)

\* A command leaves the cursor on the screen, whatever its parameters.
LEMMA DispatchGood ==
  ASSUME NEW t \in TtyType, t.x < Columns, t.y < Rows, NEW command
  PROVE  Good(Dispatch(t, command))
<1> USE ScreenAssumption
<1> DEFINE p0 == t.params[0]
           p1 == t.params[1]
<1> t.x \in Nat /\ t.y \in Nat /\ t.cells \in Picture
  BY Fields
<1>0. p0 \in Nat /\ (t.param_count > 1 => p1 \in Nat)
  BY Fields DEF Word
<1>1. Good(Clear(t))
  <2> DEFINE cs == [c \in Cell |-> Blank]
             u == [t EXCEPT !.x = 0, !.y = 0, !.cells = cs]
  <2>1. cs \in Picture
    BY DEF Picture
  <2>2. Clear(t) = u
    BY DEF Clear
  <2> HIDE DEF cs
  <2>3. u \in TtyType /\ u.x = 0 /\ u.y = 0
    BY <2>1 DEF TtyType, Picture
  <2> HIDE DEF u
  <2> QED
    BY <2>2, <2>3 DEF Good
<1>2. Good(MoveTo(t))
  <2> DEFINE row == AtMost(OneBased(p0), Rows) - 1
             n == IF t.param_count > 1 THEN OneBased(p1) ELSE 1
             col == AtMost(n, Columns) - 1
             u == [t EXCEPT !.y = row, !.x = col]
  <2>1. MoveTo(t) = u
    BY DEF MoveTo
  <2>2. row \in Nat /\ row < Rows
    BY <1>0 DEF AtMost, OneBased
  <2>3. n \in Nat \ {0}
    BY <1>0 DEF OneBased
  <2> HIDE DEF n, row
  <2>4. col \in Nat /\ col < Columns
    BY <2>3 DEF AtMost
  <2> HIDE DEF col
  <2>5. u \in TtyType /\ u.x = col /\ u.y = row
    BY <2>2, <2>4 DEF TtyType
  <2> HIDE DEF u
  <2> QED
    BY <2>1, <2>2, <2>4, <2>5 DEF Good
<1>3. Good(EraseToEnd(t))
  <2> DEFINE cs == [c \in Cell |-> IF c >= CursorCell(t) /\ c < (t.y + 1) * Columns
                                   THEN Blank ELSE t.cells[c]]
             u == [t EXCEPT !.cells = cs]
  <2>1. EraseToEnd(t) = u
    BY DEF EraseToEnd
  <2>2. cs \in Picture
    BY DEF Picture
  <2> HIDE DEF cs
  <2>3. u \in TtyType /\ u.x = t.x /\ u.y = t.y
    BY <2>2 DEF TtyType, Picture
  <2> HIDE DEF u
  <2> QED
    BY <2>1, <2>3 DEF Good
<1>4. Good(Forward(t))
  <2> DEFINE sum == t.x + OneBased(p0)
             n == sum % WordSize
             m == AtMost(n, Columns - 1)
             u == [t EXCEPT !.x = m]
  <2>1. Forward(t) = u
    BY DEF Forward
  <2>2. n \in Nat
    <3>1. sum \in Nat
      BY <1>0 DEF OneBased
    <3> HIDE DEF sum
    <3> QED
      BY <3>1, RemainderBelow
  <2> HIDE DEF sum, n
  <2>3. m \in Nat /\ m < Columns
    BY <2>2 DEF AtMost
  <2> HIDE DEF m
  <2>4. u \in TtyType /\ u.x = m /\ u.y = t.y
    BY <2>3 DEF TtyType
  <2> HIDE DEF u
  <2> QED
    BY <2>1, <2>3, <2>4 DEF Good
<1>5. Good(Back(t))
  <2> DEFINE amount == OneBased(p0)
             m == IF amount > t.x THEN 0 ELSE t.x - amount
             u == [t EXCEPT !.x = m]
  <2>1. Back(t) = u
    BY DEF Back
  <2>2. m \in Nat /\ m < Columns
    BY <1>0 DEF OneBased
  <2> HIDE DEF amount, m
  <2>3. u \in TtyType /\ u.x = m /\ u.y = t.y
    BY <2>2 DEF TtyType
  <2> HIDE DEF u
  <2> QED
    BY <2>1, <2>2, <2>3 DEF Good
<1>6. Good(t)
  BY DEF Good
<1>7. Dispatch(t, command) \in {Clear(t), MoveTo(t), EraseToEnd(t), Forward(t), Back(t), t}
  BY DEF Dispatch
<1> QED
  BY <1>1, <1>2, <1>3, <1>4, <1>5, <1>6, <1>7

\* A parameter is committed within ansi_params.
LEMMA CommitGood ==
  ASSUME NEW t, Good(t)
  PROVE  Good(Commit(t))
<1> USE ScreenAssumption
<1>1. CASE t.param_count < MaxParams
  <2> DEFINE ps == [t.params EXCEPT ![t.param_count] = t.current]
             n == t.param_count + 1
             u == [t EXCEPT !.params = ps, !.param_count = n]
  <2>1. Commit(t) = u
    BY <1>1 DEF Commit
  <2>2. ps \in [0 .. MaxParams - 1 -> Word] /\ n \in 0 .. MaxParams
    BY <1>1, Fields DEF Good
  <2> HIDE DEF ps, n
  <2>3. u \in TtyType /\ u.x = t.x /\ u.y = t.y
    BY <2>2 DEF TtyType, Good
  <2> HIDE DEF u
  <2> QED
    BY <2>1, <2>3 DEF Good
<1>2. CASE ~(t.param_count < MaxParams)
  BY <1>2 DEF Commit
<1> QED
  BY <1>1, <1>2

\* The number that the parser reads does not matter to the cursor,
LEMMA NumberGood ==
  ASSUME NEW t, Good(t), NEW n \in Word
  PROVE  Good([t EXCEPT !.current = n])
<1> DEFINE u == [t EXCEPT !.current = n]
<1>1. u \in TtyType /\ u.x = t.x /\ u.y = t.y
  BY DEF Good, TtyType
<1> QED
  BY <1>1 DEF Good

\* nor does its state.
LEMMA StateGood ==
  ASSUME NEW t, Good(t), NEW s \in {"NORMAL", "ESC", "CSI"}
  PROVE  Good([t EXCEPT !.ansi_state = s])
<1> DEFINE u == [t EXCEPT !.ansi_state = s]
<1>1. u \in TtyType /\ u.x = t.x /\ u.y = t.y
  BY DEF Good, TtyType
<1> QED
  BY <1>1 DEF Good

\* The parser keeps the cursor on the screen.
LEMMA RenderGood ==
  ASSUME NEW t, Good(t), NEW ch
  PROVE  Good(Render(t, ch))
<1>0. 0 \in Word
  BY ScreenAssumption DEF Word
<1>1. Good(RenderChar(t, ch))
  BY RenderCharGood
<1>2. Good([t EXCEPT !.ansi_state = "ESC"])
  BY StateGood
<1>3. Good(RenderEsc(t, ch))
  <2> DEFINE u == [t EXCEPT !.ansi_state = "CSI", !.param_count = 0, !.current = 0]
  <2>1. 0 \in 0 .. MaxParams
    BY ScreenAssumption
  <2>2. u \in TtyType /\ u.x = t.x /\ u.y = t.y
    BY <1>0, <2>1 DEF Good, TtyType
  <2>3. Good(u)
    BY <2>2 DEF Good
  <2> QED
    BY <2>3, StateGood DEF RenderEsc
<1>4. Good(RenderCsi(t, ch))
  <2>1. CASE IsDigit(ch)
    <3> DEFINE sum == t.current * 10 + DigitValue(ch)
               n == sum % WordSize
    <3>1. RenderCsi(t, ch) = [t EXCEPT !.current = n]
      BY <2>1 DEF RenderCsi
    <3>2. sum \in Nat
      <4>1. t.current \in Word
        BY Fields DEF Good
      <4>2. t.current \in Nat
        BY <4>1, ScreenAssumption DEF Word
      <4>3. DigitValue(ch) \in Nat
        BY <2>1, DigitBelowTen
      <4> QED
        BY <4>2, <4>3
    <3> HIDE DEF sum
    <3>3. n \in Word
      BY <3>2, RemainderBelow, ScreenAssumption DEF Word
    <3> HIDE DEF n
    <3> QED
      BY <3>1, <3>3, NumberGood
  <2>2. CASE ~IsDigit(ch) /\ ch = ";"
    <3>1. RenderCsi(t, ch) = [Commit(t) EXCEPT !.current = 0]
      BY <2>2 DEF RenderCsi
    <3> QED
      BY <3>1, <1>0, CommitGood, NumberGood
  <2>3. CASE ~IsDigit(ch) /\ ch # ";"
    <3>1. RenderCsi(t, ch) = [Dispatch(Commit(t), ch) EXCEPT !.ansi_state = "NORMAL"]
      BY <2>3 DEF RenderCsi
    <3>2. Good(Dispatch(Commit(t), ch))
      BY CommitGood, DispatchGood DEF Good
    <3> QED
      BY <3>1, <3>2, StateGood
  <2> QED
    BY <2>1, <2>2, <2>3
<1>5. Render(t, ch) \in {RenderChar(t, ch), [t EXCEPT !.ansi_state = "ESC"],
                         RenderEsc(t, ch), RenderCsi(t, ch)}
  BY DEF Render
<1> QED
  BY <1>1, <1>2, <1>3, <1>4, <1>5

-----------------------------------------------------------------------------

\* A new terminal has its cursor on the screen.
LEMMA NewGood ==
  ASSUME NEW params \in [0 .. MaxParams - 1 -> Garbage]
  PROVE  Good(NewTty(params))
<1>1. 0 \in Word /\ 0 \in 0 .. MaxParams /\ Garbage \subseteq Word
  BY ScreenAssumption DEF Word
<1>2. [c \in Cell |-> Blank] \in [Cell -> Shown \cup {"?", Blank}]
  OBVIOUS
<1>3. params \in [0 .. MaxParams - 1 -> Word]
  BY <1>1
<1>4. NewTty(params) \in TtyType
  BY <1>1, <1>2, <1>3 DEF NewTty, TtyType
<1>5. QED
  BY <1>4, ScreenAssumption DEF NewTty, Good

\* Whatever bytes programs write to a terminal of any size, its fields keep
\* their types and the cursor stays on the screen.
THEOREM ScreenCursor == Spec => [](TypeOK /\ CursorOnScreen)
<1>1. TypeOK /\ CursorOnScreen <=> Good(tty)
  BY DEF TypeOK, CursorOnScreen, Good, TtyType
<1>2. Init => Good(tty)
  BY NewGood DEF Init
<1>3. Good(tty) /\ [Next]_tty => Good(tty)'
  BY RenderGood DEF Next, Putchar, Good
<1> QED
  BY <1>1, <1>2, <1>3, PTL DEF Spec

-----------------------------------------------------------------------------
(* tty_puts                                                                *)

\* Every set of natural numbers that has a member has a least one.
LEMMA LeastNatural ==
  ASSUME NEW T \in SUBSET Nat, T # {}
  PROVE  \E m \in T : \A k \in T : m <= k
<1> DEFINE R == OpToRel(<, Nat)
<1>1. IsWellFoundedOn(R, Nat)
  BY NatLessThanWellFounded
<1>2. \A i, j \in Nat : <<i, j>> \in R <=> i < j
  BY DEF OpToRel
<1> HIDE DEF R
<1>3. PICK x \in T : \A y \in T : ~(<<y, x>> \in R)
  BY <1>1, WFMin
<1>4. ASSUME NEW k \in T PROVE x <= k
  <2>1. ~(k < x)
    BY <1>2, <1>3
  <2>2. QED
    BY <2>1
<1>5. QED
  BY <1>4

\* The terminals that the bytes of s lead through.
IsRun(w, t, s, n) ==
  w = [k \in 0 .. n |-> IF k = 0 THEN t ELSE Render(w[k - 1], s[k])]

\* There is a function that gives the terminal after each of n characters.
LEMMA RunExists ==
  ASSUME NEW t, NEW s, NEW n \in Nat
  PROVE  \E w : IsRun(w, t, s, n)
<1> DEFINE T == {m \in Nat : ~ \E w : IsRun(w, t, s, m)}
<1>1. SUFFICES ASSUME T # {} PROVE FALSE
  OBVIOUS
<1>2. PICK m \in T : \A k \in T : m <= k
  <2>1. T \in SUBSET Nat
    OBVIOUS
  <2> HIDE DEF T
  <2>2. QED
    BY <1>1, <2>1, LeastNatural
<1>3. CASE m = 0
  <2> DEFINE w == [k \in 0 .. 0 |-> t]
  <2>1. w = [k \in 0 .. 0 |-> IF k = 0 THEN t ELSE Render(w[k - 1], s[k])]
    OBVIOUS
  <2>2. IsRun(w, t, s, 0)
    BY <2>1 DEF IsRun
  <2>3. QED
    BY <2>2, <1>3
<1>4. CASE m # 0
  <2>1. m - 1 \in Nat /\ m \in Nat
    BY <1>4
  <2>2. PICK w : IsRun(w, t, s, m - 1)
    BY <2>1, <1>2
  <2> DEFINE u == [k \in 0 .. m |-> IF k = m THEN Render(w[m - 1], s[m]) ELSE w[k]]
  <2>3. \A k \in 0 .. m - 1 : u[k] = w[k]
    BY <2>1
  <2>4. ASSUME NEW k \in 0 .. m
        PROVE  u[k] = IF k = 0 THEN t ELSE Render(u[k - 1], s[k])
    <3>1. CASE k = m
      BY <3>1, <2>1, <2>3, <1>4
    <3>2. CASE k # m
      <4>1. k \in 0 .. m - 1 /\ (k # 0 => k - 1 \in 0 .. m - 1)
        BY <3>2, <2>1
      <4>2. w[k] = IF k = 0 THEN t ELSE Render(w[k - 1], s[k])
        BY <2>2, <4>1 DEF IsRun
      <4>3. QED
        BY <4>1, <4>2, <2>3
    <3>3. QED
      BY <3>1, <3>2
  <2>5. IsRun(u, t, s, m)
    <3>1. u = [k \in 0 .. m |-> u[k]]
      OBVIOUS
    <3> HIDE DEF u
    <3>2. QED
      BY <3>1, <2>4 DEF IsRun
  <2>6. QED
    BY <2>5
<1>5. QED
  BY <1>3, <1>4

\* tty_puts renders byte after byte.
Follows(w, t, s) ==
  w[0] = t /\ \A k \in 1 .. Len(s) : w[k] = Render(w[k - 1], s[k])

\* tty_puts renders its characters one after the other.
LEMMA PutsSteps ==
  ASSUME NEW t, NEW s, Len(s) \in Nat
  PROVE  \E w : Follows(w, t, s) /\ Puts(t, s) = w[Len(s)]
<1> DEFINE n == Len(s)
           w == CHOOSE v : IsRun(v, t, s, n)
<1>1. Puts(t, s) = w[n]
  BY DEF Puts, IsRun
<1>2. IsRun(w, t, s, n)
  BY RunExists
<1> HIDE DEF w
<1>3. \A k \in 0 .. n : w[k] = IF k = 0 THEN t ELSE Render(w[k - 1], s[k])
  BY <1>2 DEF IsRun
<1>4. w[0] = t /\ \A k \in 1 .. n : w[k] = Render(w[k - 1], s[k])
  BY <1>3
<1>5. Follows(w, t, s)
  BY <1>4 DEF Follows
<1>6. QED
  BY <1>1, <1>5

\* The messages of three and four bytes that the properties speak of.
LEMMA PutsThree ==
  ASSUME NEW t, NEW a, NEW b, NEW c
  PROVE  Puts(t, <<a, b, c>>) = Render(Render(Render(t, a), b), c)
<1>0. PICK s : s = <<a, b, c>>
  OBVIOUS
<1>1. Len(s) = 3 /\ s[1] = a /\ s[2] = b /\ s[3] = c
  BY <1>0
<1>2. PICK w : Follows(w, t, s) /\ Puts(t, s) = w[Len(s)]
  <2>1. Len(s) \in Nat
    BY <1>1
  <2>2. QED
    BY <2>1, PutsSteps
<1>3. w[0] = t /\ \A k \in 1 .. 3 : w[k] = Render(w[k - 1], s[k])
  BY <1>1, <1>2 DEF Follows
<1>4. w[1] = Render(w[0], a) /\ w[2] = Render(w[1], b) /\ w[3] = Render(w[2], c)
  <2>1. w[1] = Render(w[1 - 1], s[1]) /\ w[2] = Render(w[2 - 1], s[2]) /\ w[3] = Render(w[3 - 1], s[3])
    BY <1>3
  <2>2. QED
    BY <2>1, <1>1
<1>5. QED
  BY <1>0, <1>1, <1>2, <1>3, <1>4

\* tty_puts on four characters.
LEMMA PutsFour ==
  ASSUME NEW t, NEW a, NEW b, NEW c, NEW d
  PROVE  Puts(t, <<a, b, c, d>>) = Render(Render(Render(Render(t, a), b), c), d)
<1>0. PICK s : s = <<a, b, c, d>>
  OBVIOUS
<1>1. Len(s) = 4 /\ s[1] = a /\ s[2] = b /\ s[3] = c /\ s[4] = d
  BY <1>0
<1>2. PICK w : Follows(w, t, s) /\ Puts(t, s) = w[Len(s)]
  <2>1. Len(s) \in Nat
    BY <1>1
  <2>2. QED
    BY <2>1, PutsSteps
<1>3. w[0] = t /\ \A k \in 1 .. 4 : w[k] = Render(w[k - 1], s[k])
  BY <1>1, <1>2 DEF Follows
<1>4. /\ w[1] = Render(w[0], a) /\ w[2] = Render(w[1], b)
      /\ w[3] = Render(w[2], c) /\ w[4] = Render(w[3], d)
  <2>1. /\ w[1] = Render(w[1 - 1], s[1]) /\ w[2] = Render(w[2 - 1], s[2])
        /\ w[3] = Render(w[3 - 1], s[3]) /\ w[4] = Render(w[4 - 1], s[4])
    BY <1>3
  <2>2. QED
    BY <2>1, <1>1
<1>5. QED
  BY <1>0, <1>1, <1>2, <1>3, <1>4

-----------------------------------------------------------------------------
(* What a sequence does does not depend on the past.                       *)

\* What is left when the sequence ESC [ has been read.
LEMMA SequenceBegins ==
  ASSUME NEW t, Good(t), t.ansi_state = "NORMAL"
  PROVE  Render(Render(t, "ESC"), "[") =
           [t EXCEPT !.ansi_state = "CSI", !.param_count = 0, !.current = 0]
<1>1. PICK u : u = [t EXCEPT !.ansi_state = "ESC"]
  OBVIOUS
<1>2. Render(t, "ESC") = u
  BY <1>1 DEF Render
<1>3. u.ansi_state = "ESC"
  BY <1>1 DEF Good, TtyType
<1>4. Render(u, "[") = [u EXCEPT !.ansi_state = "CSI", !.param_count = 0, !.current = 0]
  BY <1>3 DEF Render, RenderEsc
<1>5. QED
  BY <1>1, <1>2, <1>4 DEF Good, TtyType

\* There is room for a parameter, and 0 and 2 are values of one.
LEMMA ParamFacts ==
  /\ 0 \in 0 .. MaxParams /\ 0 \in 0 .. MaxParams - 1 /\ 0 < MaxParams
  /\ 0 \in Word /\ 2 \in Word /\ 0 + 1 = 1
BY ScreenAssumption DEF Word

\* Byte ch ends a sequence with the number n: v is what the command sees.
Sees(t, u, n, ch, v) ==
  /\ Render(u, ch) = [Dispatch(v, ch) EXCEPT !.ansi_state = "NORMAL"]
  /\ Good(v) /\ v.x = t.x /\ v.y = t.y /\ v.cells = t.cells
  /\ v.params[0] = n /\ v.param_count = 1

\* A command is carried out with its number as the first parameter.
LEMMA CommandSees ==
  ASSUME NEW t, Good(t), NEW n \in Word, NEW ch, ~IsDigit(ch), ch # ";",
         NEW u, u = [t EXCEPT !.ansi_state = "CSI", !.param_count = 0, !.current = n]
  PROVE  \E v : Sees(t, u, n, ch, v)
<1>1. /\ u \in TtyType /\ u.x = t.x /\ u.y = t.y /\ u.cells = t.cells /\ u.params = t.params
      /\ u.param_count = 0 /\ u.current = n /\ u.ansi_state = "CSI"
  <2>1. 0 \in 0 .. MaxParams /\ t \in TtyType
    BY ParamFacts DEF Good
  <2>2. u \in TtyType
    BY <2>1 DEF TtyType
  <2>3. QED
    BY <2>1, <2>2 DEF TtyType
<1>2. Good(u)
  BY <1>1 DEF Good
<1>3. PICK v : v = Commit(u)
  OBVIOUS
<1>4. Good(v)
  BY <1>2, <1>3, CommitGood
<1>5. v = [u EXCEPT !.params[u.param_count] = u.current, !.param_count = @ + 1]
  <2>1. u.param_count < MaxParams
    BY <1>1, ParamFacts
  <2>2. QED
    BY <1>3, <2>1 DEF Commit
<1>6. /\ v.x = u.x /\ v.y = u.y /\ v.cells = u.cells /\ v.params = [u.params EXCEPT ![0] = n]
      /\ v.param_count = 1
  <2>1. /\ v.x = u.x /\ v.y = u.y /\ v.cells = u.cells
        /\ v.params = [u.params EXCEPT ![u.param_count] = u.current]
        /\ v.param_count = u.param_count + 1
    <3>1. /\ DOMAIN u = {"x", "y", "ansi_state", "params", "param_count", "current", "cells"}
      BY <1>1 DEF TtyType
    <3>2. QED
      BY <1>5, <3>1
  <2>2. u.param_count = 0 /\ u.current = n
    BY <1>1, Zenon
  <2>3. v.params = [u.params EXCEPT ![0] = n]
    BY <2>1, <2>2, Zenon
  <2>4. v.param_count = 1
    BY <2>1, <2>2, ParamFacts, Zenon
  <2>5. QED
    BY <2>1, <2>3, <2>4, Zenon
<1>7. v.params[0] = n
  <2>1. u.params \in [0 .. MaxParams - 1 -> Word] /\ 0 \in 0 .. MaxParams - 1
    BY <1>1, Fields, ParamFacts
  <2>2. QED
    BY <2>1, <1>6
<1>8. Render(u, ch) = [Dispatch(v, ch) EXCEPT !.ansi_state = "NORMAL"]
  BY <1>1, <1>3 DEF Render, RenderCsi
<1>9. Sees(t, u, n, ch, v)
  BY <1>1, <1>4, <1>6, <1>7, <1>8 DEF Sees
<1>10. QED
  BY <1>9

\* The final characters of the sequences are not digits.
LEMMA DigitFacts ==
  /\ ~IsDigit("H") /\ ~IsDigit("J") /\ ~IsDigit("K") /\ ~IsDigit("^")
  /\ ~IsDigit("C") /\ ~IsDigit("D") /\ IsDigit("2") /\ DigitValue("2") = 2
<1>1. /\ Digits[1] = "0" /\ Digits[2] = "1" /\ Digits[3] = "2" /\ Digits[4] = "3"
      /\ Digits[5] = "4" /\ Digits[6] = "5" /\ Digits[7] = "6" /\ Digits[8] = "7"
      /\ Digits[9] = "8" /\ Digits[10] = "9"
  BY DEF Digits
<1>2. \A i \in 1 .. 10 : i = 1 \/ i = 2 \/ i = 3 \/ i = 4 \/ i = 5 \/ i = 6 \/ i = 7 \/ i = 8
                         \/ i = 9 \/ i = 10
  OBVIOUS
<1>3. \A i \in 1 .. 10 : Digits[i] \in {"0", "1", "2", "3", "4", "5", "6", "7", "8", "9"}
  BY <1>1, <1>2
<1>4. /\ ~IsDigit("H") /\ ~IsDigit("J") /\ ~IsDigit("K") /\ ~IsDigit("^")
      /\ ~IsDigit("C") /\ ~IsDigit("D")
  BY <1>3 DEF IsDigit
<1>5. 3 \in 1 .. 10 /\ \A i \in 1 .. 10 : Digits[i] = "2" <=> i = 3
  BY <1>1, <1>2
<1>6. IsDigit("2")
  BY <1>1, <1>5 DEF IsDigit
<1>7. (CHOOSE i \in 1 .. 10 : Digits[i] = "2") = 3
  BY <1>5
<1>8. DigitValue("2") = 2
  BY <1>7 DEF DigitValue
<1>9. QED
  BY <1>4, <1>6, <1>8

\* A command at the end of a sequence is carried out, and the parser rests.
LEMMA CommandDone ==
  ASSUME NEW d, Good(d), NEW u, u = [d EXCEPT !.ansi_state = "NORMAL"]
  PROVE  Good(u) /\ u.ansi_state = "NORMAL" /\ u.x = d.x /\ u.y = d.y /\ u.cells = d.cells
<1>1. Good(u)
  BY StateGood
<1>2. QED
  BY <1>1 DEF Good, TtyType

\* ESC [ H moves the cursor to the first cell.
LEMMA HomeSequence ==
  ASSUME NEW t, Good(t), t.ansi_state = "NORMAL"
  PROVE  LET home == Puts(t, <<"ESC", "[", "H">>)
         IN /\ Good(home) /\ home.ansi_state = "NORMAL"
            /\ home.x = 0 /\ home.y = 0 /\ home.cells = t.cells
<1>1. PICK u : u = [t EXCEPT !.ansi_state = "CSI", !.param_count = 0, !.current = 0]
  OBVIOUS
<1>2. Puts(t, <<"ESC", "[", "H">>) = Render(u, "H")
  <2>1. Render(Render(t, "ESC"), "[") = u
    BY <1>1, SequenceBegins
  <2>2. QED
    BY <2>1, PutsThree
<1>3. 0 \in Word /\ ~IsDigit("H") /\ "H" # ";"
  BY ParamFacts, DigitFacts
<1>4. PICK v : /\ Render(u, "H") = [Dispatch(v, "H") EXCEPT !.ansi_state = "NORMAL"]
               /\ Good(v) /\ v.params[0] = 0 /\ v.param_count = 1 /\ v.cells = t.cells
  <2>1. \E v : Sees(t, u, 0, "H", v)
    BY <1>1, <1>3, CommandSees
  <2>2. QED
    BY <2>1 DEF Sees
<1>5. PICK m : m = MoveTo(v)
  OBVIOUS
<1>6. Dispatch(v, "H") = m
  BY <1>5 DEF Dispatch
<1>7. /\ AtMost(OneBased(v.params[0]), Rows) - 1 = 0
      /\ AtMost(IF v.param_count > 1 THEN OneBased(v.params[1]) ELSE 1, Columns) - 1 = 0
  BY <1>4, ScreenAssumption DEF AtMost, OneBased
<1>8. m = [v EXCEPT !.y = 0, !.x = 0]
  BY <1>5, <1>7 DEF MoveTo
<1>9. m.x = 0 /\ m.y = 0 /\ m.cells = v.cells
  BY <1>4, <1>8 DEF Good, TtyType
<1>10. Good(m)
  BY <1>4, <1>6, DispatchGood DEF Good
<1>11. PICK r : r = Render(u, "H")
  OBVIOUS
<1>12. r = [m EXCEPT !.ansi_state = "NORMAL"]
  BY <1>4, <1>6, <1>11
<1>13. Good(r) /\ r.ansi_state = "NORMAL" /\ r.x = m.x /\ r.y = m.y /\ r.cells = m.cells
  BY <1>10, <1>12, CommandDone
<1>14. QED
  BY <1>2, <1>4, <1>9, <1>11, <1>13

\* ESC [ 2 J clears the screen.
LEMMA ClearSequence ==
  ASSUME NEW t, Good(t), t.ansi_state = "NORMAL"
  PROVE  LET clear == Puts(t, <<"ESC", "[", "2", "J">>)
         IN /\ Good(clear) /\ clear.ansi_state = "NORMAL"
            /\ \A c \in Cell : clear.cells[c] = Blank
<1>1. PICK b : b = [t EXCEPT !.ansi_state = "CSI", !.param_count = 0, !.current = 0]
  OBVIOUS
<1>2. PICK u : u = [t EXCEPT !.ansi_state = "CSI", !.param_count = 0, !.current = 2]
  OBVIOUS
<1>3. Render(b, "2") = u
  <2>1. b.ansi_state = "CSI" /\ b.current = 0
    BY <1>1 DEF Good, TtyType
  <2>2. Render(b, "2") = [b EXCEPT !.current = (@ * 10 + DigitValue("2")) % WordSize]
    BY <2>1, DigitFacts DEF Render, RenderCsi
  <2>3. (0 * 10 + 2) % WordSize = 2
    BY ScreenAssumption
  <2>4. Render(b, "2") = [b EXCEPT !.current = 2]
    <3>1. (b.current * 10 + DigitValue("2")) % WordSize = 2
      BY <2>1, <2>3, DigitFacts
    <3>2. QED
      BY <2>2, <3>1
  <2>5. QED
    BY <1>1, <1>2, <2>4 DEF Good, TtyType
<1>4. Puts(t, <<"ESC", "[", "2", "J">>) = Render(u, "J")
  <2>1. Render(Render(t, "ESC"), "[") = b
    BY <1>1, SequenceBegins
  <2>2. QED
    BY <2>1, <1>3, PutsFour
<1>5. 2 \in Word /\ ~IsDigit("J") /\ "J" # ";"
  BY ParamFacts, DigitFacts
<1>6. PICK v : /\ Render(u, "J") = [Dispatch(v, "J") EXCEPT !.ansi_state = "NORMAL"]
               /\ Good(v) /\ v.params[0] = 2
  <2>1. \E v : Sees(t, u, 2, "J", v)
    BY <1>2, <1>5, CommandSees
  <2>2. QED
    BY <2>1 DEF Sees
<1>7. PICK m : m = Clear(v)
  OBVIOUS
<1>8. Dispatch(v, "J") = m
  BY <1>6, <1>7 DEF Dispatch
<1>9. m.cells = [c \in Cell |-> Blank]
  BY <1>6, <1>7 DEF Clear, Good, TtyType
<1>10. Good(m)
  BY <1>6, <1>8, DispatchGood DEF Good
<1>11. PICK r : r = Render(u, "J")
  OBVIOUS
<1>12. r = [m EXCEPT !.ansi_state = "NORMAL"]
  BY <1>6, <1>8, <1>11
<1>13. Good(r) /\ r.ansi_state = "NORMAL" /\ r.cells = m.cells
  BY <1>10, <1>12, CommandDone
<1>14. QED
  BY <1>4, <1>9, <1>11, <1>13

\* CR ESC [ K blanks the row of the cursor.
LEMMA EraseSequence ==
  ASSUME NEW t, Good(t), t.ansi_state = "NORMAL"
  PROVE  LET erase == Puts(t, <<"CR", "ESC", "[", "K">>)
         IN \A i \in 0 .. Columns - 1 : erase.cells[t.y * Columns + i] = Blank
<1>1. PICK r : r = [t EXCEPT !.x = 0]
  OBVIOUS
<1>2. r \in TtyType /\ r.x = 0 /\ r.y = t.y /\ r.ansi_state = "NORMAL"
  BY <1>1 DEF Good, TtyType
<1>3. t.x \in Nat /\ t.y \in Nat /\ t.y < Rows /\ 0 < Columns /\ Rows \in Nat /\ Columns \in Nat
  BY Fields, ScreenAssumption DEF Good
<1>4. Render(t, "CR") = r
  <2>1. Advance(t, "CR") = r
    BY <1>1 DEF Advance
  <2>2. Wrap(r) = r
    BY <1>2, <1>3 DEF Wrap
  <2>3. Scroll(r) = r
    BY <1>2, <1>3 DEF Scroll
  <2>4. QED
    BY <2>1, <2>2, <2>3 DEF Render, RenderChar
<1>5. Good(r)
  BY <1>2, <1>3 DEF Good
<1>6. PICK u : u = [r EXCEPT !.ansi_state = "CSI", !.param_count = 0, !.current = 0]
  OBVIOUS
<1>7. Puts(t, <<"CR", "ESC", "[", "K">>) = Render(u, "K")
  <2>1. Render(Render(r, "ESC"), "[") = u
    BY <1>2, <1>5, <1>6, SequenceBegins
  <2>2. QED
    BY <2>1, <1>4, PutsFour
<1>8. 0 \in Word /\ ~IsDigit("K") /\ "K" # ";"
  BY ParamFacts, DigitFacts
<1>9. PICK v : /\ Render(u, "K") = [Dispatch(v, "K") EXCEPT !.ansi_state = "NORMAL"]
               /\ Good(v) /\ v.x = r.x /\ v.y = r.y /\ v.params[0] = 0
  <2>1. \E v : Sees(r, u, 0, "K", v)
    BY <1>5, <1>6, <1>8, CommandSees
  <2>2. QED
    BY <2>1 DEF Sees
<1>10. PICK m : m = EraseToEnd(v)
  OBVIOUS
<1>11. Dispatch(v, "K") = m
  BY <1>9, <1>10 DEF Dispatch
<1>12. /\ "cells" \in DOMAIN m
       /\ m.cells = [c \in Cell |-> IF c >= CursorCell(v) /\ c < (v.y + 1) * Columns
                                    THEN Blank ELSE v.cells[c]]
  BY <1>9, <1>10 DEF EraseToEnd, Good, TtyType
<1>13. Render(u, "K").cells = m.cells
  BY <1>9, <1>11, <1>12
<1>14. ASSUME NEW i \in 0 .. Columns - 1 PROVE m.cells[t.y * Columns + i] = Blank
  <2> DEFINE c == t.y * Columns + i
  <2>1. PICK d \in Nat : Rows = t.y + 1 + d
    <3>1. Rows - (t.y + 1) \in Nat /\ Rows = t.y + 1 + (Rows - (t.y + 1))
      BY <1>3
    <3>2. QED
      BY <3>1
  <2>2. /\ t.y * Columns \in Nat /\ d * Columns \in Nat
        /\ Rows * Columns = t.y * Columns + Columns + d * Columns
        /\ (t.y + 1) * Columns = t.y * Columns + Columns
    <3>1. PICK y \in Nat, cols \in Nat : y = t.y /\ cols = Columns
      BY <1>3
    <3>2. /\ y * cols \in Nat /\ d * cols \in Nat
          /\ (y + 1 + d) * cols = y * cols + cols + d * cols
          /\ (y + 1) * cols = y * cols + cols
      OBVIOUS
    <3>3. QED
      BY <2>1, <3>1, <3>2
  <2>3. i \in Nat /\ i < Columns
    BY <1>3
  <2>4. c \in Nat /\ c < Rows * Columns /\ c >= t.y * Columns /\ c < (t.y + 1) * Columns
    BY <1>3, <2>2, <2>3
  <2>5. c \in Cell
    <3>1. Rows * Columns \in Nat
      BY <1>3
    <3>2. QED
      BY <2>4, <3>1 DEF Cell
  <2>6. CursorCell(v) = t.y * Columns /\ v.y = t.y
    <3>1. v.x = 0 /\ v.y = t.y
      BY <1>2, <1>9
    <3>2. QED
      BY <3>1, <2>2 DEF CursorCell
  <2>7. QED
    BY <1>12, <2>4, <2>5, <2>6
<1>15. QED
  BY <1>7, <1>13, <1>14

\* Sequences that give no parameter, or all of them, never act on a number that
\* an earlier sequence left behind or that was there before the first.
THEOREM ScreenParametersFresh == Spec => []ParametersFresh
<1>1. Good(tty) => ParametersFresh
  <2>1. Good(tty) => tty.param_count <= MaxParams
    BY Fields, ScreenAssumption DEF Good
  <2>2. QED
    BY <2>1, HomeSequence, ClearSequence, EraseSequence DEF ParametersFresh
<1>2. TypeOK /\ CursorOnScreen => Good(tty)
  BY DEF TypeOK, CursorOnScreen, Good, TtyType
<1>3. QED
  BY <1>1, <1>2, ScreenCursor, PTL

\* The "^C\n" of an interrupt ends whatever sequence the program was in, so that
\* the prompt begins a line.
THEOREM ScreenInterrupt == Spec => []InterruptStartsLine
<1>1. ASSUME Good(tty) PROVE InterruptStartsLine
  <2>1. PICK a : a = Render(tty, "^")
    OBVIOUS
  <2>2. Good(a)
    BY <1>1, <2>1, RenderGood
  <2>3. a.ansi_state = "NORMAL"
    <3>1. tty \in TtyType /\ tty.ansi_state \in {"NORMAL", "ESC", "CSI"}
      BY <1>1 DEF Good, TtyType
    <3>2. CASE tty.ansi_state = "NORMAL"
      <4>1. a = RenderChar(tty, "^")
        BY <2>1, <3>2 DEF Render
      <4>2. QED
        BY <4>1, <1>1, <3>2, RenderCharGood
    <3>3. CASE tty.ansi_state = "ESC"
      <4>1. a = [tty EXCEPT !.ansi_state = "NORMAL"]
        BY <2>1, <3>3 DEF Render, RenderEsc
      <4>2. QED
        BY <4>1, <3>1 DEF TtyType
    <3>4. CASE tty.ansi_state = "CSI"
      <4>1. PICK d : d = Dispatch(Commit(tty), "^")
        OBVIOUS
      <4>2. a = [d EXCEPT !.ansi_state = "NORMAL"]
        BY <2>1, <3>4, <4>1, DigitFacts DEF Render, RenderCsi
      <4>3. d \in TtyType
        BY <1>1, <4>1, CommitGood, DispatchGood DEF Good
      <4>4. QED
        BY <4>2, <4>3 DEF TtyType
    <3>5. QED
      BY <3>1, <3>2, <3>3, <3>4
  <2>4. PICK b : b = Render(a, "C")
    OBVIOUS
  <2>5. Good(b) /\ b.ansi_state = "NORMAL"
    <3>1. b = RenderChar(a, "C")
      BY <2>3, <2>4 DEF Render
    <3>2. QED
      BY <3>1, <2>2, <2>3, RenderCharGood
  <2>6. Render(b, "NL") = RenderChar(b, "NL")
    BY <2>5 DEF Render
  <2>7. RenderChar(b, "NL").ansi_state = "NORMAL"
    BY <2>5, RenderCharGood
  <2>8. RenderChar(b, "NL").x = 0
    <3>1. PICK n : n = Advance(b, "NL")
      OBVIOUS
    <3>2. b.x \in Nat /\ b.y \in Nat /\ b.y < Rows /\ b \in TtyType /\ Rows \in Nat /\ 0 < Columns
      BY <2>5, Fields, ScreenAssumption DEF Good
    <3>3. n.x = 0 /\ n.y = b.y + 1
      BY <3>1, <3>2 DEF Advance, TtyType
    <3>4. n \in TtyType /\ n.y <= Rows
      BY <3>1, <3>2, <3>3, AdvanceLeaves
    <3>5. Wrap(n) = n
      BY <3>2, <3>3, ScreenAssumption DEF Wrap
    <3>6. Scroll(n).x = 0
      BY <3>2, <3>3, <3>4, ScrollBrings
    <3>7. QED
      BY <3>1, <3>5, <3>6 DEF RenderChar
  <2>9. Puts(tty, <<"^", "C", "NL">>) = Render(b, "NL")
    BY <2>1, <2>4, PutsThree
  <2>10. QED
    BY <2>6, <2>7, <2>8, <2>9 DEF InterruptStartsLine
<1>2. TypeOK /\ CursorOnScreen => Good(tty)
  BY DEF TypeOK, CursorOnScreen, Good, TtyType
<1>3. QED
  BY <1>1, <1>2, ScreenCursor, PTL

-----------------------------------------------------------------------------
(* The history of the shell                                                *)

\* No entry of a history is empty or repeats the one before it.
Distinct(h) ==
  /\ \A i \in 1 .. Len(h) : h[i] # <<>>
  /\ \A i \in 1 .. Len(h) - 1 : h[i] # h[i + 1]

\* A list without its first element.
LEMMA TailFacts ==
  ASSUME NEW S, NEW h \in Seq(S), Len(h) > 0
  PROVE  /\ Tail(h) \in Seq(S) /\ Len(Tail(h)) = Len(h) - 1
         /\ \A i \in 1 .. Len(h) - 1 : Tail(h)[i] = h[i + 1]
OBVIOUS

\* History g is h with line l added.
Added(g, h, l, S) ==
  /\ g \in Seq(S) /\ Distinct(g)
  /\ l # <<>> => Len(g) > 0 /\ g[Len(g)] = l
  /\ l = <<>> => g = h
  /\ \A i \in 1 .. Len(g) : g[i] = l \/ \E j \in 1 .. Len(h) : g[i] = h[j]

\* A line that is added becomes the last entry; the others are entries that were
\* there, in their order.
LEMMA WithLineFacts ==
  ASSUME NEW S, NEW h \in Seq(S), NEW l \in S, Distinct(h)
  PROVE  Added(WithLine(h, l), h, l, S)
<1>1. PICK g : g = WithLine(h, l)
  OBVIOUS
<1>2. Len(h) \in Nat /\ HistoryMax \in Nat \ {0}
  BY LineEditorAssumption
<1>3. CASE l = <<>> \/ (Len(h) > 0 /\ h[Len(h)] = l)
  <2>1. g = h
    BY <1>1, <1>3 DEF WithLine
  <2>2. QED
    BY <1>1, <1>2, <1>3, <2>1 DEF Added
<1>4. CASE ~(l = <<>> \/ (Len(h) > 0 /\ h[Len(h)] = l))
  <2>1. PICK k : k = IF Len(h) = HistoryMax THEN Tail(h) ELSE h
    OBVIOUS
  <2>2. g = Append(k, l)
    BY <1>1, <1>4, <2>1 DEF WithLine
  <2>3. /\ k \in Seq(S) /\ Len(k) \in Nat
        /\ \A i \in 1 .. Len(k) : \E j \in 1 .. Len(h) : k[i] = h[j]
        /\ Len(k) > 0 => k[Len(k)] = h[Len(h)] /\ Len(h) > 0
        /\ Distinct(k)
    <3>1. CASE Len(h) = HistoryMax
      <4>1. k = Tail(h) /\ Len(h) > 0
        BY <2>1, <3>1, <1>2
      <4>2. /\ k \in Seq(S) /\ Len(k) = Len(h) - 1
            /\ \A i \in 1 .. Len(h) - 1 : k[i] = h[i + 1]
        BY <4>1, TailFacts
      <4>3. \A i \in 1 .. Len(k) : i + 1 \in 1 .. Len(h) /\ k[i] = h[i + 1]
        BY <4>2, <1>2
      <4>4. Len(k) \in Nat /\ \A i \in 1 .. Len(k) : \E j \in 1 .. Len(h) : k[i] = h[j]
        BY <4>1, <4>2, <4>3, <1>2
      <4>5. Len(k) > 0 => k[Len(k)] = h[Len(h)] /\ Len(h) > 0
        BY <4>2, <1>2
      <4>6. Distinct(k)
        <5>1. \A i \in 1 .. Len(k) : k[i] # <<>>
          BY <4>3 DEF Distinct
        <5>2. \A i \in 1 .. Len(k) - 1 : k[i] = h[i + 1] /\ k[i + 1] = h[i + 1 + 1] /\ i + 1 \in 1 .. Len(h) - 1
          BY <4>2, <1>2
        <5>3. QED
          BY <5>1, <5>2 DEF Distinct
      <4>7. QED
        BY <4>2, <4>4, <4>5, <4>6
    <3>2. CASE Len(h) # HistoryMax
      BY <2>1, <3>2, <1>2
    <3>3. QED
      BY <3>1, <3>2
  <2>4. /\ g \in Seq(S) /\ Len(g) = Len(k) + 1 /\ g[Len(k) + 1] = l
        /\ \A i \in 1 .. Len(k) : g[i] = k[i]
    BY <2>2, <2>3
  <2>5. \A i \in 1 .. Len(g) : i \in 1 .. Len(k) \/ i = Len(k) + 1
    BY <2>3, <2>4
  <2>6. Distinct(g)
    <3>1. \A i \in 1 .. Len(g) : g[i] # <<>>
      BY <2>3, <2>4, <2>5, <1>4 DEF Distinct
    <3>2. ASSUME NEW i \in 1 .. Len(g) - 1 PROVE g[i] # g[i + 1]
      <4>1. i \in 1 .. Len(k) /\ (i \in 1 .. Len(k) - 1 \/ i = Len(k)) /\ i + 1 \in 1 .. Len(k) + 1
        BY <2>3, <2>4
      <4>2. CASE i = Len(k)
        <5>1. g[i] = h[Len(h)] /\ Len(h) > 0 /\ g[i + 1] = l
          BY <4>1, <4>2, <2>3, <2>4
        <5>2. QED
          BY <5>1, <1>4
      <4>3. CASE i \in 1 .. Len(k) - 1
        <5>1. i + 1 \in 1 .. Len(k)
          BY <4>3, <2>3
        <5>2. g[i] = k[i] /\ g[i + 1] = k[i + 1] /\ k[i] # k[i + 1]
          BY <4>1, <4>3, <5>1, <2>3, <2>4 DEF Distinct
        <5>3. QED
          BY <5>2
      <4>4. QED
        BY <4>1, <4>2, <4>3
    <3>3. QED
      BY <3>1, <3>2 DEF Distinct
  <2>7. \A i \in 1 .. Len(g) : g[i] = l \/ \E j \in 1 .. Len(h) : g[i] = h[j]
    BY <2>3, <2>4, <2>5
  <2>8. Len(g) > 0 /\ g[Len(g)] = l
    BY <2>3, <2>4
  <2>9. QED
    BY <1>1, <1>4, <2>4, <2>6, <2>7, <2>8 DEF Added
<1>5. QED
  BY <1>3, <1>4

\* A line with a character more or less.
LEMMA EditFacts ==
  ASSUME NEW S, NEW l \in Seq(S), NEW c \in 0 .. Len(l), NEW ch \in S
  PROVE  /\ Inserted(l, c, ch) \in Seq(S) /\ Len(Inserted(l, c, ch)) = Len(l) + 1
         /\ c > 0 => Deleted(l, c) \in Seq(S) /\ Len(Deleted(l, c)) = Len(l) - 1
<1>1. Len(l) \in Nat /\ c \in Nat /\ c <= Len(l)
  OBVIOUS
<1>2. PICK b : b = SubSeq(l, c + 1, Len(l))
  OBVIOUS
<1>3. b \in Seq(S) /\ Len(b) = Len(l) - c
  BY <1>1, <1>2
<1>4. Inserted(l, c, ch) \in Seq(S) /\ Len(Inserted(l, c, ch)) = Len(l) + 1
  <2>1. PICK a : a = SubSeq(l, 1, c)
    OBVIOUS
  <2>2. a \in Seq(S) /\ Len(a) = c
    BY <1>1, <2>1
  <2>3. PICK d : d = <<ch>>
    OBVIOUS
  <2>4. d \in Seq(S) /\ Len(d) = 1
    BY <2>3
  <2>5. PICK e : e = a \o d
    OBVIOUS
  <2>6. e \in Seq(S) /\ Len(e) = Len(a) + Len(d)
    BY <2>2, <2>4, <2>5, ConcatProperties, Zenon
  <2>7. PICK f : f = e \o b
    OBVIOUS
  <2>8. f \in Seq(S) /\ Len(f) = Len(e) + Len(b)
    BY <1>3, <2>6, <2>7, ConcatProperties, Zenon
  <2>9. Inserted(l, c, ch) = f
    BY <1>2, <2>1, <2>3, <2>5, <2>7 DEF Inserted
  <2>10. Len(f) = Len(l) + 1
    BY <1>1, <1>3, <2>2, <2>4, <2>6, <2>8
  <2>11. QED
    BY <2>8, <2>9, <2>10
<1>5. ASSUME c > 0 PROVE Deleted(l, c) \in Seq(S) /\ Len(Deleted(l, c)) = Len(l) - 1
  <2>1. PICK d : d = SubSeq(l, 1, c - 1)
    OBVIOUS
  <2>2. d \in Seq(S) /\ Len(d) = c - 1
    BY <1>1, <1>5, <2>1
  <2>3. PICK f : f = d \o b
    OBVIOUS
  <2>4. f \in Seq(S) /\ Len(f) = Len(d) + Len(b)
    BY <1>3, <2>2, <2>3, ConcatProperties, Zenon
  <2>5. Deleted(l, c) = f
    BY <1>2, <2>1, <2>3 DEF Deleted
  <2>6. Len(f) = Len(l) - 1
    BY <1>1, <1>3, <2>2, <2>4
  <2>7. QED
    BY <2>4, <2>5, <2>6
<1>6. QED
  BY <1>4, <1>5

\* The state of the editor without the terminal: its types, the cursor inside the
\* line, and what LastLineRecalled says of the history.
EditInv ==
  /\ line \in Seq(Keys) /\ cursor \in 0 .. Len(line)
  /\ history \in Seq(Seq(Keys)) /\ nav \in 0 .. Len(history)
  /\ Len(line) < LineMax /\ \A i \in 1 .. Len(history) : Len(history[i]) < LineMax
  /\ Distinct(history)
  /\ entered # <<>> => Len(history) > 0 /\ history[Len(history)] = entered

\* Recalling an older or a newer line keeps the invariant of the editor.
LEMMA RecallKeeps ==
  ASSUME EditInv, NEW n \in 0 .. Len(history), Recall(n)
  PROVE  EditInv'
<1>1. Len(history) \in Nat /\ n \in Nat /\ 0 < LineMax
  BY LineEditorAssumption DEF EditInv
<1>2. line' \in Seq(Keys) /\ Len(line') < LineMax
  <2>1. CASE n < Len(history)
    <3>1. n + 1 \in 1 .. Len(history) /\ line' = history[n + 1]
      BY <1>1, <2>1 DEF Recall
    <3>2. QED
      BY <3>1 DEF EditInv
  <2>2. CASE ~(n < Len(history))
    <3>1. line' = <<>>
      BY <2>2 DEF Recall
    <3>2. QED
      BY <3>1, <1>1
  <2>3. QED
    BY <2>1, <2>2
<1>3. cursor' \in 0 .. Len(line')
  <2>1. cursor' = Len(line') /\ Len(line') \in Nat
    BY <1>2 DEF Recall
  <2>2. QED
    BY <2>1
<1>4. nav' = n /\ history' = history /\ entered' = entered
  BY DEF Recall
<1>5. QED
  BY <1>2, <1>3, <1>4 DEF EditInv

\* Enter keeps the invariant of the editor: the line goes to the end of the history.
LEMMA EnterKeeps ==
  ASSUME EditInv, NEW output, Enter(output)
  PROVE  EditInv'
<1>1. PICK S : S = Seq(Keys)
  OBVIOUS
<1>2. history \in Seq(S) /\ line \in S /\ Distinct(history)
  BY <1>1 DEF EditInv
<1>3. PICK g : g = WithLine(history, line)
  OBVIOUS
<1>4. /\ g \in Seq(S) /\ Distinct(g)
      /\ line # <<>> => Len(g) > 0 /\ g[Len(g)] = line
      /\ line = <<>> => g = history
      /\ \A i \in 1 .. Len(g) : g[i] = line \/ \E j \in 1 .. Len(history) : g[i] = history[j]
  <2>1. history \in Seq(S) /\ line \in S /\ Distinct(history)
    BY <1>2
  <2>2. Added(WithLine(history, line), history, line, S)
    BY ONLY <2>1, WithLineFacts
  <2>3. QED
    BY ONLY <1>3, <2>2 DEF Added
<1>5. /\ history' = g /\ line' = <<>> /\ cursor' = 0 /\ nav' = Len(g)
      /\ entered' = IF line = <<>> THEN entered ELSE line
  BY <1>3 DEF Enter
<1>6. line' \in Seq(Keys) /\ cursor' \in 0 .. Len(line') /\ Len(line') < LineMax
  BY <1>5, LineEditorAssumption
<1>7. history' \in Seq(Seq(Keys)) /\ nav' \in 0 .. Len(history')
  BY <1>1, <1>4, <1>5
<1>8. \A i \in 1 .. Len(history') : Len(history'[i]) < LineMax
  BY <1>4, <1>5 DEF EditInv
<1>9. entered' # <<>> => Len(history') > 0 /\ history'[Len(history')] = entered'
  BY <1>4, <1>5 DEF EditInv
<1>10. QED
  BY <1>4, <1>5, <1>6, <1>7, <1>8, <1>9 DEF EditInv

\* Every key keeps it.
LEMMA EditStep ==
  ASSUME EditInv, [EditorNext]_editorVars
  PROVE  EditInv'
<1> USE DEF EditInv
<1>0. Len(line) \in Nat /\ cursor \in Nat /\ Len(history) \in Nat /\ LineMax \in Nat
  BY LineEditorAssumption
<1>1. CASE \E ch \in Keys : Insert(ch)
  <2>1. PICK ch \in Keys : Insert(ch)
    BY <1>1
  <2>2. line' \in Seq(Keys) /\ Len(line') = Len(line) + 1 /\ cursor' = cursor + 1
    BY <2>1, EditFacts DEF Insert
  <2>3. Len(line) + 1 < LineMax /\ nav' = nav /\ history' = history /\ entered' = entered
    BY <2>1 DEF Insert
  <2>4. cursor' \in 0 .. Len(line')
    BY <1>0, <2>2
  <2>5. QED
    BY <2>2, <2>3, <2>4
<1>2. CASE Backspace
  <2>1. line' = Deleted(line, cursor) /\ cursor > 0 /\ cursor' = cursor - 1
        /\ nav' = nav /\ history' = history /\ entered' = entered
    BY <1>2 DEF Backspace
  <2>2. line' \in Seq(Keys) /\ Len(line') = Len(line) - 1
    <3>1. PICK ch : ch \in Keys
      BY <1>0, <2>1
    <3>2. QED
      BY <2>1, <3>1, EditFacts
  <2>3. cursor' \in 0 .. Len(line') /\ Len(line') < LineMax
    BY <1>0, <2>1, <2>2
  <2>4. QED
    BY <2>1, <2>2, <2>3
<1>3. CASE Up
  <2>1. nav - 1 \in 0 .. Len(history) /\ Recall(nav - 1)
    BY <1>0, <1>3 DEF Up
  <2>2. QED
    BY <2>1, RecallKeeps
<1>4. CASE Down
  <2>1. nav + 1 \in 0 .. Len(history) /\ Recall(nav + 1)
    BY <1>0, <1>4 DEF Down
  <2>2. QED
    BY <2>1, RecallKeeps
<1>5. CASE Left
  BY <1>0, <1>5 DEF Left
<1>6. CASE Right
  BY <1>0, <1>6 DEF Right
<1>7. CASE \E output \in Outputs : Enter(output)
  BY <1>7, EnterKeeps
<1>8. CASE UNCHANGED editorVars
  BY <1>8 DEF editorVars, editVars
<1>9. QED
  BY <1>1, <1>2, <1>3, <1>4, <1>5, <1>6, <1>7, <1>8 DEF EditorNext

\* The invariant of the editor holds when the shell starts.
LEMMA EditInit == EditorInit => EditInv
<1>1. ASSUME EditorInit PROVE EditInv
  <2>1. line = <<>> /\ cursor = 0 /\ nav = 0 /\ history = <<>> /\ entered = <<>>
    BY <1>1 DEF EditorInit
  <2>2. QED
    BY <2>1, LineEditorAssumption DEF EditInv, Distinct
<1>2. QED
  BY <1>1

\* For a history of any size, the last line entered that was not empty is the one
\* that the first Up recalls, no entry is empty and none repeats its predecessor.
THEOREM EditorLastLine == EditorSpec => []LastLineRecalled
<1>1. EditInv => LastLineRecalled
  BY DEF EditInv, LastLineRecalled, Distinct
<1>2. EditInv /\ [EditorNext]_editorVars => EditInv'
  BY EditStep
<1>3. QED
  BY <1>1, <1>2, EditInit, PTL DEF EditorSpec

-----------------------------------------------------------------------------
(* Texts in pieces                                                         *)

\* What the bytes lead through is determined by them.
LEMMA PutsValue ==
  ASSUME NEW t, NEW s, Len(s) \in Nat, NEW w, Follows(w, t, s)
  PROVE  Puts(t, s) = w[Len(s)]
<1>1. PICK v : Follows(v, t, s) /\ Puts(t, s) = v[Len(s)]
  BY PutsSteps
<1> DEFINE T == {k \in 0 .. Len(s) : v[k] # w[k]}
<1>2. CASE T = {}
  BY <1>1, <1>2
<1>3. CASE T # {}
  <2>1. T \in SUBSET Nat
    OBVIOUS
  <2>2. PICK m \in T : \A k \in T : m <= k
    <3> HIDE DEF T
    <3>1. QED
      BY <1>3, <2>1, LeastNatural
  <2>3. m # 0
    BY <1>1 DEF Follows
  <2>4. m \in 1 .. Len(s) /\ m - 1 \in 0 .. Len(s) /\ ~(m <= m - 1)
    BY <2>3
  <2>5. v[m - 1] = w[m - 1]
    BY <2>2, <2>4
  <2>6. v[m] = Render(v[m - 1], s[m]) /\ w[m] = Render(w[m - 1], s[m])
    BY <1>1, <2>4 DEF Follows
  <2>7. QED
    BY <2>5, <2>6
<1>4. QED
  BY <1>2, <1>3

\* A text is written piece by piece.
LEMMA PutsConcat ==
  ASSUME NEW t, NEW S, NEW a \in Seq(S), NEW b \in Seq(S)
  PROVE  Puts(t, a \o b) = Puts(Puts(t, a), b)
<1>0. PICK s : s = a \o b
  OBVIOUS
<1>1. /\ s \in Seq(S) /\ Len(s) = Len(a) + Len(b)
      /\ \A i \in 1 .. Len(a) + Len(b) : s[i] = IF i <= Len(a) THEN a[i] ELSE b[i - Len(a)]
  BY <1>0, ConcatProperties
<1>2. Len(a) \in Nat /\ Len(b) \in Nat /\ Len(s) \in Nat
  BY <1>1
<1>3. \A i \in 1 .. Len(a) : i \in 1 .. Len(s) /\ s[i] = a[i]
  BY <1>1, <1>2
<1>4. \A i \in 1 .. Len(b) : Len(a) + i \in 1 .. Len(s) /\ s[Len(a) + i] = b[i]
  <2>1. ASSUME NEW i \in 1 .. Len(b) PROVE Len(a) + i \in 1 .. Len(s) /\ s[Len(a) + i] = b[i]
    <3>1. /\ Len(a) + i \in 1 .. Len(a) + Len(b) /\ ~(Len(a) + i <= Len(a))
          /\ Len(a) + i - Len(a) = i
      BY <1>2
    <3>2. QED
      BY <3>1, <1>1
  <2>2. QED
    BY <2>1
<1>5. PICK w : Follows(w, t, s) /\ Puts(t, s) = w[Len(s)]
  BY <1>2, PutsSteps
<1>6. Puts(t, a) = w[Len(a)]
  <2>1. Follows(w, t, a)
    BY <1>3, <1>5 DEF Follows
  <2>2. QED
    BY <2>1, <1>2, PutsValue
<1>7. PICK n : n = Len(a)
  OBVIOUS
<1>8. PICK v : v = [k \in 0 .. Len(b) |-> w[n + k]]
  OBVIOUS
<1>9. Follows(v, w[n], b)
  <2>1. v[0] = w[n]
    BY <1>2, <1>7, <1>8
  <2>2. ASSUME NEW k \in 1 .. Len(b) PROVE v[k] = Render(v[k - 1], b[k])
    <3>1. k \in 0 .. Len(b) /\ k - 1 \in 0 .. Len(b) /\ n + (k - 1) = (n + k) - 1
      BY <1>2, <1>7
    <3>2. v[k] = w[n + k] /\ v[k - 1] = w[(n + k) - 1]
      BY <1>8, <3>1
    <3>3. n + k \in 1 .. Len(s) /\ s[n + k] = b[k]
      BY <1>4, <1>7
    <3>4. w[n + k] = Render(w[(n + k) - 1], s[n + k])
      <4>1. \A j \in 1 .. Len(s) : w[j] = Render(w[j - 1], s[j])
        BY <1>5 DEF Follows
      <4>2. QED
        BY <4>1, <3>3, Zenon
    <3>5. QED
      BY <3>2, <3>3, <3>4
  <2>3. QED
    BY <2>1, <2>2 DEF Follows
<1>10. Puts(w[n], b) = v[Len(b)]
  BY <1>2, <1>9, PutsValue
<1>11. v[Len(b)] = w[Len(s)]
  <2>1. Len(b) \in 0 .. Len(b) /\ n + Len(b) = Len(s)
    BY <1>1, <1>2, <1>7
  <2>2. QED
    BY <1>8, <2>1
<1>12. QED
  BY <1>0, <1>5, <1>6, <1>7, <1>10, <1>11

\* No byte, and one and two bytes.
LEMMA PutsNone ==
  ASSUME NEW t
  PROVE  Puts(t, <<>>) = t
<1>1. PICK s : s = <<>>
  OBVIOUS
<1>2. Len(s) = 0
  BY <1>1
<1>3. PICK w : Follows(w, t, s) /\ Puts(t, s) = w[Len(s)]
  <2>1. Len(s) \in Nat
    BY <1>2
  <2>2. QED
    BY <2>1, PutsSteps
<1>4. QED
  BY <1>1, <1>2, <1>3 DEF Follows

\* tty_puts on one character.
LEMMA PutsOne ==
  ASSUME NEW t, NEW a
  PROVE  Puts(t, <<a>>) = Render(t, a)
<1>1. PICK s : s = <<a>>
  OBVIOUS
<1>2. Len(s) = 1 /\ s[1] = a
  BY <1>1
<1>3. PICK w : Follows(w, t, s) /\ Puts(t, s) = w[Len(s)]
  <2>1. Len(s) \in Nat
    BY <1>2
  <2>2. QED
    BY <2>1, PutsSteps
<1>4. w[0] = t /\ w[1] = Render(w[1 - 1], s[1])
  BY <1>2, <1>3 DEF Follows
<1>5. QED
  BY <1>1, <1>2, <1>3, <1>4

\* tty_puts on two characters.
LEMMA PutsTwo ==
  ASSUME NEW t, NEW a, NEW b
  PROVE  Puts(t, <<a, b>>) = Render(Render(t, a), b)
<1>1. PICK s : s = <<a, b>>
  OBVIOUS
<1>2. Len(s) = 2 /\ s[1] = a /\ s[2] = b
  BY <1>1
<1>3. PICK w : Follows(w, t, s) /\ Puts(t, s) = w[Len(s)]
  <2>1. Len(s) \in Nat
    BY <1>2
  <2>2. QED
    BY <2>1, PutsSteps
<1>4. w[0] = t /\ w[1] = Render(w[1 - 1], s[1]) /\ w[2] = Render(w[2 - 1], s[2])
  BY <1>2, <1>3 DEF Follows
<1>5. QED
  BY <1>1, <1>2, <1>3, <1>4

-----------------------------------------------------------------------------
(* The screen while a line is edited                                       *)

\* The first cell of the cursor's row.
RowStart(t) == t.y * Columns

\* The parser is at rest, the row of the cursor begins with the first n characters
\* of text, and everything from its cell e on is blank, to the end of the screen.
Showing(t, text, n, e) ==
  /\ Good(t) /\ t.ansi_state = "NORMAL"
  /\ \A c \in Cell :
       /\ c >= RowStart(t) /\ c < RowStart(t) + n => t.cells[c] = Look(text[c - RowStart(t) + 1])
       /\ c >= RowStart(t) + e => t.cells[c] = Blank

\* A row of the screen lies within its cells.
LEMMA RowFacts ==
  ASSUME NEW t, Good(t)
  PROVE  /\ RowStart(t) \in Nat /\ Rows * Columns \in Nat
         /\ RowStart(t) + Columns <= Rows * Columns
         /\ (t.y + 1) * Columns = RowStart(t) + Columns
         /\ t.y + 1 = Rows => RowStart(t) + Columns = Rows * Columns
<1>1. t.y \in Nat /\ t.y < Rows /\ Rows \in Nat /\ Columns \in Nat
  BY Fields, ScreenAssumption DEF Good
<1>2. PICK d \in Nat : Rows = t.y + 1 + d
  <2>1. Rows - (t.y + 1) \in Nat /\ Rows = t.y + 1 + (Rows - (t.y + 1))
    BY <1>1
  <2>2. QED
    BY <2>1
<1>3. PICK y \in Nat, cols \in Nat : y = t.y /\ cols = Columns
  BY <1>1
<1>4. /\ y * cols \in Nat /\ d * cols \in Nat
      /\ (y + 1 + d) * cols = y * cols + cols + d * cols
      /\ (y + 1) * cols = y * cols + cols
  OBVIOUS
<1>5. QED
  BY <1>1, <1>2, <1>3, <1>4 DEF RowStart

\* A terminal that looks the same shows the same.
LEMMA SameView ==
  ASSUME NEW t, NEW u, NEW text, NEW n, NEW e, Showing(t, text, n, e),
         Good(u), u.ansi_state = "NORMAL", u.y = t.y, u.cells = t.cells
  PROVE  Showing(u, text, n, e)
BY DEF Showing, RowStart

\* A printed character that does not reach the end of its row.
LEMMA PrintChar ==
  ASSUME NEW t, Good(t), t.ansi_state = "NORMAL", t.x + 1 < Columns,
         NEW ch, ch \notin Control
  PROVE  LET u == Render(t, ch)
         IN /\ Good(u) /\ u.ansi_state = "NORMAL" /\ u.x = t.x + 1 /\ u.y = t.y
            /\ u.cells = TmWrite(t.cells, CursorCell(t), Look(ch))
<1>1. ch # "NL" /\ ch # "CR" /\ ch # "BS" /\ ch # "TAB" /\ ch # "ESC"
  BY DEF Control
<1>2. PICK cs : cs = TmWrite(t.cells, CursorCell(t), Look(ch))
  OBVIOUS
<1>3. PICK n : n = t.x + 1
  OBVIOUS
<1>4. PICK u : u = [t EXCEPT !.x = n, !.cells = cs]
  OBVIOUS
<1>5. Advance(t, ch) = u
  BY <1>1, <1>2, <1>3, <1>4 DEF Advance
<1>6. u.x = n /\ u.y = t.y /\ u.cells = cs /\ u.ansi_state = "NORMAL"
  BY <1>4 DEF Good, TtyType
<1>7. t.x \in Nat /\ t.y \in Nat /\ t.y < Rows /\ Rows \in Nat /\ Columns \in Nat
  BY Fields, ScreenAssumption DEF Good
<1>8. Wrap(u) = u /\ Scroll(u) = u
  BY <1>3, <1>6, <1>7 DEF Wrap, Scroll
<1>9. Render(t, ch) = u
  <2>1. Render(t, ch) = RenderChar(t, ch)
    BY <1>1 DEF Render
  <2>2. QED
    BY <2>1, <1>5, <1>8 DEF RenderChar
<1>10. Good(u)
  BY <1>9, RenderGood
<1>11. QED
  BY <1>2, <1>3, <1>6, <1>9, <1>10

\* The next character of the text is typed.
LEMMA TypeChar ==
  ASSUME NEW t, NEW text, NEW n \in Nat, NEW e \in Nat, Showing(t, text, n, e),
         t.x = n, n + 1 < Columns, n + 1 <= e, text[n + 1] \notin Control
  PROVE  /\ Showing(Render(t, text[n + 1]), text, n + 1, e)
         /\ Render(t, text[n + 1]).x = n + 1
<1>1. Good(t) /\ t.ansi_state = "NORMAL"
  BY DEF Showing
<1>2. PICK ch : ch = text[n + 1]
  OBVIOUS
<1>3. PICK u : u = Render(t, ch)
  OBVIOUS
<1>4. /\ Good(u) /\ u.ansi_state = "NORMAL" /\ u.x = n + 1 /\ u.y = t.y
      /\ u.cells = TmWrite(t.cells, CursorCell(t), Look(ch))
  BY <1>1, <1>2, <1>3, PrintChar
<1>5. PICK b : b = RowStart(t)
  OBVIOUS
<1>6. b \in Nat /\ RowStart(u) = b /\ CursorCell(t) = b + n
  BY <1>1, <1>4, <1>5, RowFacts DEF RowStart, CursorCell
<1>7. \A c \in Cell : u.cells[c] = IF c = b + n THEN Look(ch) ELSE t.cells[c]
  BY <1>4, <1>6 DEF TmWrite
<1>8. \A c \in Cell : c \in Int
  BY DEF Cell
<1>9. ASSUME NEW c \in Cell, c >= b, c < b + (n + 1)
      PROVE  u.cells[c] = Look(text[c - b + 1])
  <2>1. CASE c = b + n
    <3>1. c - b + 1 = n + 1
      BY <1>6, <2>1
    <3>2. QED
      BY <1>2, <1>7, <2>1, <3>1
  <2>2. CASE c # b + n
    <3>1. c >= b /\ c < b + n
      BY <1>6, <1>8, <1>9, <2>2
    <3>2. t.cells[c] = Look(text[c - b + 1])
      BY <1>5, <3>1 DEF Showing
    <3>3. QED
      BY <1>7, <2>2, <3>2
  <2>3. QED
    BY <2>1, <2>2
<1>10. ASSUME NEW c \in Cell, c >= b + e PROVE u.cells[c] = Blank
  <2>1. c # b + n
    BY <1>6, <1>8, <1>10
  <2>2. t.cells[c] = Blank
    BY <1>5, <1>10 DEF Showing
  <2>3. QED
    BY <1>7, <2>1, <2>2
<1>11. Showing(u, text, n + 1, e)
  BY <1>4, <1>6, <1>9, <1>10 DEF Showing
<1>12. QED
  BY <1>2, <1>3, <1>4, <1>11

\* Text s is what follows the first n characters of text, and is printed as it is.
Continues(s, text, n) ==
  \A i \in 1 .. Len(s) : s[i] = text[n + i] /\ s[i] \notin Control

\* It is typed next, and there is room for it.
Ready(t, text, n, e, s) ==
  /\ n \in Nat /\ e \in Nat /\ Len(s) \in Nat
  /\ Showing(t, text, n, e) /\ t.x = n /\ Continues(s, text, n)
  /\ n + Len(s) < Columns /\ n + Len(s) <= e

\* A piece of the text is typed.
LEMMA TypeText ==
  ASSUME NEW t, NEW text, NEW n, NEW e, NEW s, Ready(t, text, n, e, s)
  PROVE  Showing(Puts(t, s), text, n + Len(s), e) /\ Puts(t, s).x = n + Len(s)
<1> USE DEF Ready
<1>1. PICK w : Follows(w, t, s) /\ Puts(t, s) = w[Len(s)]
  BY PutsSteps
<1> DEFINE P(k) == Showing(w[k], text, n + k, e) /\ w[k].x = n + k
           T == {k \in 0 .. Len(s) : ~P(k)}
<1>2. CASE T = {}
  <2>1. Len(s) \in 0 .. Len(s)
    OBVIOUS
  <2>2. P(Len(s))
    BY <1>2, <2>1
  <2>3. QED
    BY <1>1, <2>2
<1>3. CASE T # {}
  <2>1. T \in SUBSET Nat
    OBVIOUS
  <2>2. PICK m \in T : \A k \in T : m <= k
    <3> HIDE DEF T
    <3>1. QED
      BY <1>3, <2>1, LeastNatural
  <2>3. P(0)
    <3>1. w[0] = t /\ n + 0 = n
      BY <1>1 DEF Follows
    <3>2. QED
      BY <3>1
  <2>4. m # 0
    <3> HIDE DEF P
    <3>1. QED
      BY <2>3
  <2>5. PICK k : k = m - 1
    OBVIOUS
  <2>6. k \in Nat /\ m = k + 1 /\ k \in 0 .. Len(s) /\ ~(m <= k) /\ m \in 1 .. Len(s)
    BY <2>4, <2>5
  <2>7. P(k)
    <3> HIDE DEF P
    <3>1. QED
      BY <2>2, <2>6
  <2>8. w[m] = Render(w[k], s[m])
    BY <1>1, <2>5, <2>6 DEF Follows
  <2>9. s[m] = text[n + k + 1] /\ text[n + k + 1] \notin Control
    <3>1. n + m = n + k + 1
      BY <2>6
    <3>2. QED
      BY <2>6, <3>1 DEF Continues
  <2>10. n + k \in Nat /\ n + k + 1 < Columns /\ n + k + 1 <= e /\ n + m = n + k + 1
    BY <2>6, ScreenAssumption
  <2>11. PICK j \in Nat : j = n + k
    BY <2>10
  <2>12. Showing(Render(w[k], text[j + 1]), text, j + 1, e) /\ Render(w[k], text[j + 1]).x = j + 1
    BY <2>7, <2>9, <2>10, <2>11, TypeChar
  <2>13. P(m)
    BY <2>8, <2>9, <2>10, <2>11, <2>12
  <2>14. QED
    <3> HIDE DEF P
    <3>1. QED
      BY <2>13
<1>4. QED
  BY <1>2, <1>3

\* A text that agrees where it counts, and an end further right.
LEMMA ShowingOther ==
  ASSUME NEW t, NEW text, NEW n \in Nat, NEW e \in Nat, Showing(t, text, n, e),
         NEW other, NEW m \in Nat, NEW d \in Nat, m <= n, e <= d,
         \A i \in 1 .. m : other[i] = text[i]
  PROVE  Showing(t, other, m, d)
<1>1. Good(t) /\ t.ansi_state = "NORMAL"
  BY DEF Showing
<1>2. PICK b \in Nat : b = RowStart(t)
  BY <1>1, RowFacts
<1>3. \A c \in Cell : c \in Int
  BY DEF Cell
<1>4. ASSUME NEW c \in Cell, c >= b, c < b + m PROVE t.cells[c] = Look(other[c - b + 1])
  <2>1. c >= b /\ c < b + n /\ c - b + 1 \in 1 .. m
    BY <1>3, <1>4
  <2>2. t.cells[c] = Look(text[c - b + 1])
    BY <1>2, <2>1 DEF Showing
  <2>3. QED
    BY <2>1, <2>2
<1>5. ASSUME NEW c \in Cell, c >= b + d PROVE t.cells[c] = Blank
  <2>1. c >= b + e
    BY <1>3, <1>5
  <2>2. QED
    BY <1>2, <2>1 DEF Showing
<1>6. QED
  BY <1>1, <1>2, <1>4, <1>5 DEF Showing

\* CR returns to the beginning of the row.
LEMMA Returned ==
  ASSUME NEW t, Good(t), t.ansi_state = "NORMAL"
  PROVE  LET u == Render(t, "CR")
         IN Good(u) /\ u.ansi_state = "NORMAL" /\ u.x = 0 /\ u.y = t.y /\ u.cells = t.cells
<1>1. PICK r : r = [t EXCEPT !.x = 0]
  OBVIOUS
<1>2. /\ r \in TtyType /\ r.x = 0 /\ r.y = t.y /\ r.ansi_state = "NORMAL"
      /\ r.cells = t.cells
  BY <1>1 DEF Good, TtyType
<1>3. t.x \in Nat /\ t.y \in Nat /\ t.y < Rows /\ 0 < Columns /\ Rows \in Nat /\ Columns \in Nat
  BY Fields, ScreenAssumption DEF Good
<1>4. Render(t, "CR") = r
  <2>1. Advance(t, "CR") = r
    BY <1>1 DEF Advance
  <2>2. Wrap(r) = r
    BY <1>2, <1>3 DEF Wrap
  <2>3. Scroll(r) = r
    BY <1>2, <1>3 DEF Scroll
  <2>4. QED
    BY <2>1, <2>2, <2>3 DEF Render, RenderChar
<1>5. Good(r)
  BY <1>2, <1>3 DEF Good
<1>6. QED
  BY <1>2, <1>4, <1>5

\* ESC [ K blanks what is behind the cursor.
LEMMA ErasedBehind ==
  ASSUME NEW t, NEW text, NEW n \in Nat, Showing(t, text, n, Columns), t.x = n, n < Columns
  PROVE  LET u == Puts(t, <<"ESC", "[", "K">>) IN Showing(u, text, n, n) /\ u.x = n
<1>0. Good(t) /\ t.ansi_state = "NORMAL"
  BY DEF Showing
<1>1. PICK s : s = [t EXCEPT !.ansi_state = "CSI", !.param_count = 0, !.current = 0]
  OBVIOUS
<1>2. Puts(t, <<"ESC", "[", "K">>) = Render(s, "K")
  <2>1. Render(Render(t, "ESC"), "[") = s
    BY <1>0, <1>1, SequenceBegins
  <2>2. QED
    BY <2>1, PutsThree
<1>3. 0 \in Word /\ ~IsDigit("K") /\ "K" # ";"
  BY ParamFacts, DigitFacts
<1>4. PICK v : /\ Render(s, "K") = [Dispatch(v, "K") EXCEPT !.ansi_state = "NORMAL"]
               /\ Good(v) /\ v.x = t.x /\ v.y = t.y /\ v.cells = t.cells /\ v.params[0] = 0
  <2>1. \E v : Sees(t, s, 0, "K", v)
    BY <1>0, <1>1, <1>3, CommandSees
  <2>2. QED
    BY <2>1 DEF Sees
<1>5. PICK d : d = EraseToEnd(v)
  OBVIOUS
<1>6. Dispatch(v, "K") = d
  BY <1>4, <1>5 DEF Dispatch
<1>7. Good(d)
  BY <1>4, <1>6, DispatchGood DEF Good
<1>8. /\ d.x = v.x /\ d.y = v.y
      /\ d.cells = [c \in Cell |-> IF c >= CursorCell(v) /\ c < (v.y + 1) * Columns
                                   THEN Blank ELSE v.cells[c]]
  BY <1>4, <1>5 DEF EraseToEnd, Good, TtyType
<1>9. PICK u : u = [d EXCEPT !.ansi_state = "NORMAL"]
  OBVIOUS
<1>10. Good(u) /\ u.ansi_state = "NORMAL" /\ u.x = d.x /\ u.y = d.y /\ u.cells = d.cells
  BY <1>7, <1>9, CommandDone
<1>11. PICK b \in Nat : b = RowStart(t)
  BY <1>0, RowFacts
<1>12. RowStart(u) = b /\ CursorCell(v) = b + n /\ (v.y + 1) * Columns = b + Columns
  BY <1>0, <1>4, <1>8, <1>10, <1>11, RowFacts DEF RowStart, CursorCell
<1>13. \A c \in Cell : u.cells[c] = IF c >= b + n /\ c < b + Columns THEN Blank ELSE t.cells[c]
  BY <1>4, <1>8, <1>10, <1>12
<1>14. \A c \in Cell : c \in Int
  BY DEF Cell
<1>15. ASSUME NEW c \in Cell, c >= b, c < b + n PROVE u.cells[c] = Look(text[c - b + 1])
  <2>1. ~(c >= b + n)
    BY <1>14, <1>15
  <2>2. t.cells[c] = Look(text[c - b + 1])
    BY <1>11, <1>15 DEF Showing
  <2>3. QED
    BY <1>13, <2>1, <2>2
<1>16. ASSUME NEW c \in Cell, c >= b + n PROVE u.cells[c] = Blank
  <2>1. c < b + Columns \/ c >= b + Columns
    BY <1>14, ScreenAssumption
  <2>2. c >= b + Columns => t.cells[c] = Blank
    BY <1>11 DEF Showing
  <2>3. QED
    BY <1>13, <1>16, <2>1, <2>2
<1>17. Showing(u, text, n, n)
  BY <1>10, <1>12, <1>15, <1>16 DEF Showing
<1>18. QED
  BY <1>2, <1>4, <1>6, <1>8, <1>9, <1>10, <1>17

\* Terminal u is t with the cursor moved to column x.
AtColumn(u, t, x) ==
  /\ Good(u) /\ u.ansi_state = "NORMAL" /\ u.y = t.y /\ u.cells = t.cells
  /\ u.x = x

\* ESC [ n D moves the cursor left by n, and by one without a number.
LEMMA MovedLeft ==
  ASSUME NEW t, Good(t), NEW n \in Word, OneBased(n) <= t.x,
         NEW s, s = [t EXCEPT !.ansi_state = "CSI", !.param_count = 0, !.current = n]
  PROVE  AtColumn(Render(s, "D"), t, t.x - OneBased(n))
<1>1. ~IsDigit("D") /\ "D" # ";"
  BY DigitFacts
<1>2. PICK v : /\ Render(s, "D") = [Dispatch(v, "D") EXCEPT !.ansi_state = "NORMAL"]
               /\ Good(v) /\ v.x = t.x /\ v.y = t.y /\ v.cells = t.cells /\ v.params[0] = n
  <2>1. \E v : Sees(t, s, n, "D", v)
    BY <1>1, CommandSees
  <2>2. QED
    BY <2>1 DEF Sees
<1>3. PICK d : d = Back(v)
  OBVIOUS
<1>4. Dispatch(v, "D") = d
  BY <1>3 DEF Dispatch
<1>5. Good(d)
  BY <1>2, <1>4, DispatchGood DEF Good
<1>6. n \in Nat /\ t.x \in Nat
  BY Fields, ScreenAssumption DEF Word, Good
<1>7. ~(OneBased(n) > t.x)
  BY <1>6 DEF OneBased
<1>8. d = [v EXCEPT !.x = t.x - OneBased(n)]
  BY <1>2, <1>3, <1>7 DEF Back
<1>9. d.y = v.y /\ d.cells = v.cells /\ d.x = t.x - OneBased(n)
  BY <1>2, <1>8 DEF Good, TtyType
<1>10. QED
  BY <1>2, <1>4, <1>5, <1>9, CommandDone DEF AtColumn

\* ESC [ C moves it right by one.
LEMMA MovedRight ==
  ASSUME NEW t, Good(t), t.x + 1 < Columns,
         NEW s, s = [t EXCEPT !.ansi_state = "CSI", !.param_count = 0, !.current = 0]
  PROVE  AtColumn(Render(s, "C"), t, t.x + 1)
<1>1. ~IsDigit("C") /\ "C" # ";" /\ 0 \in Word
  BY DigitFacts, ParamFacts
<1>2. PICK v : /\ Render(s, "C") = [Dispatch(v, "C") EXCEPT !.ansi_state = "NORMAL"]
               /\ Good(v) /\ v.x = t.x /\ v.y = t.y /\ v.cells = t.cells /\ v.params[0] = 0
  <2>1. \E v : Sees(t, s, 0, "C", v)
    BY <1>1, CommandSees
  <2>2. QED
    BY <2>1 DEF Sees
<1>3. PICK d : d = Forward(v)
  OBVIOUS
<1>4. Dispatch(v, "C") = d
  BY <1>3 DEF Dispatch
<1>5. Good(d)
  BY <1>2, <1>4, DispatchGood DEF Good
<1>6. PICK n \in Nat : n = t.x
  BY Fields DEF Good
<1>7. AtMost((v.x + OneBased(v.params[0])) % WordSize, Columns - 1) = n + 1
  <2>1. OneBased(v.params[0]) = 1 /\ v.x = n
    BY <1>2, <1>6 DEF OneBased
  <2>2. (n + 1) % WordSize = n + 1 /\ ~(n + 1 > Columns - 1)
    BY <1>6, ScreenAssumption
  <2>3. QED
    BY <2>1, <2>2 DEF AtMost
<1>8. d = [v EXCEPT !.x = n + 1]
  BY <1>3, <1>7 DEF Forward
<1>9. d.y = v.y /\ d.cells = v.cells /\ d.x = n + 1
  BY <1>2, <1>8 DEF Good, TtyType
<1>10. QED
  BY <1>2, <1>4, <1>5, <1>6, <1>9, CommandDone DEF AtColumn

-----------------------------------------------------------------------------
(* Numbers in decimal                                                      *)

\* The recursive function of Decimal, for numbers up to n.
IsDecimal(f, n) ==
  f = [k \in 0 .. n |-> IF k < 10 THEN <<Digits[k + 1]>>
                        ELSE Append(f[k \div 10], Digits[(k % 10) + 1])]

\* A number of more than one digit without its last.
LEMMA TenFacts ==
  ASSUME NEW k \in Nat
  PROVE  /\ k \div 10 \in Nat /\ k % 10 \in 0 .. 9 /\ (k \div 10) * 10 + (k % 10) = k
         /\ k >= 10 => k \div 10 < k
OBVIOUS

\* The recursion that writes a number digit by digit defines a function.
LEMMA DecimalExists ==
  ASSUME NEW n \in Nat
  PROVE  \E f : IsDecimal(f, n)
<1> DEFINE T == {m \in Nat : ~ \E f : IsDecimal(f, m)}
<1>1. SUFFICES ASSUME T # {} PROVE FALSE
  OBVIOUS
<1>2. PICK m \in T : \A k \in T : m <= k
  <2>1. T \in SUBSET Nat
    OBVIOUS
  <2> HIDE DEF T
  <2>2. QED
    BY <1>1, <2>1, LeastNatural
<1>3. CASE m = 0
  <2> DEFINE f == [k \in 0 .. 0 |-> <<Digits[k + 1]>>]
  <2>1. f = [k \in 0 .. 0 |-> IF k < 10 THEN <<Digits[k + 1]>>
                              ELSE Append(f[k \div 10], Digits[(k % 10) + 1])]
    OBVIOUS
  <2>2. IsDecimal(f, 0)
    BY <2>1 DEF IsDecimal
  <2>3. QED
    BY <2>2, <1>3
<1>4. CASE m # 0
  <2>1. m - 1 \in Nat /\ m \in Nat /\ ~(m <= m - 1)
    BY <1>4
  <2>2. PICK f : IsDecimal(f, m - 1)
    BY <2>1, <1>2
  <2>3. PICK last : last = IF m < 10 THEN <<Digits[m + 1]>>
                           ELSE Append(f[m \div 10], Digits[(m % 10) + 1])
    OBVIOUS
  <2> DEFINE g == [k \in 0 .. m |-> IF k = m THEN last ELSE f[k]]
  <2>4. \A k \in 0 .. m - 1 : g[k] = f[k]
    BY <2>1
  <2>5. ASSUME NEW k \in 0 .. m
        PROVE  g[k] = IF k < 10 THEN <<Digits[k + 1]>>
                      ELSE Append(g[k \div 10], Digits[(k % 10) + 1])
    <3>0. k \in Nat /\ (k >= 10 => k \div 10 \in 0 .. m - 1)
      <4>1. k \in Nat /\ k <= m
        BY <2>1
      <4>2. k >= 10 => k \div 10 < k /\ k \div 10 \in Nat
        BY <4>1, TenFacts
      <4>3. PICK q : q = k \div 10
        OBVIOUS
      <4>4. k >= 10 => q \in 0 .. m - 1
        BY <4>1, <4>2, <4>3, <2>1
      <4>5. QED
        BY <4>1, <4>3, <4>4
    <3>1. ~(k < 10) => g[k \div 10] = f[k \div 10]
      <4>1. ~(k < 10) => k >= 10
        BY <3>0
      <4>2. QED
        BY <4>1, <3>0, <2>4, Zenon
    <3>2. CASE k = m
      <4>1. g[k] = last
        BY <3>2, <2>1
      <4> HIDE DEF g
      <4>2. QED
        BY <4>1, <3>1, <3>2, <2>3, Zenon
    <3>3. CASE k # m
      <4>1. k \in 0 .. m - 1
        BY <3>3, <2>1
      <4>2. f[k] = IF k < 10 THEN <<Digits[k + 1]>>
                   ELSE Append(f[k \div 10], Digits[(k % 10) + 1])
        BY <2>2, <4>1 DEF IsDecimal
      <4>3. g[k] = f[k]
        BY <4>1, <2>4
      <4> HIDE DEF g
      <4>4. QED
        BY <4>2, <4>3, <3>1, Zenon
    <3>4. QED
      BY <3>2, <3>3
  <2>6. IsDecimal(g, m)
    <3>1. g = [k \in 0 .. m |-> g[k]]
      OBVIOUS
    <3> HIDE DEF g
    <3>2. QED
      BY <3>1, <2>5 DEF IsDecimal
  <2>7. QED
    BY <2>6
<1>5. QED
  BY <1>3, <1>4

\* The digits are told apart.
LEMMA DigitOf ==
  ASSUME NEW d \in 0 .. 9
  PROVE  IsDigit(Digits[d + 1]) /\ DigitValue(Digits[d + 1]) = d
<1>1. /\ Digits[1] = "0" /\ Digits[2] = "1" /\ Digits[3] = "2" /\ Digits[4] = "3"
      /\ Digits[5] = "4" /\ Digits[6] = "5" /\ Digits[7] = "6" /\ Digits[8] = "7"
      /\ Digits[9] = "8" /\ Digits[10] = "9"
  BY DEF Digits
<1>2. \A i \in 1 .. 10 : i = 1 \/ i = 2 \/ i = 3 \/ i = 4 \/ i = 5 \/ i = 6 \/ i = 7 \/ i = 8
                         \/ i = 9 \/ i = 10
  OBVIOUS
<1>3. \A i, j \in 1 .. 10 : Digits[i] = Digits[j] => i = j
  BY <1>1, <1>2
<1>4. d + 1 \in 1 .. 10 /\ (d + 1) - 1 = d
  OBVIOUS
<1>5. PICK i : i = d + 1
  OBVIOUS
<1>6. (CHOOSE j \in 1 .. 10 : Digits[j] = Digits[i]) = i
  BY <1>3, <1>4, <1>5
<1>7. QED
  BY <1>4, <1>5, <1>6 DEF IsDigit, DigitValue

\* The parser reads a number that is written in decimal.
Parsed(s, k) ==
  \A t : Good(t) /\ t.ansi_state = "CSI" /\ t.current = 0
           => Puts(t, s) = [t EXCEPT !.current = k]

\* The ten digits.
DigitChars == {Digits[i] : i \in 1 .. 10}

\* What printf writes for a number the terminal reads back as that number.
LEMMA DecimalRead ==
  ASSUME NEW n \in Nat, n < WordSize
  PROVE  Decimal(n) \in Seq(DigitChars) /\ Parsed(Decimal(n), n)
<1>1. PICK f : IsDecimal(f, n) /\ Decimal(n) = f[n]
  <2> DEFINE f == CHOOSE g : IsDecimal(g, n)
  <2>1. Decimal(n) = f[n]
    BY DEF Decimal, IsDecimal
  <2>2. IsDecimal(f, n)
    BY DecimalExists
  <2>3. QED
    BY <2>1, <2>2
<1>2. \A k \in 0 .. n : f[k] = IF k < 10 THEN <<Digits[k + 1]>>
                               ELSE Append(f[k \div 10], Digits[(k % 10) + 1])
  BY <1>1 DEF IsDecimal
<1> DEFINE P(k) == f[k] \in Seq(DigitChars) /\ Parsed(f[k], k)
           T == {k \in 0 .. n : ~P(k)}
<1>3. CASE T = {}
  <2>1. n \in 0 .. n
    OBVIOUS
  <2>2. QED
    BY <1>1, <1>3, <2>1
<1>4. CASE T # {}
  <2>1. T \in SUBSET Nat
    OBVIOUS
  <2>2. PICK m \in T : \A k \in T : m <= k
    <3> HIDE DEF T
    <3>1. QED
      BY <1>4, <2>1, LeastNatural
  <2>3. m \in Nat /\ m <= n /\ m < WordSize /\ WordSize \in Nat
    BY ScreenAssumption
  <2>4. CASE m < 10
    <3>1. f[m] = <<Digits[m + 1]>>
      BY <1>2, <2>4
    <3>2. m \in 0 .. 9 /\ m + 1 \in 1 .. 10
      BY <2>3, <2>4
    <3>3. PICK ch : ch = Digits[m + 1]
      OBVIOUS
    <3>4. ch \in DigitChars /\ IsDigit(ch) /\ DigitValue(ch) = m
      BY <3>2, <3>3, DigitOf DEF DigitChars
    <3>5. f[m] \in Seq(DigitChars)
      BY <3>1, <3>3, <3>4
    <3>6. ASSUME NEW t, Good(t), t.ansi_state = "CSI", t.current = 0
          PROVE  Puts(t, f[m]) = [t EXCEPT !.current = m]
      <4>1. Puts(t, f[m]) = Render(t, ch)
        <5>1. f[m] = <<ch>>
          BY <3>1, <3>3
        <5>2. Puts(t, <<ch>>) = Render(t, ch)
          BY PutsOne
        <5>3. QED
          BY <5>1, <5>2, Zenon
      <4>2. Render(t, ch) = [t EXCEPT !.current = (t.current * 10 + DigitValue(ch)) % WordSize]
        BY <3>4, <3>6 DEF Render, RenderCsi
      <4>3. (0 * 10 + m) % WordSize = m
        BY <2>3
      <4>4. QED
        BY <4>1, <4>2, <4>3, <3>4, <3>6
    <3>7. P(m)
      BY <3>5, <3>6 DEF Parsed
    <3>8. QED
      BY <3>7
  <2>5. CASE ~(m < 10)
    <3>1. PICK q, d : q = m \div 10 /\ d = m % 10
      OBVIOUS
    <3>2. q \in Nat /\ d \in 0 .. 9 /\ q * 10 + d = m /\ q < m
      BY <2>3, <2>5, <3>1, TenFacts
    <3>3. q \in 0 .. n /\ ~(m <= q)
      BY <2>3, <3>2
    <3>4. P(q)
      <4> HIDE DEF P
      <4>1. QED
        BY <2>2, <3>3
    <3>5. PICK ch : ch = Digits[d + 1]
      OBVIOUS
    <3>6. ch \in DigitChars /\ IsDigit(ch) /\ DigitValue(ch) = d
      <4>1. d + 1 \in 1 .. 10
        BY <3>2
      <4>2. QED
        BY <3>2, <3>5, <4>1, DigitOf DEF DigitChars
    <3>7. f[m] = Append(f[q], ch)
      BY <1>2, <2>5, <3>1, <3>5
    <3>8. PICK a : a = f[q]
      OBVIOUS
    <3>9. f[m] \in Seq(DigitChars) /\ f[m] = a \o <<ch>> /\ <<ch>> \in Seq(DigitChars)
      <4>1. a \in Seq(DigitChars) /\ f[m] = Append(a, ch)
        BY <3>4, <3>7, <3>8
      <4>2. Append(a, ch) \in Seq(DigitChars) /\ <<ch>> \in Seq(DigitChars)
        BY ONLY <3>6, <4>1
      <4>3. Append(a, ch) = a \o <<ch>>
        BY ONLY <3>6, <4>1, AppendIsConcat
      <4>4. QED
        BY ONLY <4>1, <4>2, <4>3
    <3>10. ASSUME NEW t, Good(t), t.ansi_state = "CSI", t.current = 0
           PROVE  Puts(t, f[m]) = [t EXCEPT !.current = m]
      <4>1. PICK u : u = [t EXCEPT !.current = q]
        OBVIOUS
      <4>2. Puts(t, a) = u
        BY <3>4, <3>8, <3>10, <4>1 DEF Parsed
      <4>3. Puts(t, f[m]) = Puts(u, <<ch>>)
        <5>1. a \in Seq(DigitChars)
          BY <3>4, <3>8
        <5>2. PICK g : g = <<ch>>
          OBVIOUS
        <5>3. g \in Seq(DigitChars)
          BY <5>2, <3>9, Zenon
        <5>4. Puts(t, a \o g) = Puts(Puts(t, a), g)
          <6> HIDE DEF P, T
          <6>1. QED
            BY <5>1, <5>3, PutsConcat
        <5>5. QED
          BY <5>2, <5>4, <3>9, <4>2, Zenon
      <4>4. Puts(u, <<ch>>) = Render(u, ch)
        BY PutsOne
      <4>5. u.ansi_state = "CSI" /\ u.current = q
        BY <3>10, <4>1 DEF Good, TtyType
      <4>6. Render(u, ch) = [u EXCEPT !.current = (u.current * 10 + DigitValue(ch)) % WordSize]
        BY <3>6, <4>5 DEF Render, RenderCsi
      <4>7. (q * 10 + d) % WordSize = m
        BY <2>3, <3>2
      <4>8. Render(u, ch) = [u EXCEPT !.current = m]
        BY <3>6, <4>5, <4>6, <4>7
      <4>9. [u EXCEPT !.current = m] = [t EXCEPT !.current = m]
        BY <3>10, <4>1 DEF Good, TtyType
      <4>10. QED
        BY <4>3, <4>4, <4>8, <4>9
    <3>11. P(m)
      BY <3>9, <3>10 DEF Parsed
    <3>12. QED
      BY <3>11
  <2>6. QED
    BY <2>4, <2>5
<1>5. QED
  BY <1>3, <1>4

-----------------------------------------------------------------------------
(* shell_redraw                                                            *)

\* Text printed in pieces is printed as a whole.
LEMMA PutsPieces ==
  ASSUME NEW t, NEW S, NEW a \in Seq(S), NEW b \in Seq(S), NEW c \in Seq(S), NEW d \in Seq(S)
  PROVE  /\ Puts(t, a \o b \o c) = Puts(Puts(Puts(t, a), b), c)
         /\ Puts(t, a \o b \o c \o d) = Puts(Puts(Puts(Puts(t, a), b), c), d)
<1>1. PICK e : e = a \o b
  OBVIOUS
<1>2. e \in Seq(S)
  BY <1>1, ConcatProperties
<1>3. PICK f : f = e \o c
  OBVIOUS
<1>4. f \in Seq(S)
  BY <1>2, <1>3, ConcatProperties
<1>5. Puts(t, e) = Puts(Puts(t, a), b)
  BY <1>1, PutsConcat
<1>6. Puts(t, f) = Puts(Puts(t, e), c)
  BY <1>2, <1>3, PutsConcat
<1>7. Puts(t, f \o d) = Puts(Puts(t, f), d)
  BY <1>4, PutsConcat
<1>8. QED
  BY <1>1, <1>3, <1>5, <1>6, <1>7, Zenon

\* What the shell has on the row: the prompt and the line.
ShellText(l) == Prompt \o l

\* The text of the row is the prompt and behind it the line.
LEMMA TextFacts ==
  ASSUME NEW Chars, Prompt \in Seq(Chars), NEW l \in Seq(Chars)
  PROVE  /\ Len(Prompt) \in Nat /\ Len(l) \in Nat
         /\ Len(ShellText(l)) = Len(Prompt) + Len(l)
         /\ \A i \in 1 .. Len(Prompt) : ShellText(l)[i] = Prompt[i] /\ Prompt[i] \in Chars
         /\ \A i \in 1 .. Len(l) : ShellText(l)[Len(Prompt) + i] = l[i] /\ l[i] \in Chars
<1>1. PICK s : s = ShellText(l)
  OBVIOUS
<1>2. /\ Len(s) = Len(Prompt) + Len(l)
      /\ \A i \in 1 .. Len(Prompt) + Len(l) :
           s[i] = IF i <= Len(Prompt) THEN Prompt[i] ELSE l[i - Len(Prompt)]
  BY <1>1, ConcatProperties DEF ShellText
<1>3. Len(Prompt) \in Nat /\ Len(l) \in Nat
  OBVIOUS
<1>4. ASSUME NEW i \in 1 .. Len(Prompt) PROVE s[i] = Prompt[i] /\ Prompt[i] \in Chars
  BY <1>2, <1>3
<1>5. ASSUME NEW i \in 1 .. Len(l) PROVE s[Len(Prompt) + i] = l[i] /\ l[i] \in Chars
  <2>1. /\ Len(Prompt) + i \in 1 .. Len(Prompt) + Len(l) /\ ~(Len(Prompt) + i <= Len(Prompt))
        /\ (Len(Prompt) + i) - Len(Prompt) = i
    BY <1>3
  <2>2. s[Len(Prompt) + i] = l[(Len(Prompt) + i) - Len(Prompt)]
    BY <1>2, <2>1, Zenon
  <2>3. l[i] \in Chars
    OBVIOUS
  <2>4. QED
    BY <2>1, <2>2, <2>3
<1>6. QED
  BY <1>1, <1>2, <1>3, <1>4, <1>5

\* The row is written anew from its beginning: whatever it showed, it shows the
\* prompt and the line, with the cursor behind it.
LEMMA RowWritten ==
  ASSUME NEW Chars, Chars \cap Control = {}, Prompt \in Seq(Chars), NEW l \in Seq(Chars),
         Len(Prompt) + Len(l) < Columns,
         NEW t, NEW text, NEW n \in Nat, NEW e \in Nat, e <= Columns, Showing(t, text, n, e)
  PROVE  LET u == Puts(t, <<"CR">> \o Prompt \o l \o <<"ESC", "[", "K">>)
             m == Len(Prompt) + Len(l)
         IN Showing(u, ShellText(l), m, m) /\ u.x = m
<1>1. PICK S : S = Chars \cup {"CR", "ESC", "[", "K"}
  OBVIOUS
<1>2. PICK a, d : a = <<"CR">> /\ d = <<"ESC", "[", "K">>
  OBVIOUS
<1>3. a \in Seq(S) /\ d \in Seq(S) /\ Prompt \in Seq(S) /\ l \in Seq(S)
  <2>1. Chars \subseteq S /\ "CR" \in S /\ "ESC" \in S /\ "[" \in S /\ "K" \in S
    BY <1>1
  <2>2. Prompt \in Seq(S) /\ l \in Seq(S)
    BY <2>1, SeqMonotonic
  <2>3. QED
    BY <1>2, <2>1, <2>2
<1>4. PICK p, q, r : p = Puts(t, a) /\ q = Puts(p, Prompt) /\ r = Puts(q, l)
  OBVIOUS
<1>5. Puts(t, a \o Prompt \o l \o d) = Puts(r, d)
  BY <1>3, <1>4, PutsPieces
<1>6. PICK s : s = ShellText(l)
  OBVIOUS
<1>7. /\ Len(Prompt) \in Nat /\ Len(l) \in Nat
      /\ \A i \in 1 .. Len(Prompt) : s[i] = Prompt[i] /\ Prompt[i] \in Chars
      /\ \A i \in 1 .. Len(l) : s[Len(Prompt) + i] = l[i] /\ l[i] \in Chars
  BY <1>6, TextFacts
<1>8. Columns \in Nat /\ 0 + Len(Prompt) = Len(Prompt)
  BY <1>7, ScreenAssumption
<1>9. Showing(p, s, 0, Columns) /\ p.x = 0
  <2>1. p = Render(t, "CR")
    BY <1>2, <1>4, PutsOne
  <2>2. Good(t) /\ t.ansi_state = "NORMAL"
    BY DEF Showing
  <2>3. /\ Good(p) /\ p.ansi_state = "NORMAL" /\ p.x = 0 /\ p.y = t.y
        /\ p.cells = t.cells
    BY <2>1, <2>2, Returned
  <2>4. Showing(p, text, n, e)
    BY <2>3, SameView
  <2>5. QED
    BY <2>3, <2>4, <1>8, ShowingOther
<1>10. Showing(q, s, Len(Prompt), Columns) /\ q.x = Len(Prompt)
  <2>1. Continues(Prompt, s, 0)
    <3>1. \A i \in 1 .. Len(Prompt) : 0 + i = i
      BY <1>7
    <3>2. QED
      BY <1>7, <3>1 DEF Continues
  <2>2. 0 + Len(Prompt) < Columns /\ 0 + Len(Prompt) <= Columns
    BY <1>7, <1>8
  <2>3. 0 \in Nat
    OBVIOUS
  <2>4. Ready(p, s, 0, Columns, Prompt)
    BY <1>7, <1>8, <1>9, <2>1, <2>2, <2>3 DEF Ready
  <2>5. /\ Showing(Puts(p, Prompt), s, 0 + Len(Prompt), Columns)
        /\ Puts(p, Prompt).x = 0 + Len(Prompt)
    BY <2>4, TypeText
  <2>6. QED
    BY <1>4, <1>8, <2>5
<1>11. PICK m : m = Len(Prompt) + Len(l)
  OBVIOUS
<1>12. Showing(r, s, m, Columns) /\ r.x = m
  <2>1. Continues(l, s, Len(Prompt))
    BY <1>7 DEF Continues
  <2>2. Len(Prompt) + Len(l) <= Columns
    BY <1>7, <1>8
  <2>3. Ready(q, s, Len(Prompt), Columns, l)
    BY <1>7, <1>8, <1>10, <2>1, <2>2 DEF Ready
  <2>4. /\ Showing(Puts(q, l), s, Len(Prompt) + Len(l), Columns)
        /\ Puts(q, l).x = Len(Prompt) + Len(l)
    BY <2>3, TypeText
  <2>5. QED
    BY <1>4, <1>11, <2>4
<1>13. Showing(Puts(r, d), s, m, m) /\ Puts(r, d).x = m
  <2>1. m \in Nat /\ m < Columns
    BY <1>7, <1>11
  <2>2. QED
    BY <1>2, <1>12, <2>1, ErasedBehind
<1>14. QED
  BY <1>2, <1>5, <1>6, <1>11, <1>13, Zenon

\* ESC [ and a command without a number.
LEMMA ShortSequence ==
  ASSUME NEW t, Good(t), t.ansi_state = "NORMAL", NEW ch
  PROVE  Puts(t, <<"ESC", "[", ch>>) =
           Render([t EXCEPT !.ansi_state = "CSI", !.param_count = 0, !.current = 0], ch)
<1>1. PICK u : u = [t EXCEPT !.ansi_state = "CSI", !.param_count = 0, !.current = 0]
  OBVIOUS
<1>2. Render(Render(t, "ESC"), "[") = u
  BY <1>1, SequenceBegins
<1>3. Puts(t, <<"ESC", "[", ch>>) = Render(u, ch)
  BY <1>2, PutsThree
<1>4. QED
  BY <1>1, <1>3, Zenon

\* ESC [ n D with the number in decimal.
LEMMA NumberedLeft ==
  ASSUME NEW t, Good(t), t.ansi_state = "NORMAL", NEW n \in Nat \ {0}, n <= t.x
  PROVE  LET u == Puts(t, <<"ESC", "[">> \o Decimal(n) \o <<"D">>)
         IN /\ Good(u) /\ u.ansi_state = "NORMAL" /\ u.y = t.y /\ u.cells = t.cells
            /\ u.x = t.x - n
<1>1. t.x \in Nat /\ t.x < Columns /\ Columns < WordSize /\ Columns \in Nat /\ WordSize \in Nat
  BY Fields, ScreenAssumption DEF Good
<1>2. n < WordSize /\ n \in Word /\ OneBased(n) = n
  BY <1>1 DEF Word, OneBased
<1>3. PICK dec : dec = Decimal(n)
  OBVIOUS
<1>4. dec \in Seq(DigitChars) /\ Parsed(dec, n)
  BY <1>2, <1>3, DecimalRead
<1>5. PICK S : S = DigitChars \cup {"ESC", "[", "D"}
  OBVIOUS
<1>6. PICK a, b : a = <<"ESC", "[">> /\ b = <<"D">>
  OBVIOUS
<1>7. a \in Seq(S) /\ b \in Seq(S) /\ dec \in Seq(S)
  <2>1. DigitChars \subseteq S /\ "ESC" \in S /\ "[" \in S /\ "D" \in S
    BY <1>5
  <2>2. dec \in Seq(S)
    BY <1>4, <2>1, SeqMonotonic
  <2>3. QED
    BY <1>6, <2>1, <2>2
<1>8. PICK v, w : v = [t EXCEPT !.ansi_state = "CSI", !.param_count = 0, !.current = 0]
                  /\ w = [t EXCEPT !.ansi_state = "CSI", !.param_count = 0, !.current = n]
  OBVIOUS
<1>9. Puts(t, a) = v /\ Good(v)
  <2>1. Puts(t, a) = Render(Render(t, "ESC"), "[")
    <3>1. Puts(t, <<"ESC", "[">>) = Render(Render(t, "ESC"), "[")
      BY PutsTwo
    <3>2. QED
      BY <1>6, <3>1, Zenon
  <2>2. Render(Render(t, "ESC"), "[") = v
    BY <1>8, SequenceBegins
  <2>3. Good(Render(Render(t, "ESC"), "["))
    BY RenderGood
  <2>4. QED
    BY <2>1, <2>2, <2>3
<1>10. v.ansi_state = "CSI" /\ v.current = 0 /\ [v EXCEPT !.current = n] = w
  BY <1>8 DEF Good, TtyType
<1>11. Puts(v, dec) = w
  BY <1>4, <1>9, <1>10 DEF Parsed
<1>12. Puts(w, b) = Render(w, "D")
  BY <1>6, PutsOne
<1>13. Puts(t, a \o dec \o b) = Render(w, "D")
  BY <1>7, <1>9, <1>11, <1>12, PutsPieces
<1>14. /\ Good(Render(w, "D")) /\ Render(w, "D").ansi_state = "NORMAL"
       /\ Render(w, "D").y = t.y /\ Render(w, "D").cells = t.cells
       /\ Render(w, "D").x = t.x - OneBased(n)
  <2>1. n \in Word /\ OneBased(n) <= t.x
    BY <1>2
  <2>2. AtColumn(Render(w, "D"), t, t.x - OneBased(n))
    BY ONLY Good(t), <1>8, <2>1, MovedLeft
  <2>3. QED
    BY ONLY <2>2 DEF AtColumn
<1>15. QED
  BY <1>2, <1>3, <1>6, <1>13, <1>14

\* shell_redraw leaves the line on the row and the cursor at its place.
LEMMA RedrawShows ==
  ASSUME NEW Chars, Chars \cap Control = {}, Prompt \in Seq(Chars), NEW l \in Seq(Chars),
         NEW c \in 0 .. Len(l), Len(Prompt) + Len(l) < Columns,
         NEW t, NEW text, NEW n \in Nat, NEW e \in Nat, e <= Columns, Showing(t, text, n, e)
  PROVE  LET u == Redraw(t, l, c)
             m == Len(Prompt) + Len(l)
         IN Showing(u, ShellText(l), m, m) /\ u.x = Len(Prompt) + c
<1>1. PICK s : s = Puts(t, <<"CR">> \o Prompt \o l \o <<"ESC", "[", "K">>)
  OBVIOUS
<1>2. PICK m : m = Len(Prompt) + Len(l)
  OBVIOUS
<1>3. Showing(s, ShellText(l), m, m) /\ s.x = m
  BY <1>1, <1>2, RowWritten
<1>4. Len(Prompt) \in Nat /\ Len(l) \in Nat /\ c \in Nat /\ c <= Len(l)
  OBVIOUS
<1>5. CASE c < Len(l)
  <2>1. PICK k : k = Len(l) - c
    OBVIOUS
  <2>2. k \in Nat \ {0} /\ k <= m /\ m - k = Len(Prompt) + c
    BY <1>2, <1>4, <1>5, <2>1
  <2>3. PICK u : u = Puts(s, <<"ESC", "[">> \o Decimal(k) \o <<"D">>)
    OBVIOUS
  <2>4. Redraw(t, l, c) = u
    BY <1>1, <1>5, <2>1, <2>3 DEF Redraw
  <2>5. Good(u) /\ u.ansi_state = "NORMAL" /\ u.y = s.y /\ u.cells = s.cells /\ u.x = s.x - k
    BY <1>3, <2>2, <2>3, NumberedLeft DEF Showing
  <2>6. Showing(u, ShellText(l), m, m)
    BY <1>3, <2>5, SameView
  <2>7. QED
    BY <1>2, <1>3, <2>2, <2>4, <2>5, <2>6
<1>6. CASE ~(c < Len(l))
  <2>1. Redraw(t, l, c) = s
    BY <1>1, <1>6 DEF Redraw
  <2>2. m = Len(Prompt) + c
    BY <1>2, <1>4, <1>6
  <2>3. QED
    BY <1>2, <1>3, <2>1, <2>2
<1>7. QED
  BY <1>5, <1>6

-----------------------------------------------------------------------------
(* What a command prints                                                   *)

\* Nothing stands from the cursor to the end of the screen.
Vacant(t) == \A c \in Cell : c >= CursorCell(t) => t.cells[c] = Blank

\* A vacant screen stays so when it scrolls.
LEMMA ScrolledVacant ==
  ASSUME NEW t \in TtyType, t.x < Columns, t.y <= Rows, Vacant(t)
  PROVE  Vacant(Scroll(t))
<1>1. t.x \in Nat /\ t.y \in Nat /\ Rows \in Nat /\ Columns \in Nat
  BY Fields, ScreenAssumption
<1>2. CASE t.y >= Rows
  <2>1. PICK u : u = [t EXCEPT !.y = t.y - 1, !.cells = TmScroll(t.cells)]
    OBVIOUS
  <2>2. Scroll(t) = u
    BY <1>2, <2>1 DEF Scroll
  <2>3. u.x = t.x /\ u.y = t.y - 1 /\ u.cells = TmScroll(t.cells)
    BY <2>1 DEF TtyType
  <2>4. CursorCell(u) \in Int /\ CursorCell(u) + Columns = CursorCell(t)
    <3>1. PICK y \in Nat, cols \in Nat : y = t.y /\ cols = Columns
      BY <1>1
    <3>2. (y - 1) * cols + cols = y * cols /\ (y - 1) * cols \in Int /\ y * cols \in Int
      OBVIOUS
    <3>3. QED
      BY <1>1, <2>3, <3>1, <3>2 DEF CursorCell
  <2>5. ASSUME NEW c \in Cell, c >= CursorCell(u) PROVE u.cells[c] = Blank
    <3>1. u.cells[c] = IF c + Columns \in Cell THEN t.cells[c + Columns] ELSE Blank
      BY <2>3 DEF TmScroll
    <3>2. c \in Int
      BY DEF Cell
    <3>3. c + Columns >= CursorCell(t)
      BY <1>1, <2>4, <2>5, <3>2
    <3>4. QED
      BY <3>1, <3>3 DEF Vacant
  <2>6. QED
    BY <2>2, <2>5 DEF Vacant
<1>3. CASE ~(t.y >= Rows)
  BY <1>3 DEF Scroll
<1>4. QED
  BY <1>2, <1>3

\* A newline leads to the beginning of an empty row, if nothing stood below.
LEMMA NewlineShows ==
  ASSUME NEW t, NEW text, NEW n \in Nat, NEW e \in Nat, e <= Columns, Showing(t, text, n, e)
  PROVE  LET u == Render(t, "NL") IN Good(u) /\ u.ansi_state = "NORMAL" /\ u.x = 0 /\ Vacant(u)
<1>0. Good(t) /\ t.ansi_state = "NORMAL" /\ t \in TtyType
  BY DEF Showing, Good
<1>1. t.x \in Nat /\ t.y \in Nat /\ t.y < Rows /\ Rows \in Nat /\ Columns \in Nat /\ 0 < Columns
  BY <1>0, Fields, ScreenAssumption DEF Good
<1>2. PICK k : k = t.y + 1
  OBVIOUS
<1>3. PICK a : a = [t EXCEPT !.x = 0, !.y = k]
  OBVIOUS
<1>4. Advance(t, "NL") = a
  BY <1>2, <1>3 DEF Advance
<1>5. a.x = 0 /\ a.y = k /\ a.cells = t.cells /\ k <= Rows /\ a \in TtyType
  <2>1. k \in Nat /\ k <= Rows
    BY <1>1, <1>2
  <2>2. a.x = 0 /\ a.y = k /\ a.cells = t.cells
    BY <1>0, <1>3 DEF TtyType
  <2>3. a \in TtyType
    BY <1>0, <1>3, <2>1 DEF TtyType
  <2>4. QED
    BY <2>1, <2>2, <2>3
<1>6. Wrap(a) = a
  BY <1>1, <1>5 DEF Wrap
<1>7. Render(t, "NL") = Scroll(a)
  BY <1>0, <1>4, <1>6 DEF Render, RenderChar
<1>8. Vacant(a)
  <2>1. PICK b \in Nat : b = RowStart(t)
    BY <1>0, RowFacts
  <2>2. CursorCell(a) = b + Columns
    <3>1. (t.y + 1) * Columns = b + Columns
      BY <1>0, <2>1, RowFacts
    <3>2. QED
      BY <1>1, <1>2, <1>5, <2>1, <3>1 DEF CursorCell
  <2>3. ASSUME NEW c \in Cell, c >= CursorCell(a) PROVE a.cells[c] = Blank
    <3>1. c \in Int
      BY DEF Cell
    <3>2. c >= b + e
      BY <1>1, <2>2, <2>3, <3>1
    <3>3. QED
      BY <1>5, <2>1, <3>2 DEF Showing
  <2>4. QED
    BY <2>3 DEF Vacant
<1>9. Vacant(Scroll(a))
  BY <1>1, <1>5, <1>8, ScrolledVacant
<1>10. /\ Good(Scroll(a)) /\ Scroll(a).ansi_state = a.ansi_state /\ Scroll(a).x = a.x
       /\ a.ansi_state = "NORMAL"
  <2>1. a.ansi_state = "NORMAL"
    BY <1>0, <1>3 DEF TtyType
  <2>2. QED
    BY <1>1, <1>5, <2>1, ScrollBrings
<1>11. QED
  BY <1>5, <1>7, <1>9, <1>10

\* At the beginning of a row, vacant means that the row shows nothing.
LEMMA VacantRow ==
  ASSUME NEW t, Good(t), t.ansi_state = "NORMAL", t.x = 0, NEW text
  PROVE  Vacant(t) <=> Showing(t, text, 0, 0)
<1>1. PICK b \in Nat : b = RowStart(t)
  BY RowFacts
<1>2. CursorCell(t) = b /\ b + 0 = b
  BY <1>1 DEF CursorCell, RowStart
<1>3. \A c \in Cell : c \in Int /\ ~(c >= b /\ c < b + 0)
  BY DEF Cell
<1>4. QED
  BY <1>1, <1>2, <1>3 DEF Vacant, Showing

\* A byte that neither returns, nor deletes, nor begins a sequence, leaves nothing
\* behind the cursor if nothing was there.
LEMMA PlainByte ==
  ASSUME NEW t, Good(t), t.ansi_state = "NORMAL", Vacant(t),
         NEW ch, ch \notin {"ESC", "CR", "BS"}
  PROVE  LET u == Render(t, ch)
         IN Good(u) /\ u.ansi_state = "NORMAL" /\ Vacant(u) /\ (ch = "NL" => u.x = 0)
<1>0. t \in TtyType /\ t.y < Rows /\ t.x < Columns
  BY DEF Good
<1>1. /\ t.x \in Nat /\ t.y \in Nat /\ Rows \in Nat /\ Columns \in Nat /\ 0 < Columns
      /\ TabWidth \in Nat \ {0}
  BY <1>0, Fields, ScreenAssumption
<1>2. PICK a, w : a = Advance(t, ch) /\ w = Wrap(a)
  OBVIOUS
<1>3. Render(t, ch) = Scroll(w)
  BY <1>2 DEF Render, RenderChar
<1>4. PICK b \in Nat : b = RowStart(t)
  BY RowFacts
<1>5. CursorCell(t) = b + t.x /\ (t.y + 1) * Columns = b + Columns
  BY <1>4, RowFacts DEF CursorCell, RowStart
<1>6. /\ \A c \in Cell : c > b + t.x => a.cells[c] = Blank
      /\ (a.x = 0 /\ a.y = t.y + 1) \/ (a.y = t.y /\ a.x \in Nat /\ a.x > t.x)
      /\ ch = "NL" => a.x = 0 /\ a.y = t.y + 1
  <2>0. \A c \in Cell : c > b + t.x => t.cells[c] = Blank
    <3>1. \A c \in Cell : c \in Int
      BY DEF Cell
    <3>2. QED
      BY <1>1, <1>5, <3>1 DEF Vacant
  <2>1. CASE ch = "NL"
    <3>1. a = [t EXCEPT !.x = 0, !.y = t.y + 1]
      BY <1>2, <2>1 DEF Advance
    <3>2. a.x = 0 /\ a.y = t.y + 1 /\ a.cells = t.cells
      BY <1>0, <3>1 DEF TtyType
    <3>3. QED
      BY <2>0, <3>2
  <2>2. CASE ch = "TAB"
    <3>1. PICK k : k = t.x + TabWidth - (t.x % TabWidth)
      OBVIOUS
    <3>2. t.x % TabWidth \in 0 .. TabWidth - 1
      BY <1>1, RemainderBelow
    <3>3. k \in Nat /\ k > t.x
      BY <1>1, <3>1, <3>2
    <3>4. a = [t EXCEPT !.x = k]
      BY <1>2, <2>2, <3>1 DEF Advance
    <3>5. a.x = k /\ a.y = t.y /\ a.cells = t.cells
      BY <1>0, <3>4 DEF TtyType
    <3>6. QED
      BY <2>0, <2>2, <3>3, <3>5
  <2>3. CASE ch \notin {"NL", "TAB"}
    <3>1. PICK k, cs : k = t.x + 1 /\ cs = TmWrite(t.cells, CursorCell(t), Look(ch))
      OBVIOUS
    <3>2. a = [t EXCEPT !.x = k, !.cells = cs]
      BY <1>2, <2>3, <3>1 DEF Advance
    <3>3. a.x = k /\ a.y = t.y /\ a.cells = cs /\ k \in Nat /\ k > t.x
      BY <1>0, <1>1, <3>1, <3>2 DEF TtyType
    <3>4. ASSUME NEW c \in Cell, c > b + t.x PROVE a.cells[c] = Blank
      <4>1. c # b + t.x
        BY <1>1, <3>4
      <4>2. a.cells[c] = t.cells[c]
        BY <1>5, <3>1, <3>3, <4>1 DEF TmWrite
      <4>3. QED
        BY <2>0, <3>4, <4>2
    <3>5. QED
      BY <2>3, <3>3, <3>4
  <2>4. QED
    BY <2>1, <2>2, <2>3
<1>7. /\ a \in TtyType /\ a.ansi_state = t.ansi_state
      /\ a.y < Rows \/ (a.x = 0 /\ a.y <= Rows)
  BY <1>0, <1>2, AdvanceLeaves
<1>8. w \in TtyType /\ w.x < Columns /\ w.y <= Rows /\ w.ansi_state = "NORMAL"
  BY <1>2, <1>7, WrapBrings
<1>9. w.cells = a.cells /\ CursorCell(w) > b + t.x /\ CursorCell(w) \in Int
      /\ (ch = "NL" => w.x = 0)
  <2>1. CASE a.x >= Columns
    <3>1. w = [a EXCEPT !.x = 0, !.y = a.y + 1]
      BY <1>2, <2>1 DEF Wrap
    <3>2. w.x = 0 /\ w.y = a.y + 1 /\ w.cells = a.cells
      BY <1>7, <3>1 DEF TtyType
    <3>3. a.y = t.y
      BY <1>1, <1>6, <2>1
    <3>4. CursorCell(w) = b + Columns
      BY <1>1, <1>5, <3>2, <3>3 DEF CursorCell
    <3>5. QED
      BY <1>0, <1>1, <3>2, <3>4
  <2>2. CASE ~(a.x >= Columns)
    <3>1. w = a
      BY <1>2, <2>2 DEF Wrap
    <3>2. CASE a.x = 0 /\ a.y = t.y + 1
      <4>1. CursorCell(a) = b + Columns
        BY <1>1, <1>5, <3>2 DEF CursorCell
      <4>2. QED
        BY <1>0, <1>1, <3>1, <3>2, <4>1
    <3>3. CASE a.y = t.y /\ a.x \in Nat /\ a.x > t.x
      <4>1. CursorCell(a) = b + a.x
        BY <1>4, <3>3 DEF CursorCell, RowStart
      <4>2. QED
        BY <1>1, <1>6, <3>1, <3>3, <4>1
    <3>4. QED
      BY <1>6, <3>2, <3>3
  <2>3. QED
    BY <2>1, <2>2
<1>10. Vacant(w)
  <2>1. ASSUME NEW c \in Cell, c >= CursorCell(w) PROVE w.cells[c] = Blank
    <3>1. c \in Int
      BY DEF Cell
    <3>2. c > b + t.x
      BY <1>1, <1>9, <2>1, <3>1
    <3>3. QED
      BY <1>6, <1>9, <3>2
  <2>2. QED
    BY <2>1 DEF Vacant
<1>11. Vacant(Scroll(w))
  BY <1>8, <1>10, ScrolledVacant
<1>12. Good(Scroll(w)) /\ Scroll(w).ansi_state = "NORMAL" /\ Scroll(w).x = w.x
  BY <1>8, ScrollBrings
<1>13. QED
  BY <1>3, <1>9, <1>11, <1>12

\* The terminal waits at the beginning of an empty row, with empty rows below.
AtRow(t) == Good(t) /\ t.ansi_state = "NORMAL" /\ t.x = 0 /\ Vacant(t)

\* Whole lines leave the cursor at the beginning of an empty row.
LEMMA LinesTidy ==
  ASSUME NEW t, AtRow(t), NEW s, Lines(s)
  PROVE  AtRow(Puts(t, s))
<1>1. Len(s) \in Nat /\ Len(s) \in 1 .. Len(s)
  BY DEF Lines
<1>2. PICK w : Follows(w, t, s) /\ Puts(t, s) = w[Len(s)]
  BY <1>1, PutsSteps
<1> DEFINE P(k) == Good(w[k]) /\ w[k].ansi_state = "NORMAL" /\ Vacant(w[k])
           T == {k \in 0 .. Len(s) : ~P(k)}
<1>3. ASSUME NEW m \in 1 .. Len(s), P(m - 1)
      PROVE  P(m) /\ (s[m] = "NL" => w[m].x = 0)
  <2>1. w[m] = Render(w[m - 1], s[m])
    BY <1>2 DEF Follows
  <2>2. s[m] \notin {"ESC", "CR", "BS"}
    BY DEF Lines
  <2>3. QED
    BY <1>3, <2>1, <2>2, PlainByte
<1>4. T = {}
  <2>1. SUFFICES ASSUME T # {} PROVE FALSE
    OBVIOUS
  <2>2. T \in SUBSET Nat
    BY <1>1
  <2>3. PICK m \in T : \A k \in T : m <= k
    <3> HIDE DEF T
    <3>1. QED
      BY <2>1, <2>2, LeastNatural
  <2>4. P(0)
    BY <1>2 DEF Follows, AtRow
  <2>5. m # 0
    <3> HIDE DEF P
    <3>1. QED
      BY <2>4
  <2>6. m \in 1 .. Len(s) /\ m - 1 \in 0 .. Len(s) /\ ~(m <= m - 1)
    BY <1>1, <2>5
  <2>7. P(m - 1)
    <3> HIDE DEF P
    <3>1. QED
      BY <2>3, <2>6
  <2>8. P(m)
    <3> HIDE DEF P
    <3>1. QED
      BY <1>3, <2>6, <2>7
  <2>9. QED
    <3> HIDE DEF P
    <3>1. QED
      BY <2>8
<1>5. P(Len(s)) /\ w[Len(s)].x = 0
  <2>1. P(Len(s)) /\ P(Len(s) - 1)
    <3>1. Len(s) \in 0 .. Len(s) /\ Len(s) - 1 \in 0 .. Len(s)
      BY <1>1
    <3> HIDE DEF P
    <3>2. QED
      BY <1>4, <3>1
  <2>2. s[Len(s)] = "NL"
    BY DEF Lines
  <2>3. QED
    <3> HIDE DEF P
    <3>1. QED
      BY <1>1, <1>3, <2>1, <2>2
<1>6. QED
  BY <1>2, <1>5 DEF AtRow

\* So does clearing the screen and moving home.
LEMMA ClearTidy ==
  ASSUME NEW t, AtRow(t)
  PROVE  AtRow(Puts(t, <<"ESC", "[", "2", "J", "ESC", "[", "H">>))
<1>1. PICK S : S = {"ESC", "[", "2", "J", "H"}
  OBVIOUS
<1>2. PICK a, b : a = <<"ESC", "[", "2", "J">> /\ b = <<"ESC", "[", "H">>
  OBVIOUS
<1>3. a \in Seq(S) /\ b \in Seq(S)
  BY <1>1, <1>2
<1>4. a \o b = <<"ESC", "[", "2", "J", "ESC", "[", "H">>
  <2>1. PICK d, e : d = a \o b /\ e = <<"ESC", "[", "2", "J", "ESC", "[", "H">>
    OBVIOUS
  <2>2. e \in Seq(S) /\ Len(e) = 7
    BY <1>1, <2>1
  <2>3. Len(a) = 4 /\ Len(b) = 3
    BY <1>2
  <2>4. /\ d \in Seq(S) /\ Len(d) = Len(a) + Len(b)
        /\ \A i \in 1 .. Len(a) + Len(b) : d[i] = IF i <= Len(a) THEN a[i] ELSE b[i - Len(a)]
    BY <1>3, <2>1, ConcatProperties
  <2>5. /\ d[1] = a[1] /\ d[2] = a[2] /\ d[3] = a[3] /\ d[4] = a[4]
        /\ d[5] = b[1] /\ d[6] = b[2] /\ d[7] = b[3]
    BY <2>3, <2>4
  <2>6. /\ d[1] = e[1] /\ d[2] = e[2] /\ d[3] = e[3] /\ d[4] = e[4]
        /\ d[5] = e[5] /\ d[6] = e[6] /\ d[7] = e[7]
    BY <1>2, <2>1, <2>5
  <2>7. Len(d) = Len(e) /\ \A i \in 1 .. Len(d) : d[i] = e[i]
    <3>1. \A i \in 1 .. 7 : i = 1 \/ i = 2 \/ i = 3 \/ i = 4 \/ i = 5 \/ i = 6 \/ i = 7
      OBVIOUS
    <3>2. Len(d) = 7
      BY <2>3, <2>4
    <3>3. QED
      BY <2>2, <2>6, <3>1, <3>2
  <2>8. d = e
    BY <2>2, <2>4, <2>7, SeqEqual
  <2>9. QED
    BY <2>1, <2>8
<1>5. PICK c, h : c = Puts(t, a) /\ h = Puts(c, b)
  OBVIOUS
<1>6. Puts(t, a \o b) = h
  BY <1>3, <1>5, PutsConcat
<1>7. Good(c) /\ c.ansi_state = "NORMAL" /\ \A k \in Cell : c.cells[k] = Blank
  BY <1>2, <1>5, ClearSequence DEF AtRow
<1>8. Good(h) /\ h.ansi_state = "NORMAL" /\ h.x = 0 /\ h.cells = c.cells
  BY <1>2, <1>5, <1>7, HomeSequence
<1>9. AtRow(h)
  BY <1>7, <1>8 DEF AtRow, Vacant
<1>10. QED
  BY <1>4, <1>6, <1>9

\* Whatever it prints of these, a command hands over an empty row.
LEMMA OutputTidy ==
  ASSUME NEW t, AtRow(t), NEW s, Tidy(s)
  PROVE  AtRow(Puts(t, s))
<1>1. CASE s = <<>>
  BY <1>1, PutsNone
<1>2. CASE s = <<"ESC", "[", "2", "J", "ESC", "[", "H">>
  BY <1>2, ClearTidy
<1>3. CASE Lines(s)
  BY <1>3, LinesTidy
<1>4. QED
  BY <1>1, <1>2, <1>3 DEF Tidy

-----------------------------------------------------------------------------
(* The line on the screen                                                  *)

\* The prompt is printed on an empty row.
LEMMA PromptShows ==
  ASSUME NEW Chars, Chars \cap Control = {}, Prompt \in Seq(Chars), NEW t, AtRow(t)
  PROVE  /\ Showing(Puts(t, Prompt), ShellText(<<>>), Len(Prompt), Len(Prompt))
         /\ Puts(t, Prompt).x = Len(Prompt)
<1>1. PICK s, l : l = <<>> /\ s = ShellText(l)
  OBVIOUS
<1>2. l \in Seq(Chars) /\ Len(l) = 0
  BY <1>1
<1>3. /\ Len(Prompt) \in Nat
      /\ \A i \in 1 .. Len(Prompt) : s[i] = Prompt[i] /\ Prompt[i] \in Chars
  <2>1. \A i \in 1 .. Len(Prompt) : ShellText(l)[i] = Prompt[i] /\ Prompt[i] \in Chars
    BY <1>2, TextFacts
  <2>2. QED
    BY <1>1, <2>1
<1>4. Showing(t, s, 0, 0)
  BY VacantRow DEF AtRow
<1>5. Showing(t, s, 0, Len(Prompt))
  <2>1. 0 \in Nat /\ 0 <= Len(Prompt) /\ 0 <= 0 /\ \A i \in 1 .. 0 : s[i] = s[i]
    BY <1>3
  <2>2. QED
    BY <1>3, <1>4, <2>1, ShowingOther
<1>6. Continues(Prompt, s, 0)
  <2>1. \A i \in 1 .. Len(Prompt) : 0 + i = i
    BY <1>3
  <2>2. QED
    BY <1>3, <2>1 DEF Continues
<1>7. 0 + Len(Prompt) = Len(Prompt) /\ Len(Prompt) < Columns
  BY <1>3, LineEditorAssumption, ScreenAssumption
<1>8. Ready(t, s, 0, Len(Prompt), Prompt)
  <2>1. 0 \in Nat /\ Len(Prompt) <= Len(Prompt)
    BY <1>3
  <2>2. t.x = 0
    BY DEF AtRow
  <2>3. QED
    BY <1>3, <1>5, <1>6, <1>7, <2>1, <2>2 DEF Ready
<1>9. /\ Showing(Puts(t, Prompt), s, 0 + Len(Prompt), Len(Prompt))
      /\ Puts(t, Prompt).x = 0 + Len(Prompt)
  BY <1>8, TypeText
<1>10. QED
  BY <1>1, <1>7, <1>9

\* While the shell waits for a key the row shows the prompt and the line, nothing
\* stands behind it or below, and the cursor is where the editor takes it to be.
LineOnScreen ==
  /\ Showing(tty, ShellText(line), Len(Prompt) + Len(line), Len(Prompt) + Len(line))
  /\ tty.x = Len(Prompt) + cursor

\* The characters of the prompt take one cell each, and so do those of the keys
\* that are no control characters.
Ordinary(Chars, Bytes) ==
  /\ Chars \cap Control = {} /\ Prompt \in Seq(Chars) /\ Keys \ Control \subseteq Chars
  /\ Outputs \subseteq Seq(Bytes)

\* A line that fits its row.
LEMMA LineFits ==
  ASSUME NEW Chars, NEW Bytes, Ordinary(Chars, Bytes), NEW l \in Seq(Keys), OnOneRow(l)
  PROVE  /\ l \in Seq(Chars) /\ Len(l) \in Nat /\ Len(Prompt) \in Nat
         /\ Len(Prompt) + Len(l) \in Nat /\ Len(Prompt) + Len(l) < Columns
<1>1. Len(l) \in Nat /\ l \in [1 .. Len(l) -> Keys]
  OBVIOUS
<1>2. \A i \in 1 .. Len(l) : l[i] \in Chars
  BY <1>1 DEF Ordinary, OnOneRow
<1>3. l \in [1 .. Len(l) -> Chars]
  BY <1>1, <1>2
<1>4. l \in Seq(Chars)
  BY <1>1, <1>3
<1>5. Len(Prompt) \in Nat
  BY DEF Ordinary
<1>6. QED
  BY <1>1, <1>4, <1>5 DEF OnOneRow

\* A character that is inserted behind the line.
LEMMA InsertedEnd ==
  ASSUME NEW S, NEW l \in Seq(S), NEW ch \in S
  PROVE  /\ \A i \in 1 .. Len(l) : Inserted(l, Len(l), ch)[i] = l[i]
         /\ Inserted(l, Len(l), ch)[Len(l) + 1] = ch
<1>1. Len(l) \in Nat
  OBVIOUS
<1>2. SubSeq(l, 1, Len(l)) = l /\ SubSeq(l, Len(l) + 1, Len(l)) = <<>>
  BY <1>1, SubSeqFull, SubSeqEmpty
<1>3. PICK d : d = <<ch>>
  OBVIOUS
<1>4. d \in Seq(S) /\ Len(d) = 1 /\ d[1] = ch
  BY <1>3
<1>5. PICK e : e = l \o d
  OBVIOUS
<1>6. /\ e \in Seq(S) /\ Len(e) = Len(l) + Len(d)
      /\ \A i \in 1 .. Len(l) + Len(d) : e[i] = IF i <= Len(l) THEN l[i] ELSE d[i - Len(l)]
  BY <1>4, <1>5, ConcatProperties
<1>7. e \o <<>> = e
  BY <1>6, ConcatEmptySeq
<1>8. Inserted(l, Len(l), ch) = e
  BY <1>2, <1>3, <1>5, <1>7, Zenon DEF Inserted
<1>9. \A i \in 1 .. Len(l) : e[i] = l[i]
  BY <1>1, <1>4, <1>6
<1>10. e[Len(l) + 1] = ch
  <2>1. Len(l) + 1 \in 1 .. Len(l) + Len(d) /\ ~(Len(l) + 1 <= Len(l)) /\ (Len(l) + 1) - Len(l) = 1
    BY <1>1, <1>4
  <2>2. e[Len(l) + 1] = d[(Len(l) + 1) - Len(l)]
    BY <1>6, <2>1, Zenon
  <2>3. QED
    BY <1>4, <2>1, <2>2
<1>11. QED
  BY <1>8, <1>9, <1>10

\* The echo of a character typed behind the line.
LEMMA EchoShows ==
  ASSUME NEW Chars, NEW Bytes, Ordinary(Chars, Bytes),
         NEW l \in Seq(Keys), NEW ch \in Keys, OnOneRow(l), OnOneRow(Inserted(l, Len(l), ch)),
         NEW t,
         Showing(t, ShellText(l), Len(Prompt) + Len(l), Len(Prompt) + Len(l)),
         t.x = Len(Prompt) + Len(l)
  PROVE  LET k == Inserted(l, Len(l), ch)
             u == Puts(t, <<ch>>)
         IN /\ Showing(u, ShellText(k), Len(Prompt) + Len(k), Len(Prompt) + Len(k))
            /\ u.x = Len(Prompt) + (Len(l) + 1)
<1>1. PICK k : k = Inserted(l, Len(l), ch)
  OBVIOUS
<1>2. Len(l) \in Nat
  OBVIOUS
<1>3. k \in Seq(Keys) /\ Len(k) = Len(l) + 1
  <2>1. Len(l) \in 0 .. Len(l)
    BY <1>2
  <2>2. QED
    BY <1>1, <2>1, EditFacts
<1>4. (\A i \in 1 .. Len(l) : k[i] = l[i]) /\ k[Len(l) + 1] = ch
  BY <1>1, InsertedEnd
<1>5. /\ k \in Seq(Chars) /\ Len(k) \in Nat /\ Len(Prompt) \in Nat
      /\ Len(Prompt) + Len(k) < Columns
  BY <1>1, <1>3, LineFits
<1>6. l \in Seq(Chars) /\ Prompt \in Seq(Chars) /\ ch \in Chars /\ ch \notin Control
  <2>1. l \in Seq(Chars) /\ Prompt \in Seq(Chars)
    BY LineFits DEF Ordinary
  <2>2. Len(l) + 1 \in 1 .. Len(k)
    BY <1>2, <1>3
  <2>3. ch \in Chars /\ ch \notin Control
    <3>1. k[Len(l) + 1] \in Chars
      BY <1>5, <2>2
    <3>2. QED
      BY <1>4, <3>1 DEF Ordinary
  <2>4. QED
    BY <2>1, <2>3
<1>7. PICK a, b : a = ShellText(l) /\ b = ShellText(k)
  OBVIOUS
<1>8. /\ \A i \in 1 .. Len(Prompt) : a[i] = Prompt[i]
      /\ \A i \in 1 .. Len(l) : a[Len(Prompt) + i] = l[i]
  <2>1. /\ \A i \in 1 .. Len(Prompt) : ShellText(l)[i] = Prompt[i]
        /\ \A i \in 1 .. Len(l) : ShellText(l)[Len(Prompt) + i] = l[i]
    BY <1>6, TextFacts
  <2>2. QED
    BY <1>7, <2>1
<1>9. /\ \A i \in 1 .. Len(Prompt) : b[i] = Prompt[i]
      /\ \A i \in 1 .. Len(k) : b[Len(Prompt) + i] = k[i]
  <2>1. /\ \A i \in 1 .. Len(Prompt) : ShellText(k)[i] = Prompt[i]
        /\ \A i \in 1 .. Len(k) : ShellText(k)[Len(Prompt) + i] = k[i]
    BY <1>5, <1>6, TextFacts
  <2>2. QED
    BY <1>7, <2>1
<1>10. PICK p, m : p = Len(Prompt) /\ m = Len(Prompt) + Len(l)
  OBVIOUS
<1>11. p \in Nat /\ m \in Nat /\ m + 1 \in Nat /\ m + 1 < Columns /\ m <= m + 1 /\ m <= m
       /\ m + 1 = Len(Prompt) + Len(k) /\ m + 1 = Len(Prompt) + (Len(l) + 1)
  BY <1>2, <1>3, <1>5, <1>10
<1>12. \A i \in 1 .. m : b[i] = a[i]
  <2>1. ASSUME NEW i \in 1 .. m PROVE b[i] = a[i]
    <3>1. CASE i <= p
      <4>1. i \in 1 .. Len(Prompt)
        BY <1>10, <1>11, <3>1
      <4>2. QED
        BY <1>8, <1>9, <4>1
    <3>2. CASE ~(i <= p)
      <4>1. PICK j : j = i - p
        OBVIOUS
      <4>2. j \in 1 .. Len(l) /\ j \in 1 .. Len(k) /\ i = Len(Prompt) + j
        BY <1>2, <1>3, <1>10, <1>11, <3>2, <4>1
      <4>3. QED
        BY <1>4, <1>8, <1>9, <4>2
    <3>3. QED
      BY <3>1, <3>2
  <2>2. QED
    BY <2>1
<1>13. Showing(t, b, m, m + 1)
  BY <1>7, <1>10, <1>11, <1>12, ShowingOther
<1>14. b[m + 1] = ch
  <2>1. Len(l) + 1 \in 1 .. Len(k)
    BY <1>2, <1>3
  <2>2. b[Len(Prompt) + (Len(l) + 1)] = k[Len(l) + 1]
    BY <1>9, <2>1, Zenon
  <2>3. QED
    BY <1>4, <1>11, <2>2
<1>15. Showing(Render(t, b[m + 1]), b, m + 1, m + 1) /\ Render(t, b[m + 1]).x = m + 1
  <2>1. t.x = m /\ m + 1 <= m + 1 /\ b[m + 1] \notin Control
    BY <1>6, <1>10, <1>11, <1>14
  <2>2. QED
    BY <1>11, <1>13, <2>1, TypeChar
<1>16. Puts(t, <<ch>>) = Render(t, b[m + 1])
  BY <1>14, PutsOne
<1>17. QED
  BY <1>1, <1>7, <1>11, <1>15, <1>16

\* What a terminal that is in order is given keeps it in order.
LEMMA PutsGood ==
  ASSUME NEW t, Good(t), NEW s, Len(s) \in Nat
  PROVE  Good(Puts(t, s))
<1>1. PICK w : Follows(w, t, s) /\ Puts(t, s) = w[Len(s)]
  BY PutsSteps
<1> DEFINE T == {k \in 0 .. Len(s) : ~Good(w[k])}
<1>2. T = {}
  <2>1. SUFFICES ASSUME T # {} PROVE FALSE
    OBVIOUS
  <2>2. T \in SUBSET Nat
    OBVIOUS
  <2>3. PICK m \in T : \A k \in T : m <= k
    <3> HIDE DEF T
    <3>1. QED
      BY <2>1, <2>2, LeastNatural
  <2>4. Good(w[0])
    BY <1>1 DEF Follows
  <2>5. m # 0
    BY <2>4
  <2>6. m \in 1 .. Len(s) /\ m - 1 \in 0 .. Len(s) /\ ~(m <= m - 1)
    BY <2>5
  <2>7. Good(w[m - 1])
    BY <2>3, <2>6
  <2>8. w[m] = Render(w[m - 1], s[m])
    BY <1>1, <2>6 DEF Follows
  <2>9. Good(w[m])
    BY <2>7, <2>8, RenderGood
  <2>10. QED
    BY <2>9
<1>3. Len(s) \in 0 .. Len(s)
  OBVIOUS
<1>4. QED
  BY <1>1, <1>2, <1>3

\* A newline and what an ordinary command prints.
LEMMA CommandEnds ==
  ASSUME NEW t, NEW text, NEW n \in Nat, NEW e \in Nat, e <= Columns, Showing(t, text, n, e),
         NEW output, Tidy(output)
  PROVE  AtRow(Puts(Puts(t, <<"NL">>), output))
<1>1. PICK p : p = Puts(t, <<"NL">>)
  OBVIOUS
<1>2. p = Render(t, "NL")
  BY <1>1, PutsOne
<1>3. AtRow(p)
  BY <1>2, NewlineShows DEF AtRow
<1>4. QED
  BY <1>1, <1>3, OutputTidy

\* A redrawn line is on the screen.
LEMMA RedrawnOnScreen ==
  ASSUME NEW Chars, NEW Bytes, Ordinary(Chars, Bytes), EditInv, LineOnScreen, EditInv',
         OnOneRow(line), OnOneRow(line'), tty' = Redraw(tty, line', cursor')
  PROVE  LineOnScreen'
<1>1. PICK l, c, t : l = line' /\ c = cursor' /\ t = tty'
  OBVIOUS
<1>2. l \in Seq(Keys) /\ c \in 0 .. Len(l) /\ OnOneRow(l)
  BY <1>1 DEF EditInv
<1>3. l \in Seq(Chars) /\ Len(Prompt) + Len(l) < Columns
  BY <1>2, LineFits
<1>4. Chars \cap Control = {} /\ Prompt \in Seq(Chars)
  BY DEF Ordinary
<1>5. PICK m : m = Len(Prompt) + Len(line)
  OBVIOUS
<1>6. m \in Nat /\ m <= Columns /\ Showing(tty, ShellText(line), m, m)
  <2>1. m \in Nat /\ m < Columns
    BY <1>5, LineFits DEF EditInv
  <2>2. m <= Columns
    BY <2>1, ScreenAssumption
  <2>3. QED
    BY <1>5, <2>1, <2>2 DEF LineOnScreen
<1>7. /\ Showing(Redraw(tty, l, c), ShellText(l), Len(Prompt) + Len(l), Len(Prompt) + Len(l))
      /\ Redraw(tty, l, c).x = Len(Prompt) + c
  BY <1>2, <1>3, <1>4, <1>6, RedrawShows
<1>8. /\ Showing(t, ShellText(l), Len(Prompt) + Len(l), Len(Prompt) + Len(l))
      /\ t.x = Len(Prompt) + c
  BY <1>1, <1>7
<1>9. QED
  BY <1>1, <1>8 DEF LineOnScreen

\* The terminal is in order, and the row on the screen is the line while it fits.
ScreenInv == Good(tty) /\ (one_row => OnOneRow(line) /\ LineOnScreen)

\* A key that keeps the line on its row keeps the row on the screen the same.
LEMMA KeyStep ==
  ASSUME NEW Chars, NEW Bytes, Ordinary(Chars, Bytes), EditInv, LineOnScreen,
         OnOneRow(line), OnOneRow(line'),
         \/ \E ch \in Keys : Insert(ch)
         \/ Backspace \/ Up \/ Down \/ Left \/ Right
  PROVE  LineOnScreen'
<1>0. EditInv'
  BY EditStep DEF EditorNext
<1>1. PICK m, p : m = Len(Prompt) + Len(line) /\ p = Len(Prompt)
  OBVIOUS
<1>2. /\ m \in Nat /\ m < Columns /\ p \in Nat /\ Len(line) \in Nat /\ cursor \in Nat
      /\ cursor <= Len(line) /\ Columns \in Nat
  <2>1. m \in Nat /\ m < Columns /\ p \in Nat /\ Len(line) \in Nat
    BY <1>1, LineFits DEF EditInv
  <2>2. cursor \in Nat /\ cursor <= Len(line) /\ Columns \in Nat
    BY <2>1, ScreenAssumption DEF EditInv
  <2>3. QED
    BY <2>1, <2>2
<1>3. Showing(tty, ShellText(line), m, m) /\ tty.x = p + cursor
  BY <1>1 DEF LineOnScreen
<1>4. Good(tty) /\ tty.ansi_state = "NORMAL"
  BY <1>3 DEF Showing
<1>5. ASSUME NEW ch \in Keys, Insert(ch) PROVE LineOnScreen'
  <2>1. /\ line' = Inserted(line, cursor, ch) /\ cursor' = cursor + 1
        /\ tty' = Echo(tty, line, cursor, ch)
    BY <1>5 DEF Insert
  <2>2. CASE cursor = Len(line)
    <3>1. tty' = Puts(tty, <<ch>>)
      BY <2>1, <2>2 DEF Echo
    <3>2. PICK k, u : k = Inserted(line, Len(line), ch) /\ u = Puts(tty, <<ch>>)
      OBVIOUS
    <3>3. Showing(u, ShellText(k), Len(Prompt) + Len(k), Len(Prompt) + Len(k))
          /\ u.x = Len(Prompt) + (Len(line) + 1)
      <4>1. line \in Seq(Keys) /\ tty.x = Len(Prompt) + Len(line)
        BY <1>1, <1>3, <2>2 DEF EditInv
      <4>2. Showing(tty, ShellText(line), Len(Prompt) + Len(line), Len(Prompt) + Len(line))
        BY DEF LineOnScreen
      <4>3. QED
        BY <2>1, <2>2, <3>2, <4>1, <4>2, EchoShows
    <3>4. line' = k /\ tty' = u /\ cursor' = Len(line) + 1
      BY <2>1, <2>2, <3>1, <3>2
    <3>5. QED
      BY <3>3, <3>4 DEF LineOnScreen
  <2>3. CASE cursor # Len(line)
    <3>1. tty' = Redraw(tty, line', cursor')
      BY <2>1, <2>3 DEF Echo
    <3>2. QED
      BY <1>0, <3>1, RedrawnOnScreen
  <2>4. QED
    BY <2>2, <2>3
<1>6. CASE Backspace
  BY <1>0, <1>6, RedrawnOnScreen DEF Backspace
<1>7. ASSUME NEW n, Recall(n) PROVE LineOnScreen'
  BY <1>0, <1>7, RedrawnOnScreen DEF Recall
<1>8. CASE Left
  <2>1. cursor > 0 /\ cursor' = cursor - 1 /\ tty' = Puts(tty, <<"ESC", "[", "D">>) /\ line' = line
    BY <1>8 DEF Left
  <2>2. PICK s : s = [tty EXCEPT !.ansi_state = "CSI", !.param_count = 0, !.current = 0]
    OBVIOUS
  <2>3. tty' = Render(s, "D")
    BY <1>4, <2>1, <2>2, ShortSequence
  <2>4. OneBased(0) = 1 /\ OneBased(0) <= tty.x /\ 0 \in Word /\ tty.x - 1 = p + (cursor - 1)
    <3>1. OneBased(0) = 1
      BY DEF OneBased
    <3>2. QED
      BY <1>2, <1>3, <2>1, <3>1, ParamFacts
  <2>5. PICK u : u = Render(s, "D")
    OBVIOUS
  <2>6. /\ Good(u) /\ u.ansi_state = "NORMAL" /\ u.y = tty.y /\ u.cells = tty.cells
        /\ u.x = tty.x - 1
    <3>1. Good(tty) /\ 0 \in Word /\ OneBased(0) <= tty.x
      BY <1>4, <2>4
    <3>2. AtColumn(Render(s, "D"), tty, tty.x - OneBased(0))
      BY ONLY <2>2, <3>1, MovedLeft
    <3>3. OneBased(0) = 1
      BY <2>4
    <3>4. QED
      BY ONLY <2>5, <3>2, <3>3 DEF AtColumn
  <2>7. Showing(u, ShellText(line), m, m)
    BY <1>3, <2>6, SameView
  <2>8. QED
    BY <1>1, <2>1, <2>3, <2>4, <2>5, <2>6, <2>7 DEF LineOnScreen
<1>9. CASE Right
  <2>1. cursor < Len(line) /\ cursor' = cursor + 1 /\ tty' = Puts(tty, <<"ESC", "[", "C">>)
        /\ line' = line
    BY <1>9 DEF Right
  <2>2. PICK s : s = [tty EXCEPT !.ansi_state = "CSI", !.param_count = 0, !.current = 0]
    OBVIOUS
  <2>3. tty' = Render(s, "C")
    BY <1>4, <2>1, <2>2, ShortSequence
  <2>4. tty.x + 1 < Columns /\ tty.x + 1 = p + (cursor + 1)
    BY <1>1, <1>2, <1>3, <2>1
  <2>5. PICK u : u = Render(s, "C")
    OBVIOUS
  <2>6. /\ Good(u) /\ u.ansi_state = "NORMAL" /\ u.y = tty.y /\ u.cells = tty.cells
        /\ u.x = tty.x + 1
    <3>1. Good(tty) /\ tty.x + 1 < Columns
      BY <1>4, <2>4
    <3>2. AtColumn(Render(s, "C"), tty, tty.x + 1)
      BY ONLY <2>2, <3>1, MovedRight
    <3>3. QED
      BY ONLY <2>5, <3>2 DEF AtColumn
  <2>7. Showing(u, ShellText(line), m, m)
    BY <1>3, <2>6, SameView
  <2>8. QED
    BY <1>1, <2>1, <2>3, <2>4, <2>5, <2>6, <2>7 DEF LineOnScreen
<1>10. QED
  BY <1>5, <1>6, <1>7, <1>8, <1>9 DEF Up, Down

\* The prompt that the shell prints on an empty row is on the screen.
LEMMA PromptOnScreen ==
  ASSUME NEW Chars, NEW Bytes, Ordinary(Chars, Bytes), NEW t, AtRow(t),
         tty' = Puts(t, Prompt), line' = <<>>, cursor' = 0
  PROVE  OnOneRow(line') /\ LineOnScreen'
<1>1. Chars \cap Control = {} /\ Prompt \in Seq(Chars) /\ Len(Prompt) \in Nat
  BY DEF Ordinary
<1>2. PICK u : u = Puts(t, Prompt)
  OBVIOUS
<1>3. Showing(u, ShellText(<<>>), Len(Prompt), Len(Prompt)) /\ u.x = Len(Prompt)
  BY <1>1, <1>2, PromptShows
<1>4. Len(line') = 0 /\ Len(Prompt) + 0 = Len(Prompt) /\ tty' = u
  BY <1>1, <1>2
<1>5. LineOnScreen'
  BY <1>3, <1>4 DEF LineOnScreen
<1>6. OnOneRow(line')
  BY <1>1, <1>4, LineEditorAssumption, ScreenAssumption DEF OnOneRow
<1>7. QED
  BY <1>5, <1>6

\* Enter hands the row to a command, which may leave an empty one for the prompt.
LEMMA EnterStep ==
  ASSUME NEW Chars, NEW Bytes, Ordinary(Chars, Bytes), EditInv, ScreenInv,
         NEW output \in Outputs, Enter(output)
  PROVE  ScreenInv'
<1>1. PICK left : left = Puts(Puts(tty, <<"NL">>), output)
  OBVIOUS
<1>2. /\ tty' = Puts(left, Prompt) /\ line' = <<>> /\ cursor' = 0
      /\ one_row' = ((one_row /\ Tidy(output)) \/ EmptyRow(left))
  BY <1>1 DEF Enter
<1>3. Len(<<"NL">>) \in Nat /\ Len(output) \in Nat /\ Len(Prompt) \in Nat
  BY DEF Ordinary
<1>4. Good(left)
  <2>1. Good(tty)
    BY DEF ScreenInv
  <2>2. Good(Puts(tty, <<"NL">>))
    BY <1>3, <2>1, PutsGood
  <2>3. QED
    BY <1>1, <1>3, <2>2, PutsGood
<1>5. Good(tty')
  <2>1. Good(Puts(left, Prompt))
    BY <1>3, <1>4, PutsGood
  <2>2. QED
    BY <1>2, <2>1
<1>6. ASSUME one_row' PROVE AtRow(left)
  <2>1. CASE one_row /\ Tidy(output)
    <3>1. LineOnScreen /\ OnOneRow(line) /\ line \in Seq(Keys)
      BY <2>1 DEF ScreenInv, EditInv
    <3>2. PICK m : m = Len(Prompt) + Len(line)
      OBVIOUS
    <3>3. m \in Nat /\ m <= Columns
      BY <3>1, <3>2, LineFits, ScreenAssumption
    <3>4. Showing(tty, ShellText(line), m, m)
      BY <3>1, <3>2 DEF LineOnScreen
    <3>5. QED
      BY <1>1, <2>1, <3>3, <3>4, CommandEnds
  <2>2. CASE EmptyRow(left)
    BY <1>4, <2>2 DEF EmptyRow, AtRow, Vacant
  <2>3. QED
    BY <1>2, <1>6, <2>1, <2>2
<1>7. ASSUME one_row' PROVE OnOneRow(line') /\ LineOnScreen'
  BY <1>2, <1>6, <1>7, PromptOnScreen
<1>8. QED
  BY <1>5, <1>7 DEF ScreenInv, Good

\* Redrawing a line, also one that does not fit its row, keeps the terminal in order.
LEMMA RedrawGood ==
  ASSUME NEW t, Good(t), NEW Chars, Prompt \in Seq(Chars), NEW l \in Seq(Keys), NEW c \in Nat,
         Len(l) < LineMax
  PROVE  Good(Redraw(t, l, c))
<1>1. PICK S : S = Chars \cup Keys \cup DigitChars \cup {"CR", "ESC", "[", "K", "D"}
  OBVIOUS
<1>2. Prompt \in Seq(S) /\ l \in Seq(S)
  <2>1. Chars \subseteq S /\ Keys \subseteq S
    BY <1>1
  <2>2. QED
    BY <2>1, SeqMonotonic
<1>3. <<"CR">> \in Seq(S) /\ <<"ESC", "[", "K">> \in Seq(S)
  <2>1. "CR" \in S /\ "ESC" \in S /\ "[" \in S /\ "K" \in S
    BY <1>1
  <2>2. QED
    BY <2>1
<1>4. PICK a : a = <<"CR">> \o Prompt \o l \o <<"ESC", "[", "K">>
  OBVIOUS
<1>5. Len(a) \in Nat
  <2>1. a \in Seq(S)
    BY <1>2, <1>3, <1>4
  <2>2. QED
    BY <2>1
<1>6. PICK u : u = Puts(t, a)
  OBVIOUS
<1>7. Good(u)
  BY <1>5, <1>6, PutsGood
<1>8. CASE c < Len(l)
  <2>1. PICK n : n = Len(l) - c
    OBVIOUS
  <2>2. n \in Nat /\ n < WordSize
    BY <1>8, <2>1, LineEditorAssumption, ScreenAssumption
  <2>3. Decimal(n) \in Seq(S)
    <3>1. Decimal(n) \in Seq(DigitChars) /\ DigitChars \subseteq S
      BY <1>1, <2>2, DecimalRead
    <3>2. QED
      BY <3>1, SeqMonotonic
  <2>4. <<"ESC", "[">> \in Seq(S) /\ <<"D">> \in Seq(S)
    <3>1. "ESC" \in S /\ "[" \in S /\ "D" \in S
      BY <1>1
    <3>2. QED
      BY <3>1
  <2>5. PICK b : b = <<"ESC", "[">> \o Decimal(n) \o <<"D">>
    OBVIOUS
  <2>6. b \in Seq(S)
    BY <2>3, <2>4, <2>5
  <2>7. Len(b) \in Nat
    BY <2>6
  <2>8. Good(Puts(u, b))
    BY <1>7, <2>7, PutsGood
  <2>9. Redraw(t, l, c) = Puts(u, b)
    BY <1>4, <1>6, <1>8, <2>1, <2>5, Zenon DEF Redraw
  <2>10. QED
    BY <2>8, <2>9
<1>9. CASE ~(c < Len(l))
  <2>1. Redraw(t, l, c) = u
    BY <1>4, <1>6, <1>9, Zenon DEF Redraw
  <2>2. QED
    BY <1>7, <2>1
<1>10. QED
  BY <1>8, <1>9

\* Every key keeps the terminal in order.
LEMMA KeyGood ==
  ASSUME NEW Chars, NEW Bytes, Ordinary(Chars, Bytes), EditInv, EditInv', Good(tty),
         \/ \E ch \in Keys : Insert(ch)
         \/ Backspace \/ Up \/ Down \/ Left \/ Right
  PROVE  Good(tty')
<1>1. Prompt \in Seq(Chars)
  BY DEF Ordinary
<1>2. ASSUME tty' = Redraw(tty, line', cursor') PROVE Good(tty')
  <2>1. PICK l, c, t : l = line' /\ c = cursor' /\ t = tty'
    OBVIOUS
  <2>2. l \in Seq(Keys) /\ c \in Nat /\ Len(l) < LineMax
    BY <2>1 DEF EditInv
  <2>3. Good(Redraw(tty, l, c))
    BY <1>1, <2>2, RedrawGood
  <2>4. t = Redraw(tty, l, c)
    BY <1>2, <2>1
  <2>5. QED
    BY <2>1, <2>3, <2>4
<1>3. ASSUME NEW s, Len(s) \in Nat, tty' = Puts(tty, s) PROVE Good(tty')
  <2>1. Good(Puts(tty, s))
    BY <1>3, PutsGood
  <2>2. QED
    BY <1>3, <2>1
<1>4. ASSUME NEW ch \in Keys, Insert(ch) PROVE Good(tty')
  <2>1. CASE cursor = Len(line)
    <3>1. tty' = Puts(tty, <<ch>>) /\ Len(<<ch>>) \in Nat
      BY <1>4, <2>1 DEF Insert, Echo
    <3>2. QED
      BY <1>3, <3>1
  <2>2. CASE cursor # Len(line)
    <3>1. tty' = Redraw(tty, line', cursor')
      BY <1>4, <2>2 DEF Insert, Echo
    <3>2. QED
      BY <1>2, <3>1
  <2>3. QED
    BY <2>1, <2>2
<1>5. CASE Backspace
  BY <1>2, <1>5 DEF Backspace
<1>6. CASE Up \/ Down
  BY <1>2, <1>6 DEF Up, Down, Recall
<1>7. CASE Left
  <2>1. tty' = Puts(tty, <<"ESC", "[", "D">>) /\ Len(<<"ESC", "[", "D">>) \in Nat
    BY <1>7 DEF Left
  <2>2. QED
    BY <1>3, <2>1
<1>8. CASE Right
  <2>1. tty' = Puts(tty, <<"ESC", "[", "C">>) /\ Len(<<"ESC", "[", "C">>) \in Nat
    BY <1>8 DEF Right
  <2>2. QED
    BY <1>3, <2>1
<1>9. QED
  BY <1>4, <1>5, <1>6, <1>7, <1>8

\* Every key keeps the invariant.
LEMMA ScreenStep ==
  ASSUME NEW Chars, NEW Bytes, Ordinary(Chars, Bytes), EditInv, ScreenInv,
         [EditorNext]_editorVars
  PROVE  ScreenInv'
<1>1. EditInv' /\ Good(tty)
  BY EditStep DEF ScreenInv
<1>2. CASE \/ \E ch \in Keys : Insert(ch)
           \/ Backspace \/ Up \/ Down \/ Left \/ Right
  <2>1. Good(tty')
    BY <1>1, <1>2, KeyGood
  <2>2. one_row' => one_row /\ OnOneRow(line')
    <3>1. CASE Left \/ Right
      BY <3>1 DEF Left, Right, ScreenInv
    <3>2. CASE (\E ch \in Keys : Insert(ch)) \/ Backspace \/ Up \/ Down
      BY <3>2 DEF Insert, Backspace, Up, Down, Recall
    <3>3. QED
      BY <1>2, <3>1, <3>2
  <2>3. ASSUME one_row' PROVE LineOnScreen'
    BY <1>2, <2>2, <2>3, KeyStep DEF ScreenInv
  <2>4. QED
    BY <2>1, <2>2, <2>3 DEF ScreenInv, Good
<1>3. CASE \E output \in Outputs : Enter(output)
  BY <1>3, EnterStep
<1>4. CASE UNCHANGED editorVars
  BY <1>4 DEF editorVars, editVars, ScreenInv, LineOnScreen
<1>5. QED
  BY <1>2, <1>3, <1>4 DEF EditorNext

\* The row shows the prompt when the shell starts.
LEMMA ScreenInit ==
  ASSUME NEW Chars, NEW Bytes, Ordinary(Chars, Bytes), EditorInit
  PROVE  ScreenInv
<1>1. PICK params \in [0 .. MaxParams - 1 -> Garbage], banner \in Outputs :
        /\ tty = Puts(Puts(NewTty(params), banner), Prompt)
        /\ one_row = (Tidy(banner) \/ EmptyRow(Puts(NewTty(params), banner)))
  BY DEF EditorInit
<1>2. PICK t, left : t = NewTty(params) /\ left = Puts(t, banner)
  OBVIOUS
<1>3. AtRow(t)
  <2>1. Good(t)
    BY <1>2, NewGood
  <2>2. t.ansi_state = "NORMAL" /\ t.x = 0 /\ \A c \in Cell : t.cells[c] = Blank
    BY <1>2 DEF NewTty
  <2>3. QED
    BY <2>1, <2>2 DEF AtRow, Vacant
<1>4. /\ Chars \cap Control = {} /\ Prompt \in Seq(Chars)
      /\ Len(Prompt) \in Nat /\ Len(banner) \in Nat
  BY DEF Ordinary
<1>5. Good(left)
  BY <1>2, <1>3, <1>4, PutsGood DEF AtRow
<1>6. tty = Puts(left, Prompt) /\ one_row = (Tidy(banner) \/ EmptyRow(left))
  BY <1>1, <1>2
<1>7. Good(tty)
  <2>1. Good(Puts(left, Prompt))
    BY <1>4, <1>5, PutsGood
  <2>2. QED
    BY <1>6, <2>1
<1>8. ASSUME one_row PROVE OnOneRow(line) /\ LineOnScreen
  <2>1. AtRow(left)
    <3>1. CASE Tidy(banner)
      BY <1>2, <1>3, <3>1, OutputTidy
    <3>2. CASE EmptyRow(left)
      BY <1>5, <3>2 DEF EmptyRow, AtRow, Vacant
    <3>3. QED
      BY <1>6, <1>8, <3>1, <3>2
  <2>2. Showing(tty, ShellText(<<>>), Len(Prompt), Len(Prompt)) /\ tty.x = Len(Prompt)
    BY <1>4, <1>6, <2>1, PromptShows
  <2>3. line = <<>> /\ cursor = 0 /\ Len(line) = 0 /\ Len(Prompt) + 0 = Len(Prompt)
    BY <1>4 DEF EditorInit
  <2>4. LineOnScreen
    BY <2>2, <2>3 DEF LineOnScreen
  <2>5. OnOneRow(line)
    BY <1>4, <2>3, LineEditorAssumption, ScreenAssumption DEF OnOneRow
  <2>6. QED
    BY <2>4, <2>5
<1>9. QED
  BY <1>7, <1>8 DEF ScreenInv

\* What is on the screen is what LineShown asks for.
LEMMA OnScreenShown ==
  ASSUME NEW Chars, NEW Bytes, Ordinary(Chars, Bytes), EditInv, LineOnScreen, OnOneRow(line)
  PROVE  LineShown
<1>1. PICK b, p, m, s : b = RowStart(tty) /\ p = Len(Prompt) /\ m = Len(Prompt) + Len(line)
                        /\ s = ShellText(line)
  OBVIOUS
<1>2. Showing(tty, s, m, m)
  BY <1>1 DEF LineOnScreen
<1>3. b \in Nat /\ b + Columns <= Rows * Columns /\ Rows * Columns \in Nat /\ Columns \in Nat
  BY <1>1, <1>2, RowFacts, ScreenAssumption DEF Showing
<1>4. line \in Seq(Chars) /\ m \in Nat /\ p \in Nat /\ Len(line) \in Nat
  BY <1>1, LineFits DEF EditInv
<1>5. /\ \A i \in 1 .. Len(Prompt) : s[i] = Prompt[i]
      /\ \A i \in 1 .. Len(line) : s[Len(Prompt) + i] = line[i]
  <2>1. Prompt \in Seq(Chars)
    BY DEF Ordinary
  <2>2. /\ \A i \in 1 .. Len(Prompt) : ShellText(line)[i] = Prompt[i]
        /\ \A i \in 1 .. Len(line) : ShellText(line)[Len(Prompt) + i] = line[i]
    BY <1>4, <2>1, TextFacts
  <2>3. QED
    BY <1>1, <2>2
<1>6. ASSUME NEW i \in 1 .. Columns
      PROVE  RowText(tty)[i] = IF i <= Len(Prompt) THEN Look(Prompt[i])
                               ELSE IF i <= Len(Prompt) + Len(line) THEN Look(line[i - Len(Prompt)])
                               ELSE Blank
  <2>1. PICK c : c = b + (i - 1)
    OBVIOUS
  <2>2. c \in Cell /\ c >= b /\ c - b + 1 = i
    <3>1. c \in Nat /\ c < Rows * Columns /\ c >= b /\ c - b + 1 = i
      BY <1>3, <2>1
    <3>2. QED
      BY <1>3, <3>1 DEF Cell
  <2>3. RowText(tty)[i] = tty.cells[c]
    BY <1>1, <2>1 DEF RowText, RowStart
  <2>4. CASE i <= Len(Prompt)
    <3>1. i \in 1 .. Len(Prompt) /\ c < b + m
      BY <1>1, <1>3, <1>4, <2>1, <2>4
    <3>2. tty.cells[c] = Look(s[i])
      BY <1>1, <1>2, <2>2, <3>1 DEF Showing
    <3>3. QED
      BY <1>5, <2>3, <2>4, <3>1, <3>2
  <2>5. CASE ~(i <= Len(Prompt)) /\ i <= Len(Prompt) + Len(line)
    <3>1. PICK j : j = i - Len(Prompt)
      OBVIOUS
    <3>2. j \in 1 .. Len(line) /\ i = Len(Prompt) + j /\ c < b + m
      <4>1. j \in 1 .. Len(line) /\ i = Len(Prompt) + j
        BY <1>4, <2>5, <3>1
      <4>2. c < b + m
        BY <1>1, <1>3, <1>4, <2>1, <2>5
      <4>3. QED
        BY <4>1, <4>2
    <3>3. tty.cells[c] = Look(s[i])
      BY <1>1, <1>2, <2>2, <3>2 DEF Showing
    <3>4. s[i] = line[j]
      BY <1>5, <3>2
    <3>5. QED
      BY <2>3, <2>5, <3>1, <3>3, <3>4
  <2>6. CASE ~(i <= Len(Prompt)) /\ ~(i <= Len(Prompt) + Len(line))
    <3>1. c >= b + m
      BY <1>1, <1>3, <1>4, <2>1, <2>6
    <3>2. tty.cells[c] = Blank
      BY <1>1, <1>2, <2>2, <3>1 DEF Showing
    <3>3. QED
      BY <2>3, <2>6, <3>2
  <2>7. QED
    BY <2>4, <2>5, <2>6
<1>7. tty.x = Len(Prompt) + cursor
  BY DEF LineOnScreen
<1>8. QED
  BY <1>6, <1>7 DEF LineShown

\* On a screen of any size, with a prompt of characters that take one cell, any keys
\* and any commands, the row of the cursor shows the prompt and the line, and the
\* terminal's cursor stands where the next character is inserted, from a prompt on
\* that begins an empty row until a line does not fit or a command is not tidy.
THEOREM EditorLineShown ==
  ASSUME NEW CONSTANT Chars, NEW CONSTANT Bytes, Ordinary(Chars, Bytes)
  PROVE  EditorSpec => []LineShown
<1>1. EditorInit => EditInv /\ ScreenInv
  BY EditInit, ScreenInit
<1>2. EditInv /\ ScreenInv /\ [EditorNext]_editorVars => (EditInv /\ ScreenInv)'
  BY EditStep, ScreenStep
<1>3. EditInv /\ ScreenInv => LineShown
  <2>1. CASE one_row
    BY <2>1, OnScreenShown DEF ScreenInv
  <2>2. CASE ~one_row
    BY <2>2 DEF LineShown
  <2>3. QED
    BY <2>1, <2>2
<1>4. QED
  BY <1>1, <1>2, <1>3, PTL DEF EditorSpec
=============================================================================
