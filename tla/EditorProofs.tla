---------------------------- MODULE EditorProofs ----------------------------
(***************************************************************************)
(* Theorems about Editor.  The inductive invariant is EditorInv: the       *)
(* screen shows the current version of the text with the cursor on a byte  *)
(* of its page.  It needs Steady: the slips that Editor names for what puts*)
(* the screen out of step are left out, and a page has a percent's worth of*)
(* bytes (Unit) on every layout.  From it follow the types and what the    *)
(* keys do to the text: a version is Exchange of the one before            *)
(* (DataLemmas), from an address on, as long as what the key acted on.     *)
(***************************************************************************)
EXTENDS Editor, DataLemmas, SequenceTheorems

(***************************************************************************)
(* The screen: what its operators keep.                                    *)
(***************************************************************************)
Screens ==
  [file_size : Nat, page_start : Int, page_end : Int, cursor_addr : Int, select : Int,
   hex_cols : Nat, hex_lines : Nat, crashed : BOOLEAN]

\* u has these fields
Fields(u, size, start, end, cursor, select, cols, lines, crashed) ==
  /\ u \in Screens
  /\ u.file_size = size /\ u.page_start = start /\ u.page_end = end
  /\ u.cursor_addr = cursor /\ u.select = select
  /\ u.hex_cols = cols /\ u.hex_lines = lines /\ u.crashed = crashed

\* The last address of a page that begins at start, at most
EndOf(start, size, cols, lines) ==
  IF start + lines * cols - 1 > size THEN Most(size - 1, 0) ELSE start + lines * cols - 1

\* a screen that has not failed, on which a page has a percent's worth of bytes
Wide(s) ==
  /\ s \in Screens /\ s.crashed = FALSE
  /\ s.hex_cols # 0 /\ PageSize(s) \in Nat /\ PageSize(s) >= Unit /\ PageSize(s) >= s.hex_cols

\* the page begins with a line; it may lie behind the text
Paged(s) ==
  /\ Wide(s)
  /\ s.page_start \in Nat /\ s.page_start % s.hex_cols = 0
  /\ s.page_end = PageEnd(s)
  /\ s.file_size = 0 => s.page_start = 0

\* all but the page and the cursor
Alike(s, t) ==
  /\ s.file_size = t.file_size /\ s.select = t.select
  /\ s.hex_cols = t.hex_cols /\ s.hex_lines = t.hex_lines

\* A page drawn from an address begins there.
LEMMA PrintedIs ==
  ASSUME NEW s, Wide(s), NEW a \in Int, NEW u, u = PrintScreen(s, a)
  PROVE  /\ Wide(u) /\ Alike(u, s) /\ u.cursor_addr = s.cursor_addr
         /\ u.page_start = a /\ u.page_end = PageEnd(u)
  <1> DEFINE t1 == [s EXCEPT !.page_start = a]
             t2 == [t1 EXCEPT !.crashed = s.crashed \/ BytesPerLine(s) = 0]
  <1>0. s \in Screens /\ s.crashed = FALSE /\ s.hex_cols # 0
    BY DEF Wide
  <1>1. Fields(t1, s.file_size, a, s.page_end, s.cursor_addr, s.select, s.hex_cols, s.hex_lines, s.crashed)
    BY <1>0, Zenon DEF Fields, Screens
  <1>2. PrintScreen(s, a) = [t2 EXCEPT !.page_end = PageEnd(t2)]
    <2>1. t1.crashed = s.crashed
      BY <1>1 DEF Fields
    <2> QED BY <2>1, Zenon DEF PrintScreen
  <1> HIDE DEF t1
  <1>3. (s.crashed \/ BytesPerLine(s) = 0) = FALSE
    BY <1>0, Zenon DEF BytesPerLine
  <1>4. Fields(t2, s.file_size, a, s.page_end, s.cursor_addr, s.select, s.hex_cols, s.hex_lines, FALSE)
    BY <1>1, <1>3, Zenon DEF Fields, Screens
  <1> HIDE DEF t2
  <1> DEFINE e == PageEnd(t2)
  <1>5. e = EndOf(a, s.file_size, s.hex_cols, s.hex_lines) /\ e \in Int
    BY <1>0, <1>4 DEF Fields, Screens, PageEnd, PageSize, BytesPerLine, Most, EndOf
  <1> HIDE DEF e
  <1>6. Fields(u, s.file_size, a, e, s.cursor_addr, s.select, s.hex_cols, s.hex_lines, FALSE)
    BY <1>2, <1>4, <1>5, Zenon DEF Fields, Screens, e
  <1> QED
    BY <1>0, <1>5, <1>6 DEF Fields, Wide, Alike, PageEnd, PageSize, EndOf

\* Nothing is divided by zero.
LEMMA PercentIs ==
  ASSUME NEW s, Paged(s)
  PROVE  UpdatePercent(s) = s
  <1>1. ~(s.page_start # 0 /\ s.page_end # s.file_size - 1 /\ s.file_size \div Unit = 0)
    <2>1. SUFFICES ASSUME s.page_start # 0, s.page_end # s.file_size - 1 PROVE s.file_size \div Unit # 0
      OBVIOUS
    <2>2. s.file_size \in Nat /\ s.file_size >= Unit
      BY <2>1, UnitAssumption DEF Paged, Wide, Screens, PageEnd, Most
    <2> HIDE DEF Paged
    <2> QED BY <2>2, UnitAssumption
  <1> DEFINE b == s.page_start # 0 /\ s.page_end # s.file_size - 1 /\ s.file_size \div Unit = 0
  <1>2. s \in Screens /\ s.crashed = FALSE /\ b = FALSE
    BY <1>1 DEF Paged, Wide
  <1> DEFINE u == [s EXCEPT !.crashed = @ \/ b]
  <1>3. UpdatePercent(s) = u
    BY Zenon DEF UpdatePercent
  <1> HIDE DEF b
  <1>4. Fields(u, s.file_size, s.page_start, s.page_end, s.cursor_addr, s.select, s.hex_cols, s.hex_lines, s.crashed)
    BY <1>2, Zenon DEF Fields, Screens
  <1> HIDE DEF u
  <1>5. u = s
    BY <1>2, <1>4 DEF Fields, Screens
  <1> QED
    BY <1>3, <1>5

\* A page may begin with any line.
LEMMA PrintedPage ==
  ASSUME NEW s, Wide(s), NEW a \in Nat, a % s.hex_cols = 0, s.file_size = 0 => a = 0,
         NEW u, u = PrintScreen(s, a)
  PROVE  Paged(u) /\ Alike(u, s) /\ u.cursor_addr = s.cursor_addr /\ u.page_start = a
  <1>1. a \in Int
    OBVIOUS
  <1>2. /\ Wide(u) /\ Alike(u, s) /\ u.cursor_addr = s.cursor_addr
        /\ u.page_start = a /\ u.page_end = PageEnd(u)
    BY <1>1, PrintedIs
  <1> QED
    BY <1>2 DEF Paged, Alike

\* The lines of a distance reach it, and are no more than needed.
LEMMA LinesReach ==
  ASSUME NEW s, s.hex_cols \in Nat \ {0}, NEW x \in Nat \ {0},
         NEW n, n = Lines(s, x) * s.hex_cols
  PROVE  n \in Nat /\ n >= x /\ n < x + s.hex_cols /\ n % s.hex_cols = 0
  <1> DEFINE c == s.hex_cols
             q == (x + c - 1) \div c
  <1>1. c \in Nat /\ c > 0
    OBVIOUS
  <1>2. n = q * c
    BY DEF Lines, BytesPerLine
  <1> HIDE DEF c
  <1>3. q \in Nat /\ x + c - 1 = (c * q) + ((x + c - 1) % c) /\ (x + c - 1) % c \in 0 .. c - 1
    BY <1>1
  <1> HIDE DEF q
  <1>4. c * q \in Nat /\ c * q >= x /\ c * q < x + c
    BY <1>1, <1>3
  <1>5. (c * q) % c = 0
    BY <1>1, <1>3
  <1> QED
    BY <1>1, <1>2, <1>3, <1>4, <1>5 DEF c

\* Whole lines make whole lines.
LEMMA WholeLines ==
  ASSUME NEW c \in Nat \ {0}, NEW a \in Nat, NEW b \in Nat, a % c = 0, b % c = 0
  PROVE  (a + b) % c = 0 /\ (a - b) % c = 0
  <1>1. a = c * (a \div c) /\ b = c * (b \div c) /\ a \div c \in Int /\ b \div c \in Int
    BY SMTT(30)
  <1> DEFINE p == a \div c
             q == b \div c
  <1>2. a + b = c * (p + q) /\ a - b = c * (p - q)
    <2> HIDE DEF p, q
    <2> QED BY <1>1 DEF p, q
  <1>3. p + q \in Int /\ p - q \in Int
    BY <1>1
  <1>4. \A k \in Int : (c * k) % c = 0
    BY SMTT(30)
  <1> HIDE DEF p, q
  <1> QED
    BY <1>2, <1>3, <1>4

\* A line that begins less than a line behind another begins with it or before.
LEMMA LineBefore ==
  ASSUME NEW c \in Nat \ {0}, NEW a \in Nat, NEW b \in Nat, a % c = 0, b % c = 0,
         NEW x \in Nat, x < a, b < a - x + c
  PROVE  b <= a
  <1> DEFINE p == a \div c
             q == b \div c
  <1>1. a = c * p /\ b = c * q /\ p \in Int /\ q \in Int
    BY SMTT(30)
  <1> HIDE DEF p, q
  <1>2. c * q < c * p + c
    BY <1>1
  <1>3. q < p + 1
    <2>1. SUFFICES ASSUME q >= p + 1 PROVE FALSE
      BY <1>1
    <2>2. c * q >= c * (p + 1)
      BY <1>1, <2>1
    <2> QED BY <1>1, <1>2, <2>2
  <1>4. c * q <= c * p
    BY <1>1, <1>3
  <1> QED
    BY <1>1, <1>4

\* The page turned to an address of the text shows it.
LEMMA TurnedIs ==
  ASSUME NEW s, Paged(s), NEW a, AddressValid(s, a), NEW u, u = Turn(s, a)
  PROVE  Paged(u) /\ Alike(u, s) /\ u.cursor_addr = s.cursor_addr /\ OnPage(u, a)
  <1>0. /\ Wide(s) /\ s \in Screens /\ s.page_start \in Nat /\ s.page_start % s.hex_cols = 0
        /\ s.page_end = PageEnd(s) /\ s.file_size \in Nat /\ s.file_size # 0
        /\ a \in 0 .. s.file_size - 1 /\ s.hex_cols \in Nat \ {0}
        /\ PageSize(s) \in Nat /\ PageSize(s) >= s.hex_cols
    BY DEF Paged, Wide, Screens, AddressValid
  <1>1. s.page_end \in Int /\ s.page_end >= 0
        /\ (a > s.page_end => s.page_end = s.page_start + PageSize(s) - 1)
        /\ (a < s.page_start => ~(a > s.page_end))
    BY <1>0 DEF PageEnd, Most
  <1>2. CASE a < s.page_start
    <2> DEFINE n == Lines(s, s.page_start - a) * s.hex_cols
               v == PrintScreen(s, s.page_start - n)
    <2>1. n \in Nat /\ n >= s.page_start - a /\ n < s.page_start - a + s.hex_cols /\ n % s.hex_cols = 0
      <3>1. s.page_start - a \in Nat \ {0}
        BY <1>0, <1>2
      <3> QED BY <1>0, <3>1, LinesReach
    <2>2. u = UpdatePercent(v)
      BY <1>1, <1>2, Zenon DEF Turn, BytesPerLine
    <2> HIDE DEF n
    <2>3. s.page_start >= n
      <3> DEFINE x == a
                 b == n
      <3>1. x \in Nat /\ x < s.page_start /\ b < s.page_start - x + s.hex_cols
        BY <1>0, <1>2, <2>1
      <3>2. b <= s.page_start
        <4> HIDE DEF x, b
        <4> QED BY <1>0, <2>1, <3>1, LineBefore, Zenon DEF b
      <3> QED BY <1>0, <2>1, <3>2
    <2>4. s.page_start - n \in Nat /\ (s.page_start - n) % s.hex_cols = 0
      <3>1. (s.page_start - n) % s.hex_cols = 0
        BY <1>0, <2>1, WholeLines, Zenon
      <3> QED BY <1>0, <2>1, <2>3, <3>1
    <2>5. Paged(v) /\ Alike(v, s) /\ v.cursor_addr = s.cursor_addr /\ v.page_start = s.page_start - n
      BY <1>0, <2>4, PrintedPage
    <2> HIDE DEF v
    <2>6. u = v
      BY <2>2, <2>5, PercentIs
    <2>7. OnPage(v, a)
      <3>1. v.page_start <= a /\ v.page_start + PageSize(s) - 1 >= a
        BY <1>0, <2>1, <2>5
      <3>2. PageSize(v) = PageSize(s) /\ v.file_size = s.file_size /\ v.page_end = PageEnd(v)
        BY <2>5 DEF Alike, Paged, PageSize
      <3> QED BY <1>0, <2>4, <2>5, <3>1, <3>2 DEF OnPage, PageEnd, Most
    <2> QED BY <2>5, <2>6, <2>7
  <1>3. CASE a > s.page_end /\ ~(a < s.page_start)
    <2> DEFINE n == Lines(s, a - s.page_end) * s.hex_cols
               v == PrintScreen(s, s.page_start + n)
    <2>1. n \in Nat /\ n >= a - s.page_end /\ n < a - s.page_end + s.hex_cols /\ n % s.hex_cols = 0
      <3>1. a - s.page_end \in Nat \ {0}
        BY <1>0, <1>1, <1>3
      <3> QED BY <1>0, <3>1, LinesReach
    <2>2. u = UpdatePercent(v)
      BY <1>3, Zenon DEF Turn, BytesPerLine
    <2> HIDE DEF n
    <2>4. s.page_start + n \in Nat /\ (s.page_start + n) % s.hex_cols = 0
      <3>1. (s.page_start + n) % s.hex_cols = 0
        BY <1>0, <2>1, WholeLines, Zenon
      <3> QED BY <1>0, <2>1, <3>1
    <2>5. Paged(v) /\ Alike(v, s) /\ v.cursor_addr = s.cursor_addr /\ v.page_start = s.page_start + n
      BY <1>0, <2>4, PrintedPage
    <2> HIDE DEF v
    <2>6. u = v
      BY <2>2, <2>5, PercentIs
    <2>7. OnPage(v, a)
      <3>1. v.page_start <= a /\ v.page_start + PageSize(s) - 1 >= a
        BY <1>0, <1>1, <1>3, <2>1, <2>5
      <3>2. PageSize(v) = PageSize(s) /\ v.file_size = s.file_size /\ v.page_end = PageEnd(v)
        BY <2>5 DEF Alike, Paged, PageSize
      <3> QED BY <1>0, <2>4, <2>5, <3>1, <3>2 DEF OnPage, PageEnd, Most
    <2> QED BY <2>5, <2>6, <2>7
  <1>4. CASE ~(a < s.page_start) /\ ~(a > s.page_end)
    <2>1. u = s
      BY <1>4, Zenon DEF Turn
    <2> QED BY <1>0, <1>1, <1>4, <2>1 DEF Alike, OnPage
  <1> QED
    BY <1>2, <1>3, <1>4

\* The cursor goes where it is put, if that is an address.
LEMMA PlacedIs ==
  ASSUME NEW s, Paged(s), NEW a, NEW u, u = PlaceCursor(s, a)
  PROVE  /\ Paged(u) /\ Alike(u, s)
         /\ AddressValid(s, a) => u.cursor_addr = a /\ OnPage(u, a)
         /\ (~AddressValid(s, a) /\ s.file_size = 0) => u.cursor_addr = 0
         /\ (~AddressValid(s, a) /\ s.file_size # 0) => u = s
  <1>0. s.file_size \in Nat /\ s \in Screens
    BY DEF Paged, Wide, Screens
  <1>1. CASE AddressValid(s, a)
    <2> DEFINE t == Turn(s, a)
    <2>1. Paged(t) /\ Alike(t, s) /\ OnPage(t, a)
      BY <1>1, TurnedIs
    <2>2. u = [t EXCEPT !.cursor_addr = a]
      <3>1. s.file_size # 0
        BY <1>1 DEF AddressValid
      <3>2. u = [t EXCEPT !.cursor_addr = IF OnPage(t, a) THEN a ELSE NoAddr]
        BY <1>1, <3>1, Zenon DEF PlaceCursor
      <3>3. (IF OnPage(t, a) THEN a ELSE NoAddr) = a
        BY <2>1, Zenon
      <3> QED BY <3>2, <3>3, Zenon
    <2> HIDE DEF t
    <2>3. a \in Int /\ t \in Screens
      BY <1>0, <1>1, <2>1 DEF AddressValid, Paged, Wide
    <2>4. Fields(u, t.file_size, t.page_start, t.page_end, a, t.select, t.hex_cols, t.hex_lines, t.crashed)
      BY <2>2, <2>3, Zenon DEF Fields, Screens
    <2> QED
      BY <1>1, <2>1, <2>4 DEF Fields, Paged, Wide, Alike, OnPage, PageEnd, PageSize
  <1>2. CASE ~AddressValid(s, a) /\ s.file_size = 0
    <2>1. u = [s EXCEPT !.cursor_addr = 0]
      BY <1>2, Zenon DEF PlaceCursor
    <2>2. Fields(u, s.file_size, s.page_start, s.page_end, 0, s.select, s.hex_cols, s.hex_lines, s.crashed)
      <3>1. 0 \in Int
        OBVIOUS
      <3> QED BY <1>0, <2>1, <3>1, Zenon DEF Fields, Screens
    <2> QED
      BY <1>2, <2>2 DEF Fields, Paged, Wide, Alike, PageEnd, PageSize
  <1>3. CASE ~AddressValid(s, a) /\ s.file_size # 0
    <2>1. u = s
      BY <1>3, Zenon DEF PlaceCursor
    <2> QED
      BY <1>3, <2>1 DEF Alike
  <1> QED
    BY <1>1, <1>2, <1>3

\* the cursor is on a byte of the text, if there is one, and the byte on the page
OnByte(s) == s.file_size # 0 => AddressValid(s, s.cursor_addr)

InPlace(s) ==
  /\ Paged(s)
  /\ IF s.file_size = 0 THEN s.cursor_addr = 0
     ELSE AddressValid(s, s.cursor_addr) /\ OnPage(s, s.cursor_addr)

\* The main loop puts the cursor on the page.
LEMMA Settled ==
  ASSUME NEW s, Paged(s), OnByte(s), NEW u, u = PlaceCursor(s, s.cursor_addr)
  PROVE  InPlace(u) /\ Alike(u, s)
  <1>1. /\ Paged(u) /\ Alike(u, s)
        /\ AddressValid(s, s.cursor_addr) => u.cursor_addr = s.cursor_addr /\ OnPage(u, s.cursor_addr)
        /\ (~AddressValid(s, s.cursor_addr) /\ s.file_size = 0) => u.cursor_addr = 0
    BY PlacedIs
  <1>2. s.file_size = 0 => ~AddressValid(s, s.cursor_addr)
    BY DEF AddressValid
  <1> QED
    BY <1>1, <1>2 DEF InPlace, OnByte, Alike, AddressValid

\* A cursor that is somewhere stays somewhere.
LEMMA PlacedInPlace ==
  ASSUME NEW s, InPlace(s), NEW a, NEW u, u = PlaceCursor(s, a)
  PROVE  InPlace(u) /\ Alike(u, s)
  <1>1. /\ Paged(u) /\ Alike(u, s)
        /\ AddressValid(s, a) => u.cursor_addr = a /\ OnPage(u, a)
        /\ (~AddressValid(s, a) /\ s.file_size = 0) => u.cursor_addr = 0
        /\ (~AddressValid(s, a) /\ s.file_size # 0) => u = s
    BY PlacedIs DEF InPlace
  <1>2. s.file_size = 0 => ~AddressValid(s, a)
    BY DEF AddressValid
  <1> QED
    BY <1>1, <1>2 DEF InPlace, Alike, AddressValid

\* A motion leaves the cursor on a byte of the page.
LEMMA MovedInPlace ==
  ASSUME NEW s, InPlace(s), NEW m, NEW u, u = Move(s, m)
  PROVE  InPlace(u) /\ Alike(u, s)
  <1>1. CASE u = s
    BY <1>1 DEF Alike
  <1>2. CASE u = PlaceCursor(s, Target(s, m))
    BY <1>2, PlacedInPlace
  <1> QED
    BY <1>1, <1>2, Zenon DEF Move

\* The size is looked at again: the page begins with a line, the cursor is on it.
LEMMA UpdatedIs ==
  ASSUME NEW s, Wide(s), s.page_start \in Nat, NEW n \in Nat, n = 0 => s.page_start = 0,
         NEW u, u = UpdateDisplayInfo(s, n)
  PROVE  /\ Paged(u) /\ u.file_size = n /\ u.select = s.select
         /\ u.hex_cols = s.hex_cols /\ u.hex_lines = s.hex_lines
         /\ u.page_start = s.page_start - (s.page_start % s.hex_cols)
         /\ u.cursor_addr = Least(Most(s.cursor_addr, u.page_start), u.page_end)
  <1>0. /\ s \in Screens /\ s.hex_cols \in Nat \ {0} /\ s.crashed = FALSE
        /\ s.cursor_addr \in Int
    BY DEF Wide, Screens
  <1> DEFINE start == s.page_start - (s.page_start % s.hex_cols)
             t == [s EXCEPT !.file_size = n]
             p == PrintScreen(t, start)
             v == [p EXCEPT !.cursor_addr = Least(Most(@, p.page_start), p.page_end)]
  <1>1. start \in Nat /\ start % s.hex_cols = 0 /\ (n = 0 => start = 0)
    <2> DEFINE c == s.hex_cols
               a == s.page_start
    <2>1. c \in Nat \ {0} /\ a \in Nat
      BY <1>0
    <2>2. a - (a % c) \in Nat /\ (a - (a % c)) % c = 0 /\ (a = 0 => a - (a % c) = 0)
      <3> HIDE DEF c, a
      <3> DEFINE q == a \div c
      <3>1. q \in Nat /\ a = (c * q) + (a % c) /\ a % c \in 0 .. c - 1
        BY <2>1, SMTT(30)
      <3>2. a - (a % c) = c * q /\ c * q \in Nat
        BY <2>1, <3>1
      <3>3. (c * q) % c = 0
        BY <2>1, <3>1
      <3>4. a = 0 => a % c = 0
        BY <2>1
      <3> QED BY <2>1, <3>1, <3>2, <3>3, <3>4
    <2> QED BY <2>2
  <1>2. Fields(t, n, s.page_start, s.page_end, s.cursor_addr, s.select, s.hex_cols, s.hex_lines, s.crashed)
    BY <1>0, Zenon DEF Fields, Screens
  <1>3. Wide(t)
    BY <1>2 DEF Fields, Wide, PageSize
  <1>4. u = UpdatePercent(v)
    BY <1>0, Zenon DEF UpdateDisplayInfo, BytesPerLine
  <1> HIDE DEF start, t
  <1>5. Paged(p) /\ Alike(p, t) /\ p.cursor_addr = t.cursor_addr /\ p.page_start = start
    <2>1. start % t.hex_cols = 0 /\ (t.file_size = 0 => start = 0)
      BY <1>1, <1>2 DEF Fields
    <2> QED BY <1>1, <1>3, <2>1, PrintedPage
  <1> HIDE DEF p
  <1> DEFINE k == Least(Most(s.cursor_addr, p.page_start), p.page_end)
  <1>6. k \in Int /\ p \in Screens
    BY <1>0, <1>5 DEF Least, Most, Paged, Wide, Screens
  <1>7. p.cursor_addr = s.cursor_addr
    BY <1>2, <1>5 DEF Fields
  <1>8. v = [p EXCEPT !.cursor_addr = k]
    BY <1>7, Zenon
  <1> HIDE DEF v, k
  <1>9. Fields(v, p.file_size, p.page_start, p.page_end, k, p.select, p.hex_cols, p.hex_lines, p.crashed)
    BY <1>6, <1>8, Zenon DEF Fields, Screens
  <1>10. Paged(v)
    BY <1>5, <1>9 DEF Fields, Paged, Wide, PageEnd, PageSize
  <1>11. u = v
    BY <1>4, <1>10, PercentIs
  <1> QED
    BY <1>2, <1>5, <1>9, <1>10, <1>11 DEF Fields, Alike, start, k

\* the selection, if there is one, begins at a byte of the text
Selects(s) == s.select = NoAddr \/ AddressValid(s, s.select)

\* A page drawn where it is.
LEMMA RedrawnIs ==
  ASSUME NEW s, Paged(s), NEW u, u = PrintScreen(s, s.page_start)
  PROVE  u = s
  <1>1. s.page_start \in Int /\ Wide(s)
    BY DEF Paged
  <1>2. /\ Wide(u) /\ Alike(u, s) /\ u.cursor_addr = s.cursor_addr
        /\ u.page_start = s.page_start /\ u.page_end = PageEnd(u)
    BY <1>1, PrintedIs
  <1> QED
    BY <1>1, <1>2 DEF Alike, Paged, Wide, Screens, PageEnd, PageSize

\* The end of a selection changes nothing else on the screen.
LEMMA SelectOffIs ==
  ASSUME NEW s, Paged(s), NEW u, u = VisualSelectOff(s)
  PROVE  /\ Paged(u) /\ u.select = NoAddr /\ u.file_size = s.file_size
         /\ u.cursor_addr = s.cursor_addr /\ u.page_start = s.page_start /\ u.page_end = s.page_end
         /\ u.hex_cols = s.hex_cols /\ u.hex_lines = s.hex_lines
  <1> DEFINE t == [s EXCEPT !.select = NoAddr]
  <1>1. NoAddr \in Int /\ s \in Screens
    BY DEF NoAddr, Paged, Wide
  <1>2. Fields(t, s.file_size, s.page_start, s.page_end, s.cursor_addr, NoAddr, s.hex_cols, s.hex_lines, s.crashed)
    BY <1>1, Zenon DEF Fields, Screens
  <1>3. u = PrintScreen(t, s.page_start)
    BY Zenon DEF VisualSelectOff
  <1> HIDE DEF t
  <1>4. Paged(t)
    BY <1>2 DEF Fields, Paged, Wide, PageEnd, PageSize
  <1>5. u = t
    BY <1>2, <1>3, <1>4, RedrawnIs DEF Fields
  <1> QED
    BY <1>2, <1>4, <1>5 DEF Fields

(***************************************************************************)
(* The history: what an edit makes of the text.                            *)
(***************************************************************************)
Histories == [versions : Seq(Seq(Byte)), pos : Nat]

Hist(h) == h \in Histories /\ h.pos \in 1 .. Len(h.versions)

\* no version is longer than it may be but for the current one
Within(h) ==
  \A i \in 1 .. Len(h.versions) : Len(h.versions[i]) <= MaxLen \/ Len(h.versions[i]) <= Len(Text(h))

\* a call that edits
Edits(c) ==
  /\ c.op \in {"insert", "replace", "delete"}
  /\ c.offset \in Nat /\ c.buf \in Seq(Byte) /\ c.len \in Nat
  /\ Len(c.buf) = IF c.op = "delete" THEN 0 ELSE c.len

\* The current version is a text.
LEMMA TextIs ==
  ASSUME NEW h, Hist(h)
  PROVE  Text(h) \in Seq(Byte) /\ Len(Text(h)) \in Nat
  BY LenProperties DEF Hist, Histories, Text

\* An edit is a new version, if it is inside the text, and none otherwise.
LEMMA EditedIs ==
  ASSUME NEW h, Hist(h), NEW c, Edits(c), NEW u, u = After(h, c)
  PROVE  /\ Hist(u)
         /\ Text(u) = IF Inside(h, c) THEN Exchange(Text(h), c.offset, Taken(c), c.buf) ELSE Text(h)
         /\ Len(Text(u)) = IF Inside(h, c) THEN Len(Text(h)) - Taken(c) + Len(c.buf) ELSE Len(Text(h))
         /\ (Within(h) /\ (Len(Text(h)) <= MaxLen \/ Len(Text(h)) <= Len(Text(u)))) => Within(u)
  <1> DEFINE T == Seq(Byte)
             kept == SubSeq(h.versions, 1, h.pos)
             new == Exchange(Text(h), c.offset, Taken(c), c.buf)
  <1>0. /\ h.versions \in Seq(T) /\ h.pos \in 1 .. Len(h.versions) /\ h.pos \in Nat
        /\ Len(h.versions) \in Nat
    BY LenProperties DEF Hist, Histories
  <1>1. Text(h) \in T /\ Len(Text(h)) \in Nat
    BY TextIs
  <1>2. /\ kept \in Seq(T) /\ Len(kept) = h.pos
        /\ \A i \in 1 .. h.pos : kept[i] = h.versions[i]
    BY <1>0, SubSeqProperties
  <1>3. Taken(c) \in Nat
    BY DEF Taken, Edits
  <1>4. u = IF Inside(h, c) THEN [versions |-> Append(kept, new), pos |-> h.pos + 1]
                            ELSE [versions |-> kept, pos |-> h.pos]
    BY DEF After, IsEdit, Edits, Edited, Spliced, Exchange
  <1> HIDE DEF kept
  <1>5. CASE Inside(h, c)
    <2>1. new \in T /\ Len(new) = Len(Text(h)) - Taken(c) + Len(c.buf)
      <3>1. Lies(Text(h), c.offset, Taken(c)) /\ c.buf \in T
        BY <1>3, <1>5 DEF Lies, Edits, Inside
      <3> QED BY <1>1, <3>1, ExchangeIs DEF Exchanged
    <2> HIDE DEF new
    <2> DEFINE v == Append(kept, new)
    <2>2. /\ v \in Seq(T) /\ Len(v) = h.pos + 1
          /\ \A i \in 1 .. h.pos : v[i] = kept[i]
          /\ v[h.pos + 1] = new
      BY <1>0, <1>2, <2>1, AppendProperties
    <2>3. u.versions = v /\ u.pos = h.pos + 1 /\ u = [versions |-> v, pos |-> h.pos + 1]
      BY <1>4, <1>5
    <2> HIDE DEF v, T
    <2>4. Hist(u) /\ Text(u) = new
      BY <1>0, <2>2, <2>3 DEF Hist, Histories, Text, T
    <2>5. ASSUME Within(h), Len(Text(h)) <= MaxLen \/ Len(Text(h)) <= Len(Text(u))
          PROVE  Within(u)
      <3> SUFFICES ASSUME NEW i \in 1 .. Len(u.versions)
                   PROVE  Len(u.versions[i]) <= MaxLen \/ Len(u.versions[i]) <= Len(Text(u))
        BY DEF Within
      <3>1. CASE i = h.pos + 1
        <4>1. u.versions[i] = Text(u) /\ Len(Text(u)) \in Nat
          BY <2>2, <2>3, <2>4, <3>1, TextIs
        <4> QED BY <4>1
      <3>2. CASE i # h.pos + 1
        <4>1. i \in 1 .. h.pos /\ i \in 1 .. Len(h.versions)
          BY <1>0, <2>2, <2>3, <3>2
        <4>2. u.versions[i] = h.versions[i]
          BY <1>2, <2>2, <2>3, <4>1
        <4>3. Len(h.versions[i]) <= MaxLen \/ Len(h.versions[i]) <= Len(Text(h))
          BY <2>5, <4>1 DEF Within
        <4>4. Len(h.versions[i]) \in Nat /\ Len(Text(u)) \in Nat
          BY <1>0, <2>4, <4>1, TextIs, LenProperties DEF T
        <4> QED BY <1>1, <2>5, <4>2, <4>3, <4>4, EditorAssumption
      <3> QED BY <3>1, <3>2
    <2> QED BY <1>5, <2>1, <2>4, <2>5 DEF new
  <1>6. CASE ~Inside(h, c)
    <2>3. u.versions = kept /\ u.pos = h.pos /\ u = [versions |-> kept, pos |-> h.pos]
      BY <1>4, <1>6
    <2> HIDE DEF T
    <2>4. Hist(u) /\ Text(u) = Text(h)
      BY <1>0, <1>2, <2>3 DEF Hist, Histories, Text, T
    <2>5. ASSUME Within(h) PROVE Within(u)
      BY <1>0, <1>2, <2>3, <2>4, <2>5 DEF Within
    <2> QED BY <1>6, <2>4, <2>5
  <1> QED
    BY <1>5, <1>6

(***************************************************************************)
(* Typing: what is typed is what was meant.                                *)
(***************************************************************************)
\* What is being typed, key by key
Strokes ==
  [addr : Nat, buf : Seq(Byte), tmp : {<<>>} \cup {<<x>> : x \in Digit}, page_start : Nat,
   met : SUBSET AllSlips]

Keys(window) == {Rub} \cup Byte \cup (IF window = "hex" THEN {<<x>> : x \in Digit} ELSE {})

\* Only the bytes change, and what went amiss is not forgotten.
Follows(u, st) ==
  /\ u \in Strokes /\ u.addr = st.addr /\ u.page_start = st.page_start
  /\ st.met \subseteq u.met

\* A key is one digit or two.
LEMMA DigitsIs ==
  /\ \A x \in Digit : <<x>> \in Seq(Digit) /\ Len(<<x>>) = 1 /\ <<x>>[1] = x
  /\ \A y \in Byte : y \in Seq(Digit) /\ Len(y) = 2 /\ y[1] \in Digit /\ y[2] \in Digit
  <1>1. ASSUME NEW x \in Digit PROVE <<x>> \in Seq(Digit) /\ Len(<<x>>) = 1 /\ <<x>>[1] = x
    OBVIOUS
  <1>2. ASSUME NEW y \in Byte PROVE y \in Seq(Digit) /\ Len(y) = 2 /\ y[1] \in Digit /\ y[2] \in Digit
    <2>1. PICK p \in Digit, q \in Digit : y = <<p, q>>
      BY <1>2 DEF Byte
    <2> QED BY <2>1
  <1> QED BY <1>1, <1>2

\* All but the last one is left.
LEMMA ShorterIs ==
  ASSUME NEW S, NEW s \in Seq(S), s # <<>>, NEW u, u = Shorter(s)
  PROVE  u \in Seq(S) /\ Len(u) = Len(s) - 1 /\ Len(s) \in Nat \ {0}
         /\ \A i \in 1 .. Len(s) - 1 : u[i] = s[i]
  <1>1. Len(s) \in Nat \ {0}
    BY EmptySeq, LenProperties
  <1> DEFINE n == Len(s) - 1
  <1>2. n \in Nat /\ n <= Len(s) /\ 1 \in 1 .. Len(s) + 1
    BY <1>1
  <1>3. u = SubSeq(s, 1, n)
    BY DEF Shorter
  <1> HIDE DEF n
  <1>4. u \in Seq(S) /\ Len(u) = n /\ \A i \in 1 .. n : u[i] = s[i]
    BY <1>1, <1>2, <1>3, SubSeqProperties
  <1> QED
    BY <1>1, <1>4 DEF n

\* A byte that is typed comes behind the others.
LEMMA AppendsIs ==
  ASSUME NEW st \in Strokes, NEW x \in Byte, NEW u, u = [st EXCEPT !.buf = Append(@, x)]
  PROVE  /\ Follows(u, st) /\ u.tmp = st.tmp /\ u.met = st.met
         /\ u.buf = Append(st.buf, x)
  <1> DEFINE b == Append(st.buf, x)
  <1>1. b \in Seq(Byte)
    BY DEF Strokes
  <1>2. u = [st EXCEPT !.buf = b]
    BY Zenon
  <1> HIDE DEF b
  <1> QED
    BY <1>1, <1>2, Zenon DEF Strokes, Follows, b

\* What backspace takes: a digit, or a byte, of which a digit comes back.
LEMMA RubbedIs ==
  ASSUME NEW st \in Strokes, NEW window, NEW u, u = RubbedOut(st, window)
  PROVE  /\ Follows(u, st)
         /\ st.tmp # <<>> => u.tmp = <<>> /\ u.buf = st.buf
         /\ (st.tmp = <<>> /\ st.buf = <<>>) => u = st
         /\ (st.tmp = <<>> /\ st.buf # <<>>) =>
               /\ u.buf = Shorter(st.buf)
               /\ LET byte == st.buf[Len(st.buf)]
                  IN  IF window = "hex"
                      THEN u.tmp = <<byte[2]>> /\ (byte[1] = byte[2] \/ "half" \in u.met)
                      ELSE u.tmp = <<>>
  <1>1. CASE st.tmp # <<>>
    <2>1. u = [st EXCEPT !.tmp = <<>>]
      BY <1>1, Zenon DEF RubbedOut
    <2>2. <<>> \in {<<>>} \cup {<<x>> : x \in Digit}
      OBVIOUS
    <2> QED
      BY <1>1, <2>1, <2>2, Zenon DEF Strokes, Follows
  <1>2. CASE st.tmp = <<>> /\ st.buf = <<>>
    <2>1. u = st
      BY <1>2, Zenon DEF RubbedOut
    <2> QED BY <1>2, <2>1 DEF Follows
  <1>3. CASE st.tmp = <<>> /\ st.buf # <<>>
    <2> DEFINE byte == st.buf[Len(st.buf)]
               b == Shorter(st.buf)
               less == [st EXCEPT !.buf = b]
    <2>1. st.buf \in Seq(Byte) /\ st.met \in SUBSET AllSlips
      BY DEF Strokes
    <2>2. b \in Seq(Byte) /\ Len(st.buf) \in Nat \ {0}
      BY <1>3, <2>1, ShorterIs
    <2>3. byte \in Byte
      BY <2>1, <2>2, LenProperties
    <2>4. byte[1] \in Digit /\ byte[2] \in Digit
      BY <2>3, DigitsIs
    <2>5. less = [st EXCEPT !.buf = Shorter(@)]
      BY Zenon
    <2> HIDE DEF byte, b
    <2>6. less \in Strokes /\ less.addr = st.addr /\ less.page_start = st.page_start
          /\ less.tmp = st.tmp /\ less.met = st.met /\ less.buf = b
      BY <2>2, Zenon DEF Strokes
    <2>7. CASE window # "hex"
      <3>1. u = less
        BY <1>3, <2>5, <2>7, Zenon DEF RubbedOut
      <3> HIDE DEF less
      <3> QED BY <1>3, <2>6, <2>7, <3>1 DEF Follows, b
    <2>8. CASE window = "hex"
      <3> DEFINE met == IF byte[1] = byte[2] THEN st.met ELSE st.met \cup {"half"}
                 half == [less EXCEPT !.tmp = <<byte[2]>>]
      <3>1. u = [half EXCEPT !.met = met]
        <4>1. half.met = st.met
          BY <2>6, Zenon DEF Strokes
        <4>2. u = [half EXCEPT !.met = IF byte[1] = byte[2] THEN @ ELSE @ \cup {"half"}]
          BY <1>3, <2>5, <2>8, Zenon DEF RubbedOut, byte, b
        <4> QED BY <4>1, <4>2, Zenon
      <3>2. met \in SUBSET AllSlips /\ st.met \subseteq met /\ (byte[1] = byte[2] \/ "half" \in met)
        BY <2>1 DEF AllSlips
      <3>3. <<byte[2]>> \in {<<>>} \cup {<<x>> : x \in Digit}
        BY <2>4
      <3> HIDE DEF met, less
      <3>4. half \in Strokes /\ half.addr = st.addr /\ half.page_start = st.page_start
            /\ half.tmp = <<byte[2]>> /\ half.buf = b
        BY <2>6, <3>3, Zenon DEF Strokes
      <3> HIDE DEF half
      <3>5. u \in Strokes /\ u.addr = st.addr /\ u.page_start = st.page_start
            /\ u.tmp = <<byte[2]>> /\ u.buf = b /\ u.met = met
        BY <3>1, <3>2, <3>4, Zenon DEF Strokes
      <3> QED BY <1>3, <2>8, <3>2, <3>5 DEF Follows, byte, b
    <2> QED BY <2>7, <2>8
  <1> QED
    BY <1>1, <1>2, <1>3

\* A digit waits for the second one of its byte.
LEMMA DigitIs ==
  ASSUME NEW st \in Strokes, NEW x \in Digit, NEW u, u = TypedDigit(st, <<x>>)
  PROVE  /\ Follows(u, st)
         /\ st.tmp = <<>> => u.tmp = <<x>> /\ u.buf = st.buf
         /\ st.tmp # <<>> => u.tmp = <<>> /\ u.buf = Append(st.buf, <<st.tmp[1], x>>)
  <1>1. CASE st.tmp = <<>>
    <2>1. st.tmp \o <<x>> = <<x>> /\ Len(<<x>>) < 2
      BY <1>1
    <2>2. u = [st EXCEPT !.tmp = <<x>>]
      BY <2>1, Zenon DEF TypedDigit
    <2>3. <<x>> \in {<<>>} \cup {<<y>> : y \in Digit}
      OBVIOUS
    <2> QED
      BY <1>1, <2>2, <2>3, Zenon DEF Strokes, Follows
  <1>2. CASE st.tmp # <<>>
    <2>1. PICK y \in Digit : st.tmp = <<y>>
      BY <1>2 DEF Strokes
    <2>2. st.tmp \o <<x>> = <<y, x>> /\ ~(Len(<<y, x>>) < 2) /\ y = st.tmp[1]
      <3>1. <<y>> \o <<x>> = <<y, x>>
        <4> DEFINE a == <<y>>
                   b == <<x>>
                   c == <<y, x>>
        <4>1. /\ a \in Seq(Digit) /\ b \in Seq(Digit) /\ c \in Seq(Digit)
              /\ Len(a) = 1 /\ Len(b) = 1 /\ Len(c) = 2
              /\ a[1] = y /\ b[1] = x /\ c[1] = y /\ c[2] = x
          OBVIOUS
        <4> HIDE DEF a, b, c
        <4>2. /\ a \o b \in Seq(Digit) /\ Len(a \o b) = Len(a) + Len(b)
              /\ \A i \in 1 .. Len(a) + Len(b) : (a \o b)[i] = IF i <= Len(a) THEN a[i] ELSE b[i - Len(a)]
          BY <4>1, ConcatProperties
        <4>3. Len(a \o b) = 2 /\ (a \o b)[1] = y /\ (a \o b)[2] = x
          BY <4>1, <4>2
        <4>4. a \o b = c
          BY <4>1, <4>2, <4>3, SeqEqual
        <4> QED BY <4>4 DEF a, b, c
      <3>2. Len(<<y, x>>) = 2 /\ <<y>>[1] = y
        OBVIOUS
      <3> QED BY <2>1, <3>1, <3>2
    <2>3. <<y, x>> \in Byte
      BY DEF Byte
    <2> DEFINE v == [st EXCEPT !.tmp = <<>>]
    <2>4. u = [v EXCEPT !.buf = Append(@, <<y, x>>)]
      BY <2>2, Zenon DEF TypedDigit
    <2>5. <<>> \in {<<>>} \cup {<<z>> : z \in Digit}
      OBVIOUS
    <2>6. v \in Strokes /\ v.addr = st.addr /\ v.page_start = st.page_start /\ v.tmp = <<>>
          /\ v.buf = st.buf /\ v.met = st.met
      BY <2>5, Zenon DEF Strokes
    <2> HIDE DEF v
    <2> DEFINE w == [v EXCEPT !.buf = Append(@, <<y, x>>)]
    <2>7. Follows(w, v) /\ w.tmp = v.tmp /\ w.met = v.met /\ w.buf = Append(v.buf, <<y, x>>)
      BY <2>3, <2>6, AppendsIs
    <2> HIDE DEF w
    <2> QED
      BY <1>2, <2>2, <2>4, <2>6, <2>7 DEF Follows, w
  <1> QED
    BY <1>1, <1>2

\* what the keys mean so far
SpellKey(g, key, least) ==
  CASE key = Rub -> SubSeq(g, 1, Len(g) - least)
    [] Len(key) = least -> g \o key
    [] OTHER -> g

LeastDigits(window) == IF window = "hex" THEN 1 ELSE 2

\* The digits are those of the bytes, and the one that has no byte yet.
Spells(g, buf, tmp) ==
  /\ Len(g) = 2 * Len(buf) + Len(tmp)
  /\ \A i \in 1 .. Len(buf) : g[2 * i - 1] = buf[i][1] /\ g[2 * i] = buf[i][2]
  /\ tmp # <<>> => g[Len(g)] = tmp[1]

\* The last digits are taken away.
LEMMA DigitsCut ==
  ASSUME NEW g \in Seq(Digit), NEW n \in Nat, NEW u, u = SubSeq(g, 1, Len(g) - n)
  PROVE  /\ u \in Seq(Digit)
         /\ n <= Len(g) => Len(u) = Len(g) - n /\ \A i \in 1 .. Len(g) - n : u[i] = g[i]
         /\ Len(g) = 0 => Len(u) = 0
  <1> DEFINE m == Len(g) - n
  <1>1. Len(g) \in Nat /\ m \in Int /\ m <= Len(g) /\ u = SubSeq(g, 1, m)
    BY LenProperties
  <1> HIDE DEF m
  <1>2. \A i \in 1 .. m : g[i] \in Digit
    BY <1>1, LenProperties
  <1>3. /\ u \in Seq(Digit) /\ Len(u) = IF 1 <= m THEN m - 1 + 1 ELSE 0
        /\ \A i \in 1 .. m - 1 + 1 : u[i] = g[1 + i - 1]
    BY <1>1, <1>2, SubSeqProperties
  <1>4. \A i \in 1 .. m : u[i] = g[i]
    BY <1>1, <1>3
  <1> QED
    BY <1>1, <1>3, <1>4 DEF m

\* A byte more: its digits come behind those of the others.
LEMMA SpellsMore ==
  ASSUME NEW buf \in Seq(Byte), NEW x \in Digit, NEW y \in Digit, NEW g \in Seq(Digit),
         Len(g) = 2 * Len(buf) + 2,
         \A i \in 1 .. Len(buf) : g[2 * i - 1] = buf[i][1] /\ g[2 * i] = buf[i][2],
         g[2 * Len(buf) + 1] = x, g[2 * Len(buf) + 2] = y,
         NEW u, u = Append(buf, <<x, y>>)
  PROVE  Spells(g, u, <<>>)
  <1> DEFINE e == <<x, y>>
  <1>1. e \in Byte /\ e[1] = x /\ e[2] = y
    BY DEF Byte
  <1> HIDE DEF e
  <1>2. /\ u \in Seq(Byte) /\ Len(u) = Len(buf) + 1 /\ Len(buf) \in Nat
        /\ \A i \in 1 .. Len(buf) : u[i] = buf[i]
        /\ u[Len(buf) + 1] = e
    BY <1>1, AppendProperties, LenProperties DEF e
  <1>3. ASSUME NEW i \in 1 .. Len(u) PROVE g[2 * i - 1] = u[i][1] /\ g[2 * i] = u[i][2]
    <2>1. CASE i = Len(buf) + 1
      <3>1. 2 * i - 1 = 2 * Len(buf) + 1 /\ 2 * i = 2 * Len(buf) + 2
        BY <1>2, <2>1
      <3> QED BY <1>1, <1>2, <2>1, <3>1
    <2>2. CASE i # Len(buf) + 1
      <3>1. i \in 1 .. Len(buf)
        BY <1>2, <2>2
      <3> QED BY <1>2, <3>1
    <2> QED BY <2>1, <2>2
  <1>4. Len(<<>>) = 0
    OBVIOUS
  <1>5. Len(g) = 2 * Len(u) + 0
    BY <1>2
  <1> QED
    BY <1>3, <1>4, <1>5 DEF Spells

\* A key does to the bytes what it does to the digits they stand for.
LEMMA TookIs ==
  ASSUME NEW st \in Strokes, NEW window \in {"hex", "ascii"}, NEW key \in Keys(window),
         window = "ascii" => st.tmp = <<>>, NEW g \in Seq(Digit),
         NEW u, u = Took(st, window, key), NEW v, v = SpellKey(g, key, LeastDigits(window))
  PROVE  /\ Follows(u, st) /\ v \in Seq(Digit)
         /\ window = "ascii" => u.tmp = <<>>
         /\ (Spells(g, st.buf, st.tmp) /\ "half" \notin u.met) => Spells(v, u.buf, u.tmp)
  <1>0. /\ st.buf \in Seq(Byte) /\ Len(st.buf) \in Nat /\ Len(g) \in Nat
        /\ (st.tmp # <<>> => \E x \in Digit : st.tmp = <<x>>) /\ Len(<<>>) = 0
    BY LenProperties DEF Strokes
  <1>1. CASE key = Rub
    <2> DEFINE n == LeastDigits(window)
    <2>1. v = SubSeq(g, 1, Len(g) - n) /\ n = (IF window = "hex" THEN 1 ELSE 2) /\ n \in Nat
      <3>1. ~(Len(key) = n)
        BY <1>0, <1>1 DEF Rub, LeastDigits
      <3>2. v = SubSeq(g, 1, Len(g) - n)
        BY <1>1, <3>1, Zenon DEF SpellKey
      <3>3. n = (IF window = "hex" THEN 1 ELSE 2)
        BY Zenon DEF LeastDigits
      <3> HIDE DEF n
      <3> QED BY <3>2, <3>3
    <2>2. u = RubbedOut(st, window)
      BY <1>1, Zenon DEF Took
    <2> HIDE DEF n
    <2>3. /\ v \in Seq(Digit)
          /\ n <= Len(g) => Len(v) = Len(g) - n /\ \A i \in 1 .. Len(g) - n : v[i] = g[i]
          /\ Len(g) = 0 => Len(v) = 0
      BY <2>1, DigitsCut
    <2>4. CASE st.tmp # <<>>
      <3>1. Follows(u, st) /\ u.tmp = <<>> /\ u.buf = st.buf
        BY <2>2, <2>4, RubbedIs
      <3>2. Len(st.tmp) = 1 /\ n = 1
        BY <1>0, <2>1, <2>4
      <3>3. ASSUME Spells(g, st.buf, st.tmp) PROVE Spells(v, st.buf, <<>>)
        <4>1. Len(g) = 2 * Len(st.buf) + 1 /\ Len(v) = 2 * Len(st.buf)
          BY <1>0, <2>3, <3>2, <3>3 DEF Spells
        <4>2. ASSUME NEW i \in 1 .. Len(st.buf)
              PROVE v[2 * i - 1] = st.buf[i][1] /\ v[2 * i] = st.buf[i][2]
          <5>1. 2 * i - 1 \in 1 .. Len(g) - n /\ 2 * i \in 1 .. Len(g) - n
            BY <1>0, <3>2, <4>1
          <5>2. g[2 * i - 1] = st.buf[i][1] /\ g[2 * i] = st.buf[i][2]
            BY <3>3 DEF Spells
          <5>3. v[2 * i - 1] = g[2 * i - 1] /\ v[2 * i] = g[2 * i]
            <6>1. \A j \in 1 .. Len(g) - n : v[j] = g[j]
              BY <1>0, <2>3, <3>2, <4>1
            <6> QED BY <5>1, <6>1
          <5> QED BY <5>2, <5>3
        <4> QED BY <1>0, <4>1, <4>2 DEF Spells
      <3> QED BY <2>3, <3>1, <3>3
    <2>5. CASE st.tmp = <<>> /\ st.buf = <<>>
      <3>1. Follows(u, st) /\ u = st
        BY <2>2, <2>5, RubbedIs
      <3>2. ASSUME Spells(g, st.buf, st.tmp) PROVE Spells(v, st.buf, st.tmp)
        BY <1>0, <2>3, <2>5, <3>2 DEF Spells
      <3> QED BY <2>3, <2>5, <3>1, <3>2
    <2>6. CASE st.tmp = <<>> /\ st.buf # <<>>
      <3> DEFINE k == Len(st.buf)
                 byte == st.buf[k]
      <3>1. /\ Follows(u, st) /\ u.buf = Shorter(st.buf)
            /\ IF window = "hex" THEN u.tmp = <<byte[2]>> /\ (byte[1] = byte[2] \/ "half" \in u.met)
               ELSE u.tmp = <<>>
        BY <2>2, <2>6, RubbedIs
      <3>2. /\ Len(u.buf) = k - 1 /\ k \in Nat \ {0} /\ \A i \in 1 .. k - 1 : u.buf[i] = st.buf[i]
        BY <1>0, <2>6, <3>1, ShorterIs
      <3>3. Len(u.tmp) = IF window = "hex" THEN 1 ELSE 0
        <4>1. \A y : Len(<<y>>) = 1
          OBVIOUS
        <4> HIDE DEF byte
        <4> QED BY <1>0, <3>1, <4>1
      <3>4. ASSUME Spells(g, st.buf, st.tmp), "half" \notin u.met PROVE Spells(v, u.buf, u.tmp)
        <4>1. Len(g) = 2 * k /\ n <= Len(g) /\ Len(v) = 2 * k - n
          <5>1. Len(g) = 2 * k
            BY <1>0, <2>6, <3>2, <3>4 DEF Spells
          <5> HIDE DEF k
          <5> QED BY <2>1, <2>3, <3>2, <5>1
        <4>2. Len(v) = 2 * Len(u.buf) + Len(u.tmp)
          <5> HIDE DEF k
          <5> QED BY <2>1, <3>2, <3>3, <4>1
        <4>3. ASSUME NEW i \in 1 .. k - 1
              PROVE v[2 * i - 1] = u.buf[i][1] /\ v[2 * i] = u.buf[i][2]
          <5>1. 2 * i - 1 \in 1 .. 2 * k - n /\ 2 * i \in 1 .. 2 * k - n /\ i \in 1 .. k
            BY <2>1, <3>2
          <5>2. g[2 * i - 1] = st.buf[i][1] /\ g[2 * i] = st.buf[i][2]
            BY <3>4, <5>1 DEF Spells
          <5>3. v[2 * i - 1] = g[2 * i - 1] /\ v[2 * i] = g[2 * i]
            BY <2>3, <4>1, <5>1
          <5> QED BY <3>2, <5>2, <5>3
        <4>4. u.tmp # <<>> => v[Len(v)] = u.tmp[1]
          <5> SUFFICES ASSUME u.tmp # <<>> PROVE v[Len(v)] = u.tmp[1]
            OBVIOUS
          <5>1. window = "hex" /\ n = 1
            BY <2>1, <3>1
          <5>2. u.tmp[1] = byte[1]
            BY <3>1, <3>4, <5>1
          <5>3. g[2 * k - 1] = byte[1]
            <6>1. k \in 1 .. Len(st.buf)
              BY <3>2
            <6>2. \A i \in 1 .. Len(st.buf) : g[2 * i - 1] = st.buf[i][1]
              BY <3>4 DEF Spells
            <6> HIDE DEF k
            <6> QED BY <6>1, <6>2
          <5>4. 2 * k - 1 \in 1 .. 2 * k - n
            BY <3>2, <5>1
          <5> QED BY <2>3, <4>1, <5>1, <5>2, <5>3, <5>4
        <4> QED BY <3>2, <4>2, <4>3, <4>4 DEF Spells
      <3>5. window = "ascii" => u.tmp = <<>>
        BY <3>1
      <3> QED BY <2>3, <3>1, <3>4, <3>5
    <2> QED BY <2>4, <2>5, <2>6
  <1>2. CASE window = "hex" /\ \E x \in Digit : key = <<x>>
    <2>1. PICK x \in Digit : key = <<x>>
      BY <1>2
    <2>2. Len(key) = 1 /\ key # Rub /\ key \in Seq(Digit) /\ key[1] = x
      BY <1>0, <2>1, DigitsIs DEF Rub
    <2>3. u = TypedDigit(st, <<x>>)
      BY <1>2, <2>1, <2>2, Zenon DEF Took
    <2>4. v = g \o key
      BY <1>2, <2>2, Zenon DEF SpellKey, LeastDigits
    <2>5. /\ Follows(u, st)
          /\ st.tmp = <<>> => u.tmp = <<x>> /\ u.buf = st.buf
          /\ st.tmp # <<>> => u.tmp = <<>> /\ u.buf = Append(st.buf, <<st.tmp[1], x>>)
      BY <2>3, DigitIs
    <2>6. /\ v \in Seq(Digit) /\ Len(v) = Len(g) + 1
          /\ \A i \in 1 .. Len(g) : v[i] = g[i]
          /\ v[Len(g) + 1] = x
      <3>1. /\ v \in Seq(Digit) /\ Len(v) = Len(g) + Len(key)
            /\ \A i \in 1 .. Len(g) + Len(key) : v[i] = IF i <= Len(g) THEN g[i] ELSE key[i - Len(g)]
        <4>1. g \in Seq(Digit) /\ key \in Seq(Digit)
          BY <2>2
        <4> QED BY <2>4, <4>1, ConcatProperties, Zenon
      <3> QED BY <1>0, <2>2, <3>1
    <2>7. ASSUME Spells(g, st.buf, st.tmp) PROVE Spells(v, u.buf, u.tmp)
      <3>1. CASE st.tmp = <<>>
        <4>1. Len(<<x>>) = 1 /\ <<x>>[1] = x
          OBVIOUS
        <4>2. Len(g) = 2 * Len(st.buf)
          BY <1>0, <2>7, <3>1 DEF Spells
        <4>3. ASSUME NEW i \in 1 .. Len(st.buf)
              PROVE v[2 * i - 1] = st.buf[i][1] /\ v[2 * i] = st.buf[i][2]
          <5>1. 2 * i - 1 \in 1 .. Len(g) /\ 2 * i \in 1 .. Len(g)
            BY <1>0, <4>2
          <5> QED BY <2>6, <2>7, <5>1 DEF Spells
        <4> QED BY <2>5, <2>6, <3>1, <4>1, <4>2, <4>3 DEF Spells
      <3>2. CASE st.tmp # <<>>
        <4>1. PICK y \in Digit : st.tmp = <<y>>
          BY <1>0, <3>2
        <4>2. Len(st.tmp) = 1 /\ st.tmp[1] = y
          BY <4>1
        <4>3. Len(g) = 2 * Len(st.buf) + 1 /\ g[Len(g)] = y
          BY <1>0, <2>7, <3>2, <4>2 DEF Spells
        <4>4. ASSUME NEW i \in 1 .. Len(st.buf)
              PROVE v[2 * i - 1] = st.buf[i][1] /\ v[2 * i] = st.buf[i][2]
          <5>1. 2 * i - 1 \in 1 .. Len(g) /\ 2 * i \in 1 .. Len(g)
            BY <1>0, <4>3
          <5> QED BY <2>6, <2>7, <5>1 DEF Spells
        <4>5. Len(v) = 2 * Len(st.buf) + 2 /\ v[2 * Len(st.buf) + 1] = y /\ v[2 * Len(st.buf) + 2] = x
          <5>1. Len(g) \in 1 .. Len(g) /\ Len(g) + 1 = 2 * Len(st.buf) + 2
            BY <1>0, <4>3
          <5> QED BY <2>6, <4>3, <5>1
        <4>6. u.buf = Append(st.buf, <<y, x>>)
          BY <2>5, <3>2, <4>2
        <4>7. Spells(v, u.buf, <<>>)
          <5> DEFINE w == u.buf
          <5>1. w = Append(st.buf, <<y, x>>)
            BY <4>6
          <5> HIDE DEF w
          <5>2. Spells(v, w, <<>>)
            BY <1>0, <2>6, <4>4, <4>5, <5>1, SpellsMore
          <5> QED BY <5>2 DEF w
        <4> QED BY <2>5, <3>2, <4>7
      <3> QED BY <3>1, <3>2
    <2> QED BY <1>2, <2>5, <2>6, <2>7
  <1>3. CASE window = "hex" /\ key \in Byte
    <2>1. Len(key) = 2
      BY <1>3, DigitsIs
    <2>2. key # Rub /\ ~(Len(key) = 1)
      BY <1>0, <2>1 DEF Rub
    <2>3. u = st
      BY <1>3, <2>2, Zenon DEF Took
    <2>4. v = g
      BY <1>3, <2>2, Zenon DEF SpellKey, LeastDigits
    <2> QED BY <1>3, <2>3, <2>4 DEF Follows
  <1>4. CASE window = "ascii" /\ key \in Byte
    <2>1. Len(key) = 2 /\ key \in Seq(Digit) /\ key[1] \in Digit /\ key[2] \in Digit
      BY <1>4, DigitsIs
    <2>2. key # Rub /\ window # "hex"
      <3>0. Len(Rub) # 2
        BY DEF Rub
      <3>1. key # Rub
        BY <2>1, <3>0, Zenon
      <3> QED BY <1>4, <3>1
    <2>3. u = [st EXCEPT !.buf = Append(@, key)]
      BY <2>2, Zenon DEF Took
    <2>4. v = g \o key
      BY <2>1, <2>2, Zenon DEF SpellKey, LeastDigits
    <2>5. Follows(u, st) /\ u.tmp = st.tmp /\ u.buf = Append(st.buf, key)
      BY <1>4, <2>3, AppendsIs
    <2>6. /\ v \in Seq(Digit) /\ Len(v) = Len(g) + 2
          /\ \A i \in 1 .. Len(g) : v[i] = g[i]
          /\ v[Len(g) + 1] = key[1] /\ v[Len(g) + 2] = key[2]
      <3>1. /\ v \in Seq(Digit) /\ Len(v) = Len(g) + Len(key)
            /\ \A i \in 1 .. Len(g) + Len(key) : v[i] = IF i <= Len(g) THEN g[i] ELSE key[i - Len(g)]
        <4>1. g \in Seq(Digit) /\ key \in Seq(Digit)
          BY <2>1
        <4> QED BY <2>4, <4>1, ConcatProperties, Zenon
      <3> QED BY <1>0, <2>1, <3>1
    <2>7. ASSUME Spells(g, st.buf, st.tmp) PROVE Spells(v, u.buf, u.tmp)
      <3>1. st.tmp = <<>> /\ Len(g) = 2 * Len(st.buf)
        <4>1. st.tmp = <<>>
          BY <1>4
        <4> QED BY <1>0, <2>7, <4>1 DEF Spells
      <3>2. ASSUME NEW i \in 1 .. Len(st.buf)
            PROVE v[2 * i - 1] = st.buf[i][1] /\ v[2 * i] = st.buf[i][2]
        <4>1. 2 * i - 1 \in 1 .. Len(g) /\ 2 * i \in 1 .. Len(g)
          BY <1>0, <3>1
        <4> QED BY <2>6, <2>7, <4>1 DEF Spells
      <3>3. key = <<key[1], key[2]>>
        BY <1>4 DEF Byte
      <3> DEFINE w == u.buf
                 x == key[1]
                 y == key[2]
      <3>4. w = Append(st.buf, <<x, y>>)
        BY <2>5, <3>3
      <3>5. /\ Len(v) = 2 * Len(st.buf) + 2 /\ v[2 * Len(st.buf) + 1] = x
            /\ v[2 * Len(st.buf) + 2] = y /\ x \in Digit /\ y \in Digit
        BY <2>1, <2>6, <3>1
      <3> HIDE DEF w, x, y
      <3>6. Spells(v, w, <<>>)
        BY <1>0, <2>6, <3>2, <3>4, <3>5, SpellsMore
      <3> QED BY <2>5, <3>1, <3>6 DEF w
    <2> QED BY <1>4, <2>5, <2>6, <2>7
  <1> QED
    BY <1>1, <1>2, <1>3, <1>4 DEF Keys

\* The page that is shown while typing begins with a line.
LEMMA DrawnIs ==
  ASSUME NEW s, s.hex_cols \in Nat \ {0}, NEW st \in Strokes, st.page_start % s.hex_cols = 0,
         NEW room, NEW u, u = Drawn(s, st, room)
  PROVE  /\ u \in Strokes /\ u.addr = st.addr /\ u.buf = st.buf /\ u.tmp = st.tmp
         /\ st.met \subseteq u.met
         /\ u.page_start % s.hex_cols = 0
         /\ "back" \in u.met \/ u.page_start <= u.addr + Len(u.buf)
  <1> DEFINE full == (st.addr - st.page_start) + Len(st.buf) + room > PageSize(s)
             page == IF full THEN st.page_start + BytesPerLine(s) ELSE st.page_start
             met == IF Len(st.buf) < page - st.addr THEN st.met \cup {"back"} ELSE st.met
             v == [st EXCEPT !.page_start = page]
  <1>1. u = [v EXCEPT !.met = met]
    <2>1. v.met = st.met
      BY Zenon DEF Strokes
    <2>2. u = [v EXCEPT !.met = IF Len(st.buf) < page - st.addr THEN @ \cup {"back"} ELSE @]
      BY Zenon DEF Drawn
    <2> QED BY <2>1, <2>2, Zenon
  <1> HIDE DEF full
  <1>0. /\ st.page_start \in Nat /\ st.addr \in Nat /\ st.met \in SUBSET AllSlips
        /\ st.buf \in Seq(Byte) /\ Len(st.buf) \in Nat
    BY LenProperties DEF Strokes
  <1>2. page \in Nat /\ page % s.hex_cols = 0
    <2>1. CASE page = st.page_start
      BY <1>0, <2>1
    <2>2. CASE page = st.page_start + s.hex_cols
      <3> DEFINE c == s.hex_cols
                 a == st.page_start
      <3>1. c \in Nat \ {0} /\ a \in Nat /\ a % c = 0 /\ page = a + c
        BY <1>0, <2>2
      <3>2. (a + c) % c = 0
        <4> HIDE DEF a, c
        <4> DEFINE q == a \div c
        <4>1. a = c * q /\ q \in Int
          BY <3>1, SMTT(30)
        <4> HIDE DEF q
        <4>2. a + c = c * (q + 1)
          BY <3>1, <4>1
        <4>3. (c * (q + 1)) % c = 0
          BY <3>1, <4>1
        <4> QED BY <4>2, <4>3
      <3> QED BY <3>1, <3>2
    <2> QED BY <2>1, <2>2 DEF BytesPerLine
  <1> HIDE DEF page
  <1>3. /\ met \in SUBSET AllSlips /\ st.met \subseteq met
        /\ "back" \in met \/ page <= st.addr + Len(st.buf)
    BY <1>0, <1>2 DEF AllSlips
  <1> HIDE DEF met
  <1>4. v \in Strokes /\ v.addr = st.addr /\ v.buf = st.buf /\ v.tmp = st.tmp /\ v.page_start = page
    BY <1>2, Zenon DEF Strokes
  <1> HIDE DEF v
  <1>5. /\ u \in Strokes /\ u.addr = st.addr /\ u.buf = st.buf /\ u.tmp = st.tmp
        /\ u.page_start = page /\ u.met = met
    BY <1>1, <1>3, <1>4, Zenon DEF Strokes
  <1> QED
    BY <1>2, <1>3, <1>5

TypeStep(a, b, c, acc, x) == Drawn(a, Took(acc, b.window, b.keys[x]), c)
SpellStep(a, b, c, acc, x) == SpellKey(acc, a[x], b)
NoBody(a, b, f, x) == x

TypingLoop == INSTANCE DataLemmas WITH Op <- TypeStep, Body <- NoBody
SpellLoop  == INSTANCE DataLemmas WITH Op <- SpellStep, Body <- NoBody

\* What is typed is made of keys of its window.
LEMMA InputIs ==
  ASSUME NEW input \in Inputs
  PROVE  /\ input.window \in {"hex", "ascii"} /\ Len(input.keys) \in Nat
         /\ \A k \in 1 .. Len(input.keys) : input.keys[k] \in Keys(input.window)
  <1>1. CASE input \in [window : {"ascii"}, keys : Seq({Rub} \cup Byte)]
    BY <1>1, LenProperties DEF Keys
  <1>2. CASE input \in [window : {"hex"}, keys : Seq({Rub} \cup Byte \cup {<<x>> : x \in Digit})]
    <2> DEFINE K == {Rub} \cup Byte \cup {<<x>> : x \in Digit}
    <2>1. input.window = "hex" /\ input.keys \in Seq(K)
      BY <1>2
    <2>2. Keys(input.window) = K
      BY <2>1 DEF Keys
    <2> HIDE DEF K
    <2> QED BY <2>1, <2>2, LenProperties
  <1> QED
    BY <1>1, <1>2 DEF Inputs

\* Spelled, with the digits it goes through
LEMMA SpelledIs ==
  ASSUME NEW input
  PROVE  LET g == SpellLoop!Outcome(input.keys, LeastDigits(input.window), 0, <<>>, Len(input.keys))
         IN  Spelled(input) = [i \in 1 .. Len(g) \div 2 |-> <<g[2 * i - 1], g[2 * i]>>]
  BY Zenon DEF Spelled, SpellLoop!Outcome, SpellStep, SpellKey, LeastDigits

\* Typing is a fold over the keys.
LEMMA TypingIs ==
  ASSUME NEW s, NEW addr, NEW input, NEW room
  PROVE  Typing(s, addr, input, room) = TypingLoop!Outcome(s, input, room, Start(s, addr), Len(input.keys))
  BY DEF Typing, TypingLoop!Outcome, TypeStep

\* What the keys mean are bytes, and those that are typed, unless a digit that
\* was rubbed out was not the one that is left.
LEMMA TypedIs ==
  ASSUME NEW s, s.hex_cols \in Nat \ {0}, s.page_start \in Nat, s.page_start % s.hex_cols = 0,
         NEW addr \in Nat, s.page_start <= addr, NEW input \in Inputs, NEW room,
         NEW st, st = Typing(s, addr, input, room)
  PROVE  /\ st \in Strokes /\ st.addr = addr /\ st.page_start % s.hex_cols = 0
         /\ "back" \in st.met \/ st.page_start <= addr + Len(st.buf)
         /\ Spelled(input) \in Seq(Byte)
         /\ "half" \in st.met \/ st.buf = Spelled(input)
  <1> DEFINE keys == input.keys
             window == input.window
             least == LeastDigits(window)
             n == Len(keys)
             begin == Start(s, addr)
  <1>1. /\ window \in {"hex", "ascii"} /\ n \in Nat
        /\ \A k \in 1 .. n : keys[k] \in Keys(window)
    BY InputIs
  <1>2. PICK t : TypingLoop!Turns(s, input, room, begin, n, t)
    BY <1>1, TypingLoop!LoopTurns
  <1>3. PICK g : SpellLoop!Turns(keys, least, 0, <<>>, n, g)
    BY <1>1, SpellLoop!LoopTurns
  <1>4. /\ t[0] = begin /\ st = t[n]
        /\ \A k \in 1 .. n : t[k] = Drawn(s, Took(t[k - 1], window, keys[k]), room)
    BY <1>2, TypingIs DEF TypingLoop!Turns, TypeStep
  <1>5. /\ g[0] = <<>>
        /\ \A k \in 1 .. n : g[k] = SpellKey(g[k - 1], keys[k], least)
        /\ Spelled(input) = [i \in 1 .. Len(g[n]) \div 2 |-> <<g[n][2 * i - 1], g[n][2 * i]>>]
    <2>1. SpellLoop!Outcome(keys, least, 0, <<>>, n) = g[n]
      BY <1>3 DEF SpellLoop!Turns
    <2>2. Spelled(input) = [i \in 1 .. Len(g[n]) \div 2 |-> <<g[n][2 * i - 1], g[n][2 * i]>>]
      <3> DEFINE f == SpellLoop!Outcome(keys, least, 0, <<>>, n)
      <3>1. Spelled(input) = [i \in 1 .. Len(f) \div 2 |-> <<f[2 * i - 1], f[2 * i]>>]
        BY SpelledIs
      <3> HIDE DEF f
      <3>2. f = g[n]
        BY <2>1 DEF f
      <3> QED BY <3>1, <3>2
    <2> QED BY <1>3, <2>2 DEF SpellLoop!Turns, SpellStep
  <1> DEFINE Good(k) ==
               /\ t[k] \in Strokes /\ t[k].addr = addr /\ t[k].page_start % s.hex_cols = 0
               /\ "back" \in t[k].met \/ t[k].page_start <= addr + Len(t[k].buf)
               /\ window = "ascii" => t[k].tmp = <<>>
               /\ g[k] \in Seq(Digit)
               /\ "half" \in t[k].met \/ Spells(g[k], t[k].buf, t[k].tmp)
             S == {k \in 0 .. n : Good(k)}
  <1>6. Good(0)
    <2>1. <<>> \in Seq(Byte) /\ <<>> \in Seq(Digit) /\ Len(<<>>) = 0
      OBVIOUS
    <2>2. begin = [addr |-> addr, buf |-> <<>>, tmp |-> <<>>, page_start |-> s.page_start, met |-> {}]
      BY DEF Start
    <2> HIDE DEF begin
    <2>3. begin \in Strokes /\ begin.addr = addr /\ begin.page_start = s.page_start
          /\ begin.buf = <<>> /\ begin.tmp = <<>>
      BY <2>1, <2>2 DEF Strokes
    <2>4. Spells(<<>>, <<>>, <<>>)
      BY <2>1 DEF Spells
    <2> QED BY <1>4, <1>5, <2>1, <2>3, <2>4
  <1>7. ASSUME NEW k \in 0 .. n - 1, Good(k) PROVE Good(k + 1)
    <2> DEFINE u == Took(t[k], window, keys[k + 1])
               v == SpellKey(g[k], keys[k + 1], least)
    <2>1. k + 1 \in 1 .. n /\ (k + 1) - 1 = k
      BY <1>1
    <2>2. t[k + 1] = Drawn(s, u, room) /\ g[k + 1] = v
      BY <1>4, <1>5, <2>1
    <2>3. keys[k + 1] \in Keys(window)
      BY <1>1, <2>1
    <2> DEFINE a == t[k]
               b == g[k]
               key == keys[k + 1]
    <2>9. /\ a \in Strokes /\ b \in Seq(Digit) /\ key \in Keys(window)
          /\ window = "ascii" => a.tmp = <<>>
          /\ u = Took(a, window, key) /\ v = SpellKey(b, key, LeastDigits(window))
      BY <1>7, <2>3
    <2> HIDE DEF keys, window, a, b, key, u, v
    <2>10. /\ Follows(u, a) /\ v \in Seq(Digit)
           /\ window = "ascii" => u.tmp = <<>>
           /\ (Spells(b, a.buf, a.tmp) /\ "half" \notin u.met) => Spells(v, u.buf, u.tmp)
      BY <1>1, <2>9, TookIs
    <2>4. /\ Follows(u, t[k]) /\ v \in Seq(Digit)
          /\ window = "ascii" => u.tmp = <<>>
          /\ (Spells(g[k], t[k].buf, t[k].tmp) /\ "half" \notin u.met) => Spells(v, u.buf, u.tmp)
      BY <2>10 DEF a, b
    <2>5. u \in Strokes /\ u.addr = addr /\ u.page_start % s.hex_cols = 0 /\ t[k].met \subseteq u.met
      BY <1>7, <2>4 DEF Follows
    <2> DEFINE w == Drawn(s, u, room)
    <2>6. /\ w \in Strokes /\ w.addr = u.addr /\ w.buf = u.buf /\ w.tmp = u.tmp
          /\ u.met \subseteq w.met
          /\ w.page_start % s.hex_cols = 0
          /\ "back" \in w.met \/ w.page_start <= w.addr + Len(w.buf)
      BY <2>5, DrawnIs
    <2> HIDE DEF w
    <2>7. t[k + 1] = w
      BY <2>2 DEF w
    <2>8. "half" \in w.met \/ Spells(v, w.buf, w.tmp)
      BY <1>7, <2>4, <2>5, <2>6
    <2> QED BY <2>2, <2>4, <2>5, <2>6, <2>7, <2>8
  <1>8. Good(n)
    <2>1. 0 \in S /\ \A k \in 0 .. n - 1 : k \in S => k + 1 \in S
      <3> HIDE DEF Good, n
      <3> QED BY <1>1, <1>6, <1>7
    <2> HIDE DEF S, n
    <2>2. 0 .. n \subseteq S
      BY <1>1, <2>1, UpTo
    <2>3. n \in S
      BY <1>1, <2>2
    <2> QED BY <2>3 DEF S
  <1> DEFINE f == g[n]
  <1>9. f \in Seq(Digit) /\ Len(f) \in Nat /\ \A i \in 1 .. Len(f) : f[i] \in Digit
    BY <1>8, LenProperties
  <1>10. /\ Spelled(input) \in Seq(Byte)
         /\ Len(Spelled(input)) = Len(f) \div 2 /\ Len(f) \div 2 \in Nat
    <2> DEFINE m == Len(f) \div 2
               b == [i \in 1 .. m |-> <<f[2 * i - 1], f[2 * i]>>]
    <2>1. Spelled(input) = b
      BY <1>5
    <2> HIDE DEF f
    <2>2. m \in Nat /\ \A i \in 1 .. m : 2 * i - 1 \in 1 .. Len(f) /\ 2 * i \in 1 .. Len(f)
      BY <1>9
    <2>3. ASSUME NEW i \in 1 .. m PROVE <<f[2 * i - 1], f[2 * i]>> \in Byte
      BY <1>9, <2>2 DEF Byte
    <2>4. b \in [1 .. m -> Byte]
      BY <2>3
    <2>5. b \in Seq(Byte) /\ Len(b) = m
      <3> HIDE DEF b, m
      <3> QED BY <2>2, <2>4, FcnIsRow
    <2> QED BY <2>1, <2>2, <2>5
  <1>11. ASSUME "half" \notin st.met PROVE st.buf = Spelled(input)
    <2>1. Spells(f, st.buf, st.tmp) /\ st.buf \in Seq(Byte) /\ Len(st.buf) \in Nat
          /\ st.tmp \in {<<>>} \cup {<<x>> : x \in Digit}
      BY <1>4, <1>8, <1>11, LenProperties DEF Strokes
    <2> HIDE DEF f
    <2>2. Len(st.tmp) \in 0 .. 1
      BY <2>1
    <2>3. Len(f) \div 2 = Len(st.buf)
      <3>1. Len(f) = 2 * Len(st.buf) + Len(st.tmp)
        BY <2>1 DEF Spells
      <3>2. \A x, y \in Nat : y \in 0 .. 1 => (2 * x + y) \div 2 = x
        OBVIOUS
      <3> DEFINE x == Len(st.buf)
                 y == Len(st.tmp)
      <3>3. x \in Nat /\ y \in Nat /\ y \in 0 .. 1 /\ Len(f) = 2 * x + y
        BY <2>1, <2>2, <3>1
      <3>4. Len(f) \div 2 = x
        <4> HIDE DEF x, y
        <4> QED BY <3>2, <3>3, Zenon
      <3> QED BY <3>4
    <2>4. ASSUME NEW i \in 1 .. Len(st.buf) PROVE st.buf[i] = Spelled(input)[i]
      <3>1. Spelled(input)[i] = <<f[2 * i - 1], f[2 * i]>>
        BY <1>5, <2>3 DEF f
      <3>2. f[2 * i - 1] = st.buf[i][1] /\ f[2 * i] = st.buf[i][2]
        BY <2>1 DEF Spells
      <3>3. st.buf[i] \in Byte
        BY <2>1, LenProperties
      <3>4. st.buf[i] = <<st.buf[i][1], st.buf[i][2]>>
        BY <3>3 DEF Byte
      <3> QED BY <3>1, <3>2, <3>4
    <2> QED BY <1>10, <2>1, <2>3, <2>4, SeqEqual
  <1> QED
    BY <1>4, <1>8, <1>10, <1>11

(***************************************************************************)
(* A history and the screen that shows it.                                 *)
(***************************************************************************)
\* The slips that put the screen out of step are left out, and a page has a
\* percent's worth of bytes on every layout.
Steady ==
  /\ {"emptied", "past", "tail", "back"} \cap Slips = {}
  /\ \A t \in Layouts : HexLines(t) * HexCols(t) >= Unit

Lay(s) == \E t \in Layouts : s.hex_cols = HexCols(t) /\ s.hex_lines = HexLines(t)

\* a history and a screen that shows it
Fits(s) ==
  /\ s = [h |-> s.h, d |-> s.d]
  /\ Hist(s.h) /\ Within(s.h)
  /\ Paged(s.d) /\ s.d.file_size = Len(Text(s.h)) /\ Lay(s.d)

Shows(s) == Fits(s) /\ Selects(s.d)

Live(s) == Shows(s) /\ InPlace(s.d)

\* An address is looked at again.
ShownAgain(s, n, to) ==
  LET placed == PlaceCursor(UpdateDisplayInfo(s, n), to) IN PrintScreen(placed, placed.page_start)

\* The cursor goes to an address of the text, or stays on the page.
LEMMA ShownAgainIs ==
  ASSUME NEW s, Paged(s), NEW n \in Nat, n = 0 => s.page_start = 0, NEW to,
         NEW u, u = ShownAgain(s, n, to)
  PROVE  /\ Paged(u) /\ u.file_size = n /\ u.select = s.select
         /\ u.hex_cols = s.hex_cols /\ u.hex_lines = s.hex_lines
         /\ to \in 0 .. n - 1 => InPlace(u) /\ u.cursor_addr = to
         /\ n = 0 => InPlace(u) /\ u.cursor_addr = 0
         /\ (to \notin 0 .. n - 1 /\ n # 0) =>
              /\ u.page_start = s.page_start
              /\ u.cursor_addr = Least(Most(s.cursor_addr, s.page_start), u.page_end)
  <1> DEFINE seen == UpdateDisplayInfo(s, n)
             placed == PlaceCursor(seen, to)
  <1>1. /\ Paged(seen) /\ seen.file_size = n /\ seen.select = s.select
        /\ seen.hex_cols = s.hex_cols /\ seen.hex_lines = s.hex_lines
        /\ seen.page_start = s.page_start - (s.page_start % s.hex_cols)
        /\ seen.cursor_addr = Least(Most(s.cursor_addr, seen.page_start), seen.page_end)
    BY UpdatedIs DEF Paged
  <1> HIDE DEF seen
  <1>2. seen.page_start = s.page_start
    BY <1>1 DEF Paged
  <1>3. /\ Paged(placed) /\ Alike(placed, seen)
        /\ AddressValid(seen, to) => placed.cursor_addr = to /\ OnPage(placed, to)
        /\ (~AddressValid(seen, to) /\ seen.file_size = 0) => placed.cursor_addr = 0
        /\ (~AddressValid(seen, to) /\ seen.file_size # 0) => placed = seen
    BY <1>1, PlacedIs
  <1>4. u = PrintScreen(placed, placed.page_start)
    BY DEF ShownAgain, seen
  <1> HIDE DEF placed
  <1>5. u = placed
    BY <1>3, <1>4, RedrawnIs
  <1>6. AddressValid(seen, to) <=> to \in 0 .. n - 1
    BY <1>1 DEF AddressValid
  <1>7. n = 0 => to \notin 0 .. n - 1
    OBVIOUS
  <1> QED
    BY <1>1, <1>2, <1>3, <1>5, <1>6, <1>7 DEF InPlace, Alike, AddressValid

\* A text that grows leaves the cursor where it is.
LEMMA CursorStays ==
  ASSUME NEW s, InPlace(s), NEW n \in Nat, n >= s.file_size,
         NEW u, u = UpdateDisplayInfo(s, n)
  PROVE  u.cursor_addr = s.cursor_addr
  <1>1. /\ Paged(s) /\ s.file_size \in Nat /\ s.cursor_addr \in Int /\ s.page_start \in Nat
        /\ s.page_end = PageEnd(s) /\ PageSize(s) \in Nat /\ PageSize(s) >= 1
    BY UnitAssumption DEF InPlace, Paged, Wide, Screens
  <1>2. /\ Paged(u) /\ u.file_size = n
        /\ u.hex_cols = s.hex_cols /\ u.hex_lines = s.hex_lines
        /\ u.page_start = s.page_start - (s.page_start % s.hex_cols)
        /\ u.cursor_addr = Least(Most(s.cursor_addr, u.page_start), u.page_end)
    <2>1. n = 0 => s.page_start = 0
      BY <1>1 DEF Paged
    <2> QED BY <1>1, <2>1, UpdatedIs DEF Paged
  <1>3. /\ u.page_start = s.page_start /\ PageSize(u) = PageSize(s) /\ u.page_end = PageEnd(u)
    BY <1>1, <1>2 DEF Paged, PageSize
  <1>4. s.page_start <= s.cursor_addr /\ s.cursor_addr <= s.page_start + PageSize(s) - 1
        /\ s.cursor_addr <= Most(s.file_size - 1, 0)
    BY <1>1 DEF InPlace, Paged, OnPage, AddressValid, PageEnd, Most
  <1>5. s.cursor_addr <= u.page_end /\ u.page_end \in Int
    BY <1>1, <1>2, <1>3, <1>4 DEF PageEnd, Most
  <1> QED
    BY <1>1, <1>2, <1>3, <1>4, <1>5 DEF Least, Most

\* The cursor is put on its page before the next key.
ScreenInv ==
  /\ Live(State) /\ Len(text) <= MaxLen

\* A key that leaves a screen that shows its text keeps them in step.
LEMMA BecomeShows ==
  ASSUME NEW s, Shows(s), OnByte(s.d), Become(s)
  PROVE  ScreenInv'
  <1>1. /\ Len(Text(s.h)) <= MaxLen
        /\ versions' = s.h.versions /\ pos' = s.h.pos
        /\ d' = PlaceCursor(s.d, s.d.cursor_addr)
    BY DEF Become
  <1>2. History' = s.h
    BY <1>1 DEF History, Shows, Fits, Hist, Histories
  <1>3. InPlace(d') /\ Alike(d', s.d)
    BY <1>1, Settled DEF Shows, Fits
  <1>4. Shows([h |-> s.h, d |-> d'])
    BY <1>3 DEF Shows, Fits, InPlace, Alike, Lay, Selects, AddressValid
  <1>5. State' = [h |-> s.h, d |-> d'] /\ text' = Text(s.h)
    BY <1>2 DEF State, text
  <1> QED
    BY <1>1, <1>3, <1>4, <1>5 DEF ScreenInv, Live

\* The screen of a state is changed, or its history.
LEMMA ScreenChanged ==
  ASSUME NEW x, x = [h |-> x.h, d |-> x.d], NEW v, NEW u, u = [x EXCEPT !.d = v]
  PROVE  u.h = x.h /\ u.d = v /\ u = [h |-> u.h, d |-> u.d]
  <1> DEFINE a == x.h
             b == x.d
  <1>1. x = [h |-> a, d |-> b]
    OBVIOUS
  <1> HIDE DEF a, b
  <1>2. u = [h |-> a, d |-> v]
    BY <1>1, Zenon
  <1> QED
    BY <1>2 DEF a

\* The bytes acted on are bytes of the text.
LEMMA CutIs ==
  ASSUME NEW s, InPlace(s), Selects(s), s.file_size # 0,
         NEW n \in Nat, NEW end \in {NoAddr} \cup Nat
  PROVE  /\ AddressValid(s, First(s, end)) /\ First(s, end) \in Nat
         /\ First(s, end) <= s.cursor_addr
         /\ Cut(s, n, end) \in 1 .. s.file_size - First(s, end)
  <1>1. s.file_size \in Nat /\ s.cursor_addr \in 0 .. s.file_size - 1
    BY DEF InPlace, Paged, Wide, Screens, AddressValid
  <1>2. Count(n) \in Nat \ {0}
    BY DEF Count
  <1>3. CASE IsVisualOn(s)
    <2>1. s.select \in 0 .. s.file_size - 1
      BY <1>3 DEF IsVisualOn, Selects, AddressValid
    <2>2. First(s, end) = VisualAddr(s) /\ Span(s, n, end) = VisualSpan(s)
      BY <1>3, Zenon DEF First, Span
    <2> QED
      BY <1>1, <2>1, <2>2 DEF VisualAddr, VisualSpan, Cut, Least, Most, AddressValid
  <1>4. CASE ~IsVisualOn(s) /\ end # NoAddr
    <2>1. First(s, end) = Least(end, s.cursor_addr)
          /\ Span(s, n, end) = Count(n) * (Most(end, s.cursor_addr) - First(s, end) + 1)
      BY <1>4, Zenon DEF First, Span
    <2>2. end \in Nat
      BY <1>4
    <2> DEFINE c == Count(n)
               w == Most(end, s.cursor_addr) - First(s, end) + 1
    <2>3. First(s, end) \in 0 .. s.cursor_addr /\ w \in Nat \ {0}
      BY <1>1, <2>1, <2>2 DEF Least, Most
    <2>4. c * w \in Nat /\ c * w >= 1
      <3> HIDE DEF c, w
      <3>1. c \in Nat \ {0}
        BY <1>2 DEF c
      <3> QED BY <2>3, <3>1
    <2>5. Span(s, n, end) = c * w
      BY <2>1
    <2> HIDE DEF c, w
    <2> QED
      BY <1>1, <2>3, <2>4, <2>5 DEF Cut, Least, AddressValid
  <1>5. CASE ~IsVisualOn(s) /\ end = NoAddr
    <2>1. First(s, end) = s.cursor_addr /\ Span(s, n, end) = Count(n)
      BY <1>5, Zenon DEF First, Span
    <2> QED
      BY <1>1, <1>2, <2>1 DEF Cut, Least, AddressValid
  <1> QED
    BY <1>3, <1>4, <1>5

\* A delete takes the bytes acted on, and the cursor goes to where they were,
\* or to the last byte.
LEMMA DeletedIs ==
  ASSUME Steady, NEW s, Live(s), Len(Text(s.h)) <= MaxLen, NEW n \in Nat, NEW end \in {NoAddr} \cup Nat,
         NEW u, u = Deleted(s, n, end), NotEmptied(u.h, s.d)
  PROVE  /\ Fits(u) /\ InPlace(u.d) /\ u.d.select = s.d.select
         /\ Len(Text(u.h)) <= MaxLen
         /\ s.d.file_size = 0 => u = s
         /\ s.d.file_size # 0 =>
              LET a == First(s.d, end)
                  m == Cut(s.d, n, end)
              IN  /\ Text(u.h) = Exchange(Text(s.h), a, m, <<>>)
                  /\ Len(Text(u.h)) = Len(Text(s.h)) - m
                  /\ u.d.cursor_addr = IF a < Len(Text(u.h)) THEN a ELSE Most(Len(Text(u.h)) - 1, 0)
  <1>1. CASE s.d.file_size = 0
    <2>1. ~AddressValid(s.d, First(s.d, end))
      BY <1>1 DEF AddressValid
    <2>2. u = s
      BY <2>1, Zenon DEF Deleted
    <2> QED BY <1>1, <2>2 DEF Live, Shows
  <1>2. CASE s.d.file_size # 0
    <2> DEFINE a == First(s.d, end)
               m == Cut(s.d, n, end)
               h == DeleteAt(s.h, a, m)
               size == Len(Text(h))
               seen == UpdateDisplayInfo(s.d, size)
               to == IF AddressValid(seen, a) THEN a ELSE Most(seen.file_size - 1, 0)
               v == ShownAgain(s.d, size, to)
    <2>1. /\ AddressValid(s.d, a) /\ a \in Nat /\ m \in 1 .. s.d.file_size - a
          /\ s.d.file_size \in Nat /\ Hist(s.h) /\ Within(s.h) /\ s.d.file_size = Len(Text(s.h))
          /\ Paged(s.d) /\ Lay(s.d)
      <3>1. /\ InPlace(s.d) /\ Selects(s.d) /\ Hist(s.h) /\ Within(s.h)
            /\ s.d.file_size = Len(Text(s.h)) /\ Lay(s.d) /\ Paged(s.d)
        BY DEF Live, Shows, Fits
      <3>2. s.d.file_size \in Nat
        BY <3>1, TextIs
      <3> QED BY <1>2, <3>1, <3>2, CutIs
    <2>2. u = [h |-> h, d |-> v]
      BY <2>1, Zenon DEF Deleted, ShownAgain
    <2> HIDE DEF a, m
    <2>3. /\ Hist(h) /\ Within(h) /\ Text(h) = Exchange(Text(s.h), a, m, <<>>)
          /\ size = Len(Text(s.h)) - m /\ size \in Nat /\ size <= MaxLen
      <3> DEFINE c == [op |-> "delete", offset |-> a, buf |-> <<>>, len |-> m]
      <3>1. /\ Edits(c) /\ Inside(s.h, c) /\ Taken(c) = m /\ c.buf = <<>> /\ c.offset = a /\ Len(c.buf) = 0
        <4>1. <<>> \in Seq(Byte) /\ Len(<<>>) = 0 /\ m \in Nat
          BY <2>1
        <4> QED BY <2>1, <4>1 DEF Edits, Inside, Taken
      <3>2. h = After(s.h, c)
        BY Zenon DEF DeleteAt
      <3> HIDE DEF c, h
      <3>3. /\ Hist(h) /\ Text(h) = Exchange(Text(s.h), a, m, <<>>)
            /\ Len(Text(h)) = Len(Text(s.h)) - m + 0
            /\ Within(h)
        BY <2>1, <3>1, <3>2, EditedIs
      <3> QED BY <2>1, <3>3, EditorAssumption
    <2> HIDE DEF h
    <2>4. u.h = h /\ u.d = v
      BY <2>2
    <2>5. size = 0 => s.d.page_start = 0
      <3>1. size = 0 => Text(h) = <<>>
        BY <2>3, TextIs, EmptySeq
      <3>2. "emptied" \notin Slips
        BY DEF Steady
      <3> QED BY <2>4, <3>1, <3>2 DEF NotEmptied
    <2> HIDE DEF size
    <2>6. seen.file_size = size
      <3>1. Wide(s.d) /\ s.d.page_start \in Nat
        BY <2>1 DEF Paged
      <3> QED BY <2>3, <2>5, <3>1, UpdatedIs
    <2> HIDE DEF seen
    <2>7. to = IF a < size THEN a ELSE Most(size - 1, 0)
      BY <2>1, <2>3, <2>6 DEF AddressValid
    <2> HIDE DEF to, v
    <2>8. v = ShownAgain(s.d, size, to)
      BY DEF v, seen, to
    <2>9. size # 0 => to \in 0 .. size - 1
      BY <2>1, <2>3, <2>7 DEF Most
    <2>10. size = 0 => to = 0
      BY <2>1, <2>3, <2>7 DEF Most
    <2>11. /\ Paged(v) /\ v.file_size = size /\ v.select = s.d.select
           /\ v.hex_cols = s.d.hex_cols /\ v.hex_lines = s.d.hex_lines
           /\ to \in 0 .. size - 1 => InPlace(v) /\ v.cursor_addr = to
           /\ size = 0 => InPlace(v) /\ v.cursor_addr = 0
      <3>1. Paged(s.d) /\ size \in Nat
        BY <2>1, <2>3
      <3> QED BY <2>5, <2>8, <3>1, ShownAgainIs
    <2>12. Fits(u)
      BY <2>1, <2>2, <2>3, <2>4, <2>11 DEF Fits, Lay, size
    <2>13. InPlace(v) /\ v.cursor_addr = to
      BY <2>9, <2>10, <2>11
    <2> QED
      BY <1>2, <2>3, <2>4, <2>7, <2>11, <2>12, <2>13 DEF a, m, size
  <1> QED
    BY <1>1, <1>2

\* An insert between two bytes of the text, or at its ends.
LEMMA InsertedAt ==
  ASSUME NEW h, Hist(h), Within(h), NEW at \in Nat, at <= Len(Text(h)), NEW buf \in Seq(Byte),
         NEW u, u = InsertAt(h, at, buf)
  PROVE  /\ Hist(u) /\ Within(u) /\ Text(u) = Exchange(Text(h), at, 0, buf)
         /\ Len(Text(u)) = Len(Text(h)) + Len(buf) /\ Len(Text(u)) \in Nat /\ Len(buf) \in Nat
  <1> DEFINE c == [op |-> "insert", offset |-> at, buf |-> buf, len |-> Len(buf)]
  <1>1. Len(buf) \in Nat /\ Len(Text(h)) \in Nat
    BY TextIs, LenProperties
  <1>2. /\ Edits(c) /\ Inside(h, c) /\ Taken(c) = 0 /\ c.buf = buf /\ c.offset = at
    BY <1>1 DEF Edits, Inside, Taken
  <1>3. u = After(h, c)
    BY DEF InsertAt
  <1> HIDE DEF c
  <1>4. /\ Hist(u) /\ Text(u) = Exchange(Text(h), at, 0, buf)
        /\ Len(Text(u)) = Len(Text(h)) - 0 + Len(buf)
        /\ (Len(Text(h)) <= Len(Text(u))) => Within(u)
    BY <1>2, <1>3, EditedIs
  <1> QED
    BY <1>1, <1>4

\* Bytes more: the page stays, and the cursor goes where it is put.
LEMMA GrownIs ==
  ASSUME NEW s, Live(s), NEW h, Hist(h), Within(h), Len(Text(h)) >= s.d.file_size,
         NEW by \in Int,
         NEW v, v = ShownAgain(s.d, Len(Text(h)), UpdateDisplayInfo(s.d, Len(Text(h))).cursor_addr + by),
         NEW u, u = [h |-> h, d |-> v]
  PROVE  /\ Fits(u) /\ OnByte(u.d) /\ u.d.select = s.d.select /\ Selects(u.d) /\ u.d.hex_cols = s.d.hex_cols
         /\ (s.d.cursor_addr + by \in 0 .. Len(Text(h)) - 1) =>
              InPlace(u.d) /\ u.d.cursor_addr = s.d.cursor_addr + by
  <1> DEFINE n == Len(Text(h))
             seen == UpdateDisplayInfo(s.d, n)
             to == s.d.cursor_addr + by
  <1>1. /\ InPlace(s.d) /\ Paged(s.d) /\ Lay(s.d) /\ s.d.file_size \in Nat /\ n \in Nat /\ n >= s.d.file_size
        /\ Selects(s.d) /\ s.d.cursor_addr \in Int /\ s.d.page_start \in Nat
    BY TextIs DEF Live, Shows, Fits, InPlace, Paged, Wide, Screens
  <1>2. seen.cursor_addr = s.d.cursor_addr
    <2> HIDE DEF n
    <2> QED BY <1>1, CursorStays
  <1>3. v = ShownAgain(s.d, n, to)
    BY <1>2
  <1>4. n = 0 => s.d.page_start = 0
    BY <1>1 DEF Paged
  <1> HIDE DEF n, to
  <1>5. /\ Paged(v) /\ v.file_size = n /\ v.select = s.d.select
        /\ v.hex_cols = s.d.hex_cols /\ v.hex_lines = s.d.hex_lines
        /\ to \in 0 .. n - 1 => InPlace(v) /\ v.cursor_addr = to
        /\ n = 0 => InPlace(v) /\ v.cursor_addr = 0
        /\ (to \notin 0 .. n - 1 /\ n # 0) =>
              /\ v.page_start = s.d.page_start
              /\ v.cursor_addr = Least(Most(s.d.cursor_addr, s.d.page_start), v.page_end)
    <2>1. Paged(s.d) /\ n \in Nat
      BY <1>1
    <2> QED BY <1>3, <1>4, <2>1, ShownAgainIs
  <1>6. u.h = h /\ u.d = v /\ u = [h |-> u.h, d |-> u.d]
    OBVIOUS
  <1>7. Fits(u)
    BY <1>1, <1>5, <1>6 DEF Fits, Lay, n
  <1>8. Selects(v)
    BY <1>1, <1>5 DEF Selects, AddressValid
  <1>9. OnByte(v)
    <2>1. CASE n = 0
      BY <1>5, <2>1 DEF OnByte
    <2>2. CASE to \in 0 .. n - 1
      BY <1>5, <2>2 DEF OnByte, AddressValid
    <2>3. CASE to \notin 0 .. n - 1 /\ n # 0
      <3>1. /\ v.page_end = PageEnd(v) /\ v.file_size = n /\ v.page_start = s.d.page_start
            /\ PageSize(v) = PageSize(s.d) /\ PageSize(v) \in Nat /\ PageSize(v) >= 1
            /\ v.cursor_addr = Least(Most(s.d.cursor_addr, s.d.page_start), v.page_end)
        BY <1>1, <1>5, <2>3, UnitAssumption DEF Paged, Wide, PageSize
      <3>2. s.d.page_start <= s.d.cursor_addr /\ s.d.cursor_addr <= Most(s.d.file_size - 1, 0)
        BY <1>1 DEF InPlace, OnPage, AddressValid, Paged, PageEnd, Most
      <3>3. v.page_end \in Nat
        BY <1>1, <3>1 DEF PageEnd, Most
      <3>4. s.d.cursor_addr <= n - 1 /\ Most(s.d.cursor_addr, s.d.page_start) = s.d.cursor_addr
        BY <1>1, <2>3, <3>2 DEF Most
      <3>5. v.cursor_addr = Least(s.d.cursor_addr, v.page_end)
        BY <3>1, <3>4
      <3>6. v.cursor_addr \in 0 .. n - 1
        BY <1>1, <3>2, <3>3, <3>4, <3>5 DEF Least
      <3> QED BY <3>1, <3>6 DEF OnByte, AddressValid
    <2> QED BY <2>1, <2>2, <2>3
  <1> QED
    BY <1>5, <1>6, <1>7, <1>8, <1>9 DEF n, to

\* One insert of i or a: the bytes are in the text, the cursor is on the last
\* one.
LEMMA InsertedIs ==
  ASSUME NEW s, Live(s), NEW after \in BOOLEAN, after => s.d.file_size # 0,
         NEW buf \in Seq(Byte), buf # <<>>, NEW u, u = Inserted(s, after, buf)
  PROVE  /\ Live(u) /\ u.d.select = s.d.select /\ u.d.hex_cols = s.d.hex_cols
         /\ IsVisualOn(s.d) => u = s
         /\ ~IsVisualOn(s.d) =>
              LET one == IF after THEN 1 ELSE 0 IN
              /\ s.d.cursor_addr \in Nat /\ s.d.cursor_addr + one <= Len(Text(s.h))
              /\ Text(u.h) = Exchange(Text(s.h), s.d.cursor_addr + one, 0, buf)
              /\ u.d.cursor_addr = s.d.cursor_addr + Len(buf) - (1 - one)
              /\ Len(Text(u.h)) = Len(Text(s.h)) + Len(buf)
  <1>1. CASE IsVisualOn(s.d)
    BY <1>1, Zenon DEF Inserted
  <1>2. CASE ~IsVisualOn(s.d)
    <2> DEFINE one == IF after THEN 1 ELSE 0
               addr == IF after THEN Least(s.d.cursor_addr, s.d.file_size - 1) + 1 ELSE s.d.cursor_addr
               h == InsertAt(s.h, addr, buf)
               by == Len(buf) - (IF after THEN 0 ELSE 1)
               seen == UpdateDisplayInfo(s.d, Len(Text(h)))
               v == ShownAgain(s.d, Len(Text(h)), seen.cursor_addr + Len(buf) - (IF after THEN 0 ELSE 1))
    <2>1. /\ Hist(s.h) /\ Within(s.h) /\ s.d.file_size = Len(Text(s.h)) /\ s.d.file_size \in Nat
          /\ s.d.cursor_addr \in Nat /\ InPlace(s.d) /\ s.d.cursor_addr \in 0 .. Most(s.d.file_size - 1, 0)
          /\ Len(buf) \in Nat \ {0}
      BY EmptySeq, LenProperties DEF Live, Shows, Fits, InPlace, Paged, Wide, Screens, AddressValid, Most
    <2>2. addr = s.d.cursor_addr + one /\ addr \in Nat /\ addr <= Len(Text(s.h))
      BY <2>1 DEF Least, Most
    <2>3. u = [h |-> h, d |-> v]
      BY <1>2 DEF Inserted, ShownAgain
    <2> HIDE DEF addr
    <2>4. /\ Hist(h) /\ Within(h) /\ Text(h) = Exchange(Text(s.h), addr, 0, buf)
          /\ Len(Text(h)) = Len(Text(s.h)) + Len(buf) /\ Len(Text(h)) \in Nat
      BY <2>1, <2>2, InsertedAt
    <2> HIDE DEF h
    <2>5. seen.cursor_addr = s.d.cursor_addr
      BY <2>1, <2>4, CursorStays
    <2>6. seen.cursor_addr + Len(buf) - (IF after THEN 0 ELSE 1) = seen.cursor_addr + by
          /\ by \in Int /\ by = Len(buf) - (1 - one)
      BY <2>1, <2>5
    <2>7. v = ShownAgain(s.d, Len(Text(h)), UpdateDisplayInfo(s.d, Len(Text(h))).cursor_addr + by)
      BY <2>6
    <2> HIDE DEF v, by, seen
    <2>8. /\ Fits(u) /\ OnByte(u.d) /\ u.d.select = s.d.select /\ Selects(u.d) /\ u.d.hex_cols = s.d.hex_cols
          /\ (s.d.cursor_addr + by \in 0 .. Len(Text(h)) - 1) =>
               InPlace(u.d) /\ u.d.cursor_addr = s.d.cursor_addr + by
      <3>1. Len(Text(h)) >= s.d.file_size /\ by \in Int
        BY <2>1, <2>4, <2>6
      <3> QED BY <2>3, <2>4, <2>7, <3>1, GrownIs
    <2>9. s.d.cursor_addr + by \in 0 .. Len(Text(h)) - 1
      BY <2>1, <2>2, <2>4, <2>6
    <2>10. u.h = h
      BY <2>3
    <2> QED BY <1>2, <2>1, <2>2, <2>4, <2>6, <2>8, <2>9, <2>10 DEF Live, Shows
  <1> QED
    BY <1>1, <1>2

InsertStep(a, b, c, acc, x) == Inserted(acc, a, b)
PasteStep(a, b, c, acc, x) == InsertAt(acc, a, b)
WriteStep(a, b, c, acc, x) == ReplaceAt(acc, a + (x - 1) * Len(b), b)

InsertLoop == INSTANCE DataLemmas WITH Op <- InsertStep, Body <- NoBody
PasteLoop  == INSTANCE DataLemmas WITH Op <- PasteStep, Body <- NoBody
WriteLoop  == INSTANCE DataLemmas WITH Op <- WriteStep, Body <- NoBody

\* n bytes b
Row(n, b) == [i \in 1 .. n |-> b]

\* A row of bytes is a text.
LEMMA RowIs ==
  ASSUME NEW n \in Nat, NEW b \in Byte
  PROVE  /\ Row(n, b) \in Seq(Byte) /\ Len(Row(n, b)) = n
         /\ \A i \in 1 .. n : Row(n, b)[i] = b
  <1>1. Row(n, b) \in [1 .. n -> Byte]
    BY DEF Row
  <1> QED
    BY <1>1, FcnIsRow DEF Row

\* One more byte among the same.
LEMMA RowGrows ==
  ASSUME NEW t \in Seq(Byte), NEW a \in Nat, a <= Len(t), NEW n \in Nat,
         NEW b \in Byte, NEW one \in Seq(Byte), Len(one) = 1, one[1] = b,
         NEW at \in Nat, a <= at, at <= a + n, NEW more \in Nat, more = n + 1
  PROVE  Exchange(Exchange(t, a, 0, Row(n, b)), at, 0, one) = Exchange(t, a, 0, Row(more, b))
  <1> DEFINE w == Exchange(t, a, 0, Row(n, b))
  <1>0. w = Exchange(t, a, 0, Row(n, b))
    OBVIOUS
  <1> HIDE DEF w
  <1> DEFINE u == Exchange(w, at, 0, one)
             v == Exchange(t, a, 0, Row(more, b))
  <1>1. /\ Row(n, b) \in Seq(Byte) /\ Len(Row(n, b)) = n /\ \A i \in 1 .. n : Row(n, b)[i] = b
    BY RowIs
  <1>2. /\ Row(more, b) \in Seq(Byte) /\ Len(Row(more, b)) = n + 1
        /\ \A i \in 1 .. n + 1 : Row(more, b)[i] = b
    <2> QED BY RowIs
  <1>3. Len(t) \in Nat /\ Lies(t, a, 0)
    BY LenProperties DEF Lies
  <1> DEFINE r == Row(n, b)
             q == Row(more, b)
  <1>4. /\ w \in Seq(Byte) /\ Len(w) = Len(t) + n
        /\ \A i \in 1 .. Len(t) + n : w[i] = IF i <= a THEN t[i] ELSE IF i <= a + n THEN b ELSE t[i - n]
    <2>1. r \in Seq(Byte) /\ w = Exchange(t, a, 0, r)
      BY <1>0, <1>1
    <2>2. Len(r) = n /\ \A i \in 1 .. n : r[i] = b
      BY <1>1
    <2> HIDE DEF r
    <2>3. w \in Seq(Byte) /\ Exchanged(w, t, a, 0, r)
      BY <1>3, <2>1, ExchangeIs
    <2> QED BY <1>3, <2>2, <2>3 DEF Exchanged
  <1>5. /\ v \in Seq(Byte) /\ Len(v) = Len(t) + n + 1
        /\ \A i \in 1 .. Len(t) + n + 1 :
             v[i] = IF i <= a THEN t[i] ELSE IF i <= a + n + 1 THEN b ELSE t[i - n - 1]
    <2>1. q \in Seq(Byte) /\ v = Exchange(t, a, 0, q)
      BY <1>2
    <2>2. Len(q) = n + 1 /\ \A i \in 1 .. n + 1 : q[i] = b
      BY <1>2
    <2> HIDE DEF q, v
    <2>3. v \in Seq(Byte) /\ Exchanged(v, t, a, 0, q)
      BY <1>3, <2>1, ExchangeIs
    <2> QED BY <1>3, <2>2, <2>3 DEF Exchanged
  <1>6. Lies(w, at, 0)
    BY <1>3, <1>4 DEF Lies
  <1>7. u \in Seq(Byte) /\ Exchanged(u, w, at, 0, one)
    <2>1. Lies(w, at, 0) /\ w \in Seq(Byte) /\ u = Exchange(w, at, 0, one)
      BY <1>4, <1>6
    <2> HIDE DEF u
    <2>2. u \in Seq(Byte) /\ Exchanged(u, w, at, 0, one)
      BY <2>1, ExchangeIs
    <2> QED BY <2>2
  <1> HIDE DEF u, v
  <1>8. ASSUME NEW i \in 1 .. Len(t) + n + 1 PROVE u[i] = v[i]
    <2>1. u[i] = IF i <= at THEN w[i] ELSE IF i <= at + 1 THEN one[i - at] ELSE w[i - 1]
      <3>1. i \in 1 .. Len(w) - 0 + Len(one) /\ i - Len(one) + 0 = i - 1
        BY <1>3, <1>4
      <3>2. u[i] = IF i <= at THEN w[i] ELSE IF i <= at + Len(one) THEN one[i - at]
                   ELSE w[i - Len(one) + 0]
        BY <1>7, <3>1 DEF Exchanged
      <3> QED BY <3>1, <3>2
    <2>4. CASE i <= at
      <3>1. i \in 1 .. Len(t) + n /\ i <= a + n /\ i <= a + n + 1
        BY <1>3, <2>4
      <3>2. w[i] = IF i <= a THEN t[i] ELSE b
        BY <1>4, <3>1
      <3>3. v[i] = IF i <= a THEN t[i] ELSE b
        BY <1>5, <3>1
      <3> QED BY <2>1, <2>4, <3>2, <3>3
    <2>5. CASE i = at + 1
      BY <1>3, <1>5, <2>1, <2>5
    <2>6. CASE i > at + 1
      <3>1. i - 1 \in 1 .. Len(t) + n /\ ~(i - 1 <= a) /\ ~(i <= a) /\ i - 1 - n = i - n - 1
            /\ (i - 1 <= a + n <=> i <= a + n + 1)
        BY <1>3, <2>6
      <3>2. w[i - 1] = IF i - 1 <= a + n THEN b ELSE t[i - 1 - n]
        BY <1>4, <3>1
      <3>3. v[i] = IF i <= a + n + 1 THEN b ELSE t[i - n - 1]
        BY <1>3, <1>5, <2>6, <3>1
      <3>4. u[i] = w[i - 1]
        BY <1>3, <2>1, <2>6
      <3>5. CASE i - 1 <= a + n
        BY <3>1, <3>2, <3>3, <3>4, <3>5
      <3>6. CASE ~(i - 1 <= a + n)
        <4>1. v[i] = t[i - n - 1] /\ u[i] = t[i - 1 - n]
          BY <3>1, <3>2, <3>3, <3>4, <3>6
        <4>2. t[i - n - 1] = t[i - 1 - n]
          BY <3>1, Zenon
        <4> QED BY <4>1, <4>2, Zenon
      <3> QED BY <3>5, <3>6
    <2>7. i <= at \/ i = at + 1 \/ i > at + 1
      OBVIOUS
    <2> QED BY <2>4, <2>5, <2>6, <2>7
  <1>9. Len(u) = Len(v) /\ Len(v) = Len(t) + n + 1 /\ u \in Seq(Byte) /\ v \in Seq(Byte)
    BY <1>3, <1>4, <1>5, <1>7 DEF Exchanged
  <1>10. u = v
    BY <1>8, <1>9, SeqEqual
  <1> QED
    BY <1>10 DEF u, v, w

\* Nothing gives way to nothing.
LEMMA ExchangeNothing ==
  ASSUME NEW t \in Seq(Byte), NEW a \in Nat, a <= Len(t), NEW b \in Seq(Byte), Len(b) = 0
  PROVE  Exchange(t, a, 0, b) = t
  <1> DEFINE u == Exchange(t, a, 0, b)
  <1>1. Len(t) \in Nat /\ Lies(t, a, 0)
    BY LenProperties DEF Lies
  <1>2. u \in Seq(Byte) /\ Exchanged(u, t, a, 0, b)
    BY <1>1, ExchangeIs
  <1> HIDE DEF u
  <1>3. Len(u) = Len(t) /\ \A i \in 1 .. Len(t) : u[i] = t[i]
    BY <1>1, <1>2 DEF Exchanged
  <1>4. u = t
    BY <1>2, <1>3, SeqEqual
  <1> QED
    BY <1>4 DEF u

\* One copy of what was typed, or so many of a byte.
InsertedCopies(u, s, at, buf, n) ==
  /\ (~IsVisualOn(s.d) /\ n = 1) => Text(u.h) = Exchange(Text(s.h), at, 0, buf)
  /\ (~IsVisualOn(s.d) /\ Len(buf) = 1) => Text(u.h) = Exchange(Text(s.h), at, 0, Row(n, buf[1]))

\* What is typed is inserted again and again.
LEMMA InsertsIs ==
  ASSUME NEW s, Live(s), NEW after \in BOOLEAN, after => s.d.file_size # 0,
         NEW buf \in Seq(Byte), buf # <<>>, NEW n \in Nat,
         NEW u, u = InsertLoop!Outcome(after, buf, 0, s, n),
         NEW at, at = s.d.cursor_addr + (IF after THEN 1 ELSE 0)
  PROVE  /\ Live(u) /\ u.d.select = s.d.select /\ u.d.hex_cols = s.d.hex_cols
         /\ (~IsVisualOn(s.d) /\ n # 0) => u.d.file_size # 0
         /\ InsertedCopies(u, s, at, buf, n)
  <1> DEFINE one == IF after THEN 1 ELSE 0
             c == s.d.cursor_addr
             b == buf[1]
             Text0 == Text(s.h)
  <1>0. at = c + one
    OBVIOUS
  <1>1. PICK r : InsertLoop!Turns(after, buf, 0, s, n, r)
    BY InsertLoop!LoopTurns
  <1>2. r[0] = s /\ u = r[n] /\ \A k \in 1 .. n : r[k] = Inserted(r[k - 1], after, buf)
    BY <1>1 DEF InsertLoop!Turns, InsertStep
  <1>3. /\ Text0 \in Seq(Byte) /\ Len(Text0) \in Nat /\ s.d.file_size = Len(Text0)
        /\ c \in Nat /\ at \in Nat /\ at <= Len(Text0)
    <2>1. /\ Hist(s.h) /\ s.d.file_size = Len(Text0) /\ InPlace(s.d) /\ s.d.file_size \in Nat
      BY DEF Live, Shows, Fits, Paged, Wide, Screens
    <2>2. c \in 0 .. Most(s.d.file_size - 1, 0)
      BY <2>1 DEF InPlace, AddressValid, Most
    <2> QED BY <1>0, <2>1, <2>2, TextIs DEF Most
  <1> DEFINE Good(k) ==
               /\ Live(r[k]) /\ r[k].d.select = s.d.select /\ r[k].d.hex_cols = s.d.hex_cols /\ (after => r[k].d.file_size # 0)
               /\ (~IsVisualOn(s.d) /\ Len(buf) = 1) =>
                    /\ Text(r[k].h) = Exchange(Text0, at, 0, Row(k, b))
                    /\ r[k].d.cursor_addr = c + one * k
             S == {k \in 0 .. n : Good(k)}
  <1>4. Good(0)
    <2>1. Len(buf) = 1 => Text0 = Exchange(Text0, at, 0, Row(0, b))
      <3>1. Len(buf) = 1 => b \in Byte
        BY LenProperties
      <3>2. Len(buf) = 1 => Row(0, b) \in Seq(Byte) /\ Len(Row(0, b)) = 0
        BY <3>1, RowIs
      <3> HIDE DEF b, Text0
      <3> QED BY <1>3, <3>2, ExchangeNothing
    <2>2. c = c + one * 0
      BY <1>3
    <2> QED BY <1>2, <2>1, <2>2
  <1>5. ASSUME NEW k \in 0 .. n - 1, Good(k) PROVE Good(k + 1)
    <2> DEFINE x == r[k]
               v == r[k + 1]
    <2>1. v = Inserted(x, after, buf)
      <3>1. k + 1 \in 1 .. n /\ (k + 1) - 1 = k
        OBVIOUS
      <3> QED BY <1>2, <3>1
    <2>2. Live(x) /\ (after => x.d.file_size # 0) /\ x.d.select = s.d.select /\ x.d.hex_cols = s.d.hex_cols
      BY <1>5
    <2>3. /\ (~IsVisualOn(s.d) /\ Len(buf) = 1) =>
                /\ Text(x.h) = Exchange(Text0, at, 0, Row(k, b))
                /\ x.d.cursor_addr = c + one * k
      BY <1>5
    <2> HIDE DEF x, v
    <2>4. /\ Live(v) /\ v.d.select = x.d.select /\ v.d.hex_cols = x.d.hex_cols
          /\ IsVisualOn(x.d) => v = x
          /\ ~IsVisualOn(x.d) =>
              LET o == IF after THEN 1 ELSE 0 IN
              /\ x.d.cursor_addr \in Nat /\ x.d.cursor_addr + o <= Len(Text(x.h))
              /\ Text(v.h) = Exchange(Text(x.h), x.d.cursor_addr + o, 0, buf)
              /\ v.d.cursor_addr = x.d.cursor_addr + Len(buf) - (1 - o)
              /\ Len(Text(v.h)) = Len(Text(x.h)) + Len(buf)
      BY <2>1, <2>2, InsertedIs
    <2>5. after => v.d.file_size # 0
      <3>1. Len(buf) \in Nat /\ Len(Text(x.h)) \in Nat /\ v.d.file_size = Len(Text(v.h))
            /\ x.d.file_size = Len(Text(x.h))
        BY <2>2, <2>4, TextIs, LenProperties DEF Live, Shows, Fits
      <3> QED BY <2>2, <2>4, <3>1
    <2>6. ASSUME ~IsVisualOn(s.d), Len(buf) = 1
          PROVE  /\ Text(v.h) = Exchange(Text0, at, 0, Row(k + 1, b))
                 /\ v.d.cursor_addr = c + one * (k + 1)
      <3>1. ~IsVisualOn(x.d)
        BY <2>2, <2>6 DEF IsVisualOn
      <3>2. /\ Text(v.h) = Exchange(Text(x.h), x.d.cursor_addr + one, 0, buf)
            /\ v.d.cursor_addr = x.d.cursor_addr + 1 - (1 - one)
        BY <2>4, <2>6, <3>1
      <3>3. k \in Nat /\ one * k \in 0 .. k /\ one * (k + 1) = one * k + one
        OBVIOUS
      <3>4. b \in Byte /\ buf[1] = b
        BY <2>6, LenProperties
      <3>5. x.d.cursor_addr + one = at + one * k
        BY <1>0, <1>3, <2>3, <2>6, <3>3
      <3> DEFINE j == one * k
      <3>6. Text(v.h) = Exchange(Exchange(Text0, at, 0, Row(k, b)), at + j, 0, buf)
        BY <2>3, <2>6, <3>2, <3>5
      <3>7. j \in 0 .. k
        BY <3>3
      <3>8. Exchange(Exchange(Text0, at, 0, Row(k, b)), at + j, 0, buf) = Exchange(Text0, at, 0, Row(k + 1, b))
        <4> DEFINE to == at + j
                   more == k + 1
        <4>1. /\ k \in Nat /\ Len(buf) = 1 /\ to \in Nat /\ at <= to /\ to <= at + k
              /\ more \in Nat /\ more = k + 1
          BY <1>3, <2>6, <3>3
        <4>2. Exchange(Exchange(Text0, at, 0, Row(k, b)), to, 0, buf) = Exchange(Text0, at, 0, Row(more, b))
          <5> HIDE DEF j, Text0, b, to, more
          <5> QED BY <1>3, <3>4, <4>1, RowGrows
        <4> QED BY <4>2
      <3>9. v.d.cursor_addr = c + one * (k + 1)
        BY <1>3, <2>3, <2>6, <3>2, <3>3
      <3> QED BY <3>6, <3>8, <3>9
    <2>7. Live(v) /\ v.d.select = s.d.select /\ v.d.hex_cols = s.d.hex_cols
      BY <2>2, <2>4
    <2> HIDE DEF b, Text0, one, c
    <2> QED BY <2>5, <2>6, <2>7 DEF v
  <1>6. Good(n)
    <2>1. 0 \in S /\ \A k \in 0 .. n - 1 : k \in S => k + 1 \in S
      <3> HIDE DEF Good
      <3> QED BY <1>4, <1>5
    <2> HIDE DEF S
    <2>2. 0 .. n \subseteq S
      BY <2>1, InsertLoop!UpTo
    <2>3. n \in S
      BY <2>2
    <2> QED BY <2>3 DEF S
  <1>7. ASSUME ~IsVisualOn(s.d), n = 1 PROVE Text(u.h) = Exchange(Text0, at, 0, buf)
    <2>1. u = Inserted(s, after, buf)
      BY <1>2, <1>7
    <2>2. ~IsVisualOn(s.d) =>
              LET o == IF after THEN 1 ELSE 0 IN
              Text(u.h) = Exchange(Text(s.h), s.d.cursor_addr + o, 0, buf)
      BY <2>1, InsertedIs
    <2> QED BY <1>0, <1>7, <2>2
  <1>8. ASSUME ~IsVisualOn(s.d), n # 0 PROVE u.d.file_size # 0
    <2> DEFINE x == r[n - 1]
    <2>1. n - 1 \in 0 .. n /\ n \in 1 .. n
      BY <1>8
    <2>2. 0 \in S /\ \A k \in 0 .. n - 1 : k \in S => k + 1 \in S
      <3> HIDE DEF Good
      <3> QED BY <1>4, <1>5
    <2>3. n - 1 \in S
      <3> HIDE DEF S
      <3>1. 0 .. n \subseteq S
        BY <2>2, InsertLoop!UpTo
      <3> QED BY <2>1, <3>1
    <2>4. Live(x) /\ x.d.select = s.d.select /\ (after => x.d.file_size # 0) /\ u = Inserted(x, after, buf)
      BY <1>2, <2>1, <2>3
    <2> HIDE DEF x
    <2>5. ~IsVisualOn(x.d)
      BY <1>8, <2>4 DEF IsVisualOn
    <2>6. Live(u) /\ Len(Text(u.h)) = Len(Text(x.h)) + Len(buf)
      BY <2>4, <2>5, InsertedIs
    <2>7. Hist(x.h) /\ u.d.file_size = Len(Text(u.h))
      BY <2>4, <2>6 DEF Live, Shows, Fits
    <2>8. Len(buf) \in Nat \ {0} /\ Len(Text(x.h)) \in Nat
      BY <2>7, TextIs, EmptySeq, LenProperties
    <2> QED BY <2>6, <2>7, <2>8
  <1> QED
    BY <1>2, <1>6, <1>7, <1>8 DEF InsertedCopies

\* The register is inserted again and again.
LEMMA PastesIs ==
  ASSUME NEW h, Hist(h), Within(h), NEW at \in Nat, at <= Len(Text(h)), NEW buf \in Seq(Byte), NEW n \in Nat,
         NEW u, u = PasteLoop!Outcome(at, buf, 0, h, n)
  PROVE  /\ Hist(u) /\ Within(u) /\ Len(Text(u)) >= Len(Text(h))
         /\ n = 1 => Text(u) = Exchange(Text(h), at, 0, buf)
         /\ n >= 1 => Len(Text(u)) >= Len(Text(h)) + Len(buf)
  <1>1. PICK r : PasteLoop!Turns(at, buf, 0, h, n, r)
    BY PasteLoop!LoopTurns
  <1>2. r[0] = h /\ u = r[n] /\ \A k \in 1 .. n : r[k] = InsertAt(r[k - 1], at, buf)
    BY <1>1 DEF PasteLoop!Turns, PasteStep
  <1>3. Len(Text(h)) \in Nat /\ Len(buf) \in Nat
    BY TextIs, LenProperties
  <1> DEFINE Good(k) == /\ Hist(r[k]) /\ Within(r[k]) /\ Len(Text(r[k])) \in Nat
                        /\ Len(Text(r[k])) >= Len(Text(h))
                        /\ k >= 1 => Len(Text(r[k])) >= Len(Text(h)) + Len(buf)
             S == {k \in 0 .. n : Good(k)}
  <1>4. Good(0)
    BY <1>2, <1>3
  <1>5. ASSUME NEW k \in 0 .. n - 1, Good(k) PROVE Good(k + 1)
    <2> DEFINE x == r[k]
               v == r[k + 1]
    <2>1. v = InsertAt(x, at, buf)
      <3>1. k + 1 \in 1 .. n /\ (k + 1) - 1 = k
        OBVIOUS
      <3> QED BY <1>2, <3>1
    <2>2. Hist(x) /\ Within(x) /\ Len(Text(x)) \in Nat /\ Len(Text(x)) >= Len(Text(h))
      BY <1>5
    <2> HIDE DEF x, v
    <2>3. at <= Len(Text(x))
      BY <1>3, <2>2
    <2>4. /\ Hist(v) /\ Within(v) /\ Len(Text(v)) = Len(Text(x)) + Len(buf) /\ Len(Text(v)) \in Nat
      BY <2>1, <2>2, <2>3, InsertedAt
    <2> QED BY <1>3, <2>2, <2>4 DEF v
  <1>6. Good(n)
    <2>1. 0 \in S /\ \A k \in 0 .. n - 1 : k \in S => k + 1 \in S
      <3> HIDE DEF Good
      <3> QED BY <1>4, <1>5
    <2> HIDE DEF S
    <2>2. 0 .. n \subseteq S
      BY <2>1, PasteLoop!UpTo
    <2>3. n \in S
      BY <2>2
    <2> QED BY <2>3 DEF S
  <1>7. ASSUME n = 1 PROVE Text(u) = Exchange(Text(h), at, 0, buf)
    <2>1. u = InsertAt(h, at, buf)
      BY <1>2, <1>7
    <2> QED BY <2>1, InsertedAt
  <1> QED
    BY <1>2, <1>6, <1>7

(***************************************************************************)
(* R: copies one behind the other.                                         *)
(***************************************************************************)
\* As many bytes for as many.
LEMMA SwapIs ==
  ASSUME NEW t \in Seq(Byte), NEW a \in Nat, NEW n \in Nat, Lies(t, a, n),
         NEW b \in Seq(Byte), Len(b) = n, NEW u, u = Exchange(t, a, n, b)
  PROVE  /\ u \in Seq(Byte) /\ Len(u) = Len(t) /\ Len(t) \in Nat /\ a + n <= Len(t)
         /\ \A i \in 1 .. Len(t) : u[i] = IF i <= a THEN t[i] ELSE IF i <= a + n THEN b[i - a] ELSE t[i]
  <1>1. Len(t) \in Nat /\ a + n <= Len(t)
    BY LenProperties DEF Lies
  <1>2. u \in Seq(Byte) /\ Exchanged(u, t, a, n, b)
    BY ExchangeIs
  <1>3. \A i \in Int : i - n + n = i
    OBVIOUS
  <1>4. Len(u) = Len(t)
    BY <1>1, <1>2, <1>3 DEF Exchanged
  <1>5. ASSUME NEW i \in 1 .. Len(t)
        PROVE  u[i] = IF i <= a THEN t[i] ELSE IF i <= a + n THEN b[i - a] ELSE t[i]
    <2>1. i \in 1 .. Len(t) - n + Len(b)
      BY <1>1, <1>3
    <2>2. u[i] = IF i <= a THEN t[i] ELSE IF i <= a + Len(b) THEN b[i - a] ELSE t[i - Len(b) + n]
      BY <1>2, <2>1 DEF Exchanged
    <2>3. i - Len(b) + n = i
      BY <1>1, <1>3
    <2> QED BY <2>2, <2>3
  <1> QED
    BY <1>1, <1>2, <1>4, <1>5

Behind(x, a, n) == x \in Nat /\ x = a + n

Joined(r, p, m, q, l) ==
  /\ p \in Seq(Byte) /\ Len(p) = m /\ q \in Seq(Byte) /\ Len(q) = l
  /\ r \in Seq(Byte) /\ Len(r) = m + l
  /\ \A i \in 1 .. m + l : r[i] = IF i <= m THEN p[i] ELSE q[i - m]

\* Bytes written behind bytes that were written.
LEMMA WritesOn ==
  ASSUME NEW t \in Seq(Byte), NEW a \in Nat, NEW m \in Nat, NEW l \in Nat,
         NEW p, NEW q, NEW r, Joined(r, p, m, q, l),
         NEW am, Behind(am, a, m), NEW both, Behind(both, m, l), Lies(t, a, both)
  PROVE  Exchange(Exchange(t, a, m, p), am, l, q) = Exchange(t, a, both, r)
  <1> DEFINE w == Exchange(t, a, m, p)
             u == Exchange(w, am, l, q)
             v == Exchange(t, a, both, r)
  <1>1. /\ Len(t) \in Nat /\ am \in Nat /\ am = a + m /\ both \in Nat /\ both = m + l
        /\ a + both <= Len(t)
    BY LenProperties DEF Lies, Behind
  <1>2. /\ p \in Seq(Byte) /\ Len(p) = m /\ q \in Seq(Byte) /\ Len(q) = l
        /\ r \in Seq(Byte) /\ Len(r) = both
        /\ \A i \in 1 .. both : r[i] = IF i <= m THEN p[i] ELSE q[i - m]
    BY <1>1 DEF Joined
  <1>3. w = Exchange(t, a, m, p) /\ Lies(t, a, m)
    BY <1>1 DEF Lies
  <1> HIDE DEF w
  <1>4. /\ w \in Seq(Byte) /\ Len(w) = Len(t)
        /\ \A i \in 1 .. Len(t) : w[i] = IF i <= a THEN t[i] ELSE IF i <= a + m THEN p[i - a] ELSE t[i]
    BY <1>2, <1>3, SwapIs
  <1>5. u = Exchange(w, am, l, q) /\ Lies(w, am, l)
    BY <1>1, <1>4 DEF Lies
  <1> HIDE DEF u
  <1>6. /\ u \in Seq(Byte) /\ Len(u) = Len(w)
        /\ \A i \in 1 .. Len(w) : u[i] = IF i <= am THEN w[i] ELSE IF i <= am + l THEN q[i - am] ELSE w[i]
    BY <1>1, <1>2, <1>4, <1>5, SwapIs
  <1>7. v = Exchange(t, a, both, r)
    OBVIOUS
  <1> HIDE DEF v
  <1>8. /\ v \in Seq(Byte) /\ Len(v) = Len(t)
        /\ \A i \in 1 .. Len(t) : v[i] = IF i <= a THEN t[i] ELSE IF i <= a + both THEN r[i - a] ELSE t[i]
    <2>1. both \in Nat /\ r \in Seq(Byte) /\ Len(r) = both
      BY <1>1, <1>2
    <2> QED BY <1>7, <2>1, SwapIs
  <1>9. ASSUME NEW i \in 1 .. Len(t) PROVE u[i] = v[i]
    <2>0. /\ u[i] = IF i <= am THEN w[i] ELSE IF i <= am + l THEN q[i - am] ELSE w[i]
          /\ w[i] = IF i <= a THEN t[i] ELSE IF i <= am THEN p[i - a] ELSE t[i]
          /\ v[i] = IF i <= a THEN t[i] ELSE IF i <= am + l THEN r[i - a] ELSE t[i]
      <3>1. a + both = am + l /\ a + m = am
        BY <1>1
      <3> QED BY <1>4, <1>6, <1>8, <3>1
    <2>1. CASE i <= a
      BY <1>1, <2>0, <2>1
    <2>2. CASE i > a /\ i <= am
      <3>1. i - a \in 1 .. both /\ i - a <= m
        BY <1>1, <2>2
      <3>2. r[i - a] = p[i - a]
        BY <1>2, <3>1
      <3> QED BY <1>1, <2>0, <2>2, <3>2
    <2>3. CASE i > am /\ i <= am + l
      <3>1. i - a \in 1 .. both /\ ~(i - a <= m) /\ i - a - m = i - am
        BY <1>1, <2>3
      <3>2. r[i - a] = q[i - am]
        BY <1>2, <3>1
      <3> QED BY <1>1, <2>0, <2>3, <3>2
    <2>4. CASE i > am + l
      BY <1>1, <2>0, <2>4
    <2> QED BY <1>1, <2>1, <2>2, <2>3, <2>4
  <1>10. u = v
    <2>1. Len(u) = Len(v) /\ \A i \in 1 .. Len(u) : u[i] = v[i]
      BY <1>4, <1>6, <1>8, <1>9
    <2> QED BY <1>6, <1>8, <2>1, SeqEqual
  <1> QED
    BY <1>10 DEF u, v, w

\* So many copies, byte by byte.
LEMMA CopiesIs ==
  ASSUME NEW n \in Nat, NEW buf \in Seq(Byte), buf # <<>>
  PROVE  /\ Copies(n, buf) \in Seq(Byte) /\ Len(Copies(n, buf)) = n * Len(buf)
         /\ \A i \in 1 .. n * Len(buf) : Copies(n, buf)[i] = buf[((i - 1) % Len(buf)) + 1]
  <1> DEFINE l == Len(buf)
             m == n * l
             f == [i \in 1 .. m |-> buf[((i - 1) % l) + 1]]
  <1>1. l \in Nat \ {0} /\ \A i \in 1 .. l : buf[i] \in Byte
    BY EmptySeq, LenProperties
  <1>2. m \in Nat
    BY <1>1
  <1>3. \A i \in 1 .. m : ((i - 1) % l) + 1 \in 1 .. l
    <2> HIDE DEF m, l
    <2> QED BY <1>1, <1>2
  <1>4. f \in [1 .. m -> Byte]
    BY <1>1, <1>3
  <1>5. f \in Seq(Byte) /\ Len(f) = m
    <2> HIDE DEF f, m
    <2> QED BY <1>2, <1>4, FcnIsRow
  <1>6. Copies(n, buf) = f
    BY DEF Copies
  <1> QED
    BY <1>5, <1>6

\* One copy more comes behind the others.
LEMMA CopiesOn ==
  ASSUME NEW k \in Nat, NEW buf \in Seq(Byte), buf # <<>>
  PROVE  \A i \in 1 .. (k + 1) * Len(buf) :
           Copies(k + 1, buf)[i] = IF i <= k * Len(buf) THEN Copies(k, buf)[i] ELSE buf[i - k * Len(buf)]
  <1> DEFINE l == Len(buf)
             m == k * l
  <1>1. l \in Nat \ {0} /\ m \in Nat /\ (k + 1) * l = m + l /\ k + 1 \in Nat
    BY EmptySeq
  <1>2. \A i \in 1 .. m + l : Copies(k + 1, buf)[i] = buf[((i - 1) % l) + 1]
    <2>1. \A i \in 1 .. (k + 1) * Len(buf) : Copies(k + 1, buf)[i] = buf[((i - 1) % Len(buf)) + 1]
      BY <1>1, CopiesIs
    <2> QED BY <1>1, <2>1
  <1>3. \A i \in 1 .. m : Copies(k, buf)[i] = buf[((i - 1) % l) + 1]
    BY CopiesIs
  <1>4. ASSUME NEW i \in 1 .. m + l, i > m PROVE ((i - 1) % l) + 1 = i - m
    <2> DEFINE x == i - 1 - m
    <2>1. x \in 0 .. l - 1 /\ i - 1 = m + x
      <3> HIDE DEF m, l
      <3> QED BY <1>1, <1>4
    <2>2. (m + x) % l = x
      <3>1. \A c \in Nat \ {0} : \A z \in 0 .. c - 1 : \A y \in Nat : ((y * c) + z) % c = z
        <4> TAKE c \in Nat \ {0}
        <4> TAKE z \in 0 .. c - 1
        <4> TAKE y \in Nat
        <4> DEFINE s == (y * c) + z
        <4>1. s \in Nat
          OBVIOUS
        <4> DEFINE q == s \div c
                   e == s % c
        <4>2. s = (c * q) + e /\ e \in 0 .. c - 1 /\ q \in Int
          <5> HIDE DEF s
          <5> QED BY <4>1, SMTT(30)
        <4> HIDE DEF q, e
        <4>3. (c * q) + e = (y * c) + z
          BY <4>2
        <4>4. q = y
          <5>1. CASE q > y
            <6>1. c * q >= c * (y + 1)
              BY <4>2, <5>1
            <6> QED BY <4>2, <4>3, <6>1
          <5>2. CASE q < y
            <6>1. c * y >= c * (q + 1)
              BY <4>2, <5>2
            <6> QED BY <4>2, <4>3, <6>1
          <5> QED BY <4>2, <5>1, <5>2
        <4>5. e = z
          BY <4>2, <4>3, <4>4
        <4> QED BY <4>5 DEF e
      <3> HIDE DEF x
      <3>2. ((k * l) + x) % l = x
        <4> HIDE DEF l
        <4> QED BY <1>1, <2>1, <3>1
      <3> QED BY <3>2
    <2> HIDE DEF x, m, l
    <2>3. x = i - m - 1
      BY <1>1 DEF x
    <2> QED BY <1>1, <2>1, <2>2, <2>3
  <1> HIDE DEF m, l
  <1>5. \A i \in 1 .. m + l : Copies(k + 1, buf)[i] = IF i <= m THEN Copies(k, buf)[i] ELSE buf[i - m]
    <2> TAKE i \in 1 .. m + l
    <2>1. CASE i <= m
      BY <1>1, <1>2, <1>3, <2>1
    <2>2. CASE i > m
      BY <1>1, <1>2, <1>4, <2>2
    <2> QED BY <1>1, <2>1, <2>2
  <1> QED
    BY <1>1, <1>5 DEF m, l

\* Bytes inside the text are written over.
LEMMA ReplacedAt ==
  ASSUME NEW h, Hist(h), Within(h), NEW at \in Nat, NEW buf \in Seq(Byte), at + Len(buf) <= Len(Text(h)),
         NEW u, u = ReplaceAt(h, at, buf)
  PROVE  /\ Hist(u) /\ Within(u) /\ Text(u) = Exchange(Text(h), at, Len(buf), buf)
         /\ Len(Text(u)) = Len(Text(h))
  <1> DEFINE c == [op |-> "replace", offset |-> at, buf |-> buf, len |-> Len(buf)]
  <1>1. Len(buf) \in Nat /\ Len(Text(h)) \in Nat
    BY TextIs, LenProperties
  <1>2. /\ Edits(c) /\ Inside(h, c) /\ Taken(c) = Len(buf) /\ c.buf = buf /\ c.offset = at
    BY <1>1 DEF Edits, Inside, Taken
  <1>3. u = After(h, c)
    BY DEF ReplaceAt
  <1> HIDE DEF c
  <1>4. /\ Hist(u) /\ Text(u) = Exchange(Text(h), at, Len(buf), buf)
        /\ Len(Text(u)) = Len(Text(h)) - Len(buf) + Len(buf)
        /\ (Len(Text(h)) <= Len(Text(u))) => Within(u)
    BY <1>2, <1>3, EditedIs
  <1> QED
    BY <1>1, <1>4

\* R writes one copy behind the other.
LEMMA OverwrittenIs ==
  ASSUME NEW h, Hist(h), Within(h), NEW at \in Nat, NEW n \in Nat, NEW buf \in Seq(Byte), buf # <<>>,
         at + n * Len(buf) <= Len(Text(h)), NEW u, u = Overwritten(h, at, n, buf)
  PROVE  /\ Hist(u) /\ Within(u) /\ Len(Text(u)) = Len(Text(h))
         /\ Text(u) = Exchange(Text(h), at, n * Len(buf), Copies(n, buf))
  <1> DEFINE t == Text(h)
             l == Len(buf)
  <1>1. t \in Seq(Byte) /\ Len(t) \in Nat /\ l \in Nat \ {0}
    BY TextIs, EmptySeq
  <1>2. u = WriteLoop!Outcome(at, buf, 0, h, n)
    BY DEF Overwritten, WriteLoop!Outcome, WriteStep
  <1>3. PICK r : WriteLoop!Turns(at, buf, 0, h, n, r)
    BY WriteLoop!LoopTurns
  <1>4. r[0] = h /\ u = r[n] /\ \A k \in 1 .. n : r[k] = ReplaceAt(r[k - 1], at + (k - 1) * l, buf)
    BY <1>2, <1>3 DEF WriteLoop!Turns, WriteStep
  <1> DEFINE Good(k) == /\ Hist(r[k]) /\ Within(r[k]) /\ Len(Text(r[k])) = Len(t)
                        /\ Text(r[k]) = Exchange(t, at, k * l, Copies(k, buf))
             S == {k \in 0 .. n : Good(k)}
  <1>5. Good(0)
    <2>1. 0 * l = 0 /\ 0 \in Nat
      BY <1>1
    <2>2. Copies(0, buf) \in Seq(Byte) /\ Len(Copies(0, buf)) = 0 * Len(buf)
      BY <2>1, CopiesIs
    <2>3. at <= Len(t)
      <3>1. n * l \in Nat
        BY <1>1
      <3> QED BY <1>1, <3>1
    <2>4. Exchange(t, at, 0, Copies(0, buf)) = t
      <3> HIDE DEF t
      <3> QED BY <1>1, <2>1, <2>2, <2>3, ExchangeNothing
    <2> QED BY <1>4, <2>1, <2>4
  <1>6. ASSUME NEW k \in 0 .. n - 1, Good(k) PROVE Good(k + 1)
    <2> DEFINE x == r[k]
               v == r[k + 1]
               m == k * l
    <2>1. v = ReplaceAt(x, at + m, buf)
      <3>1. k + 1 \in 1 .. n /\ (k + 1) - 1 = k
        OBVIOUS
      <3> QED BY <1>4, <3>1
    <2>2. Hist(x) /\ Within(x) /\ Len(Text(x)) = Len(t) /\ Text(x) = Exchange(t, at, m, Copies(k, buf))
      BY <1>6
    <2>3. m \in Nat /\ at + m + l <= Len(t) /\ (k + 1) * l = m + l /\ k \in Nat /\ k + 1 \in Nat
      <3>1. m \in Nat /\ (k + 1) * l = m + l /\ n * l \in Nat
        BY <1>1
      <3>2. (k + 1) * l <= n * l
        <4>1. k + 1 <= n /\ k + 1 \in Nat
          OBVIOUS
        <4> DEFINE y == k + 1
        <4> HIDE DEF l, y
        <4> QED BY <1>1, <4>1 DEF y
      <3> QED BY <1>1, <3>1, <3>2
    <2>4. /\ Copies(k, buf) \in Seq(Byte) /\ Len(Copies(k, buf)) = m
          /\ Copies(k + 1, buf) \in Seq(Byte) /\ Len(Copies(k + 1, buf)) = m + l
      <3>1. Copies(k, buf) \in Seq(Byte) /\ Len(Copies(k, buf)) = k * Len(buf)
        BY <2>3, CopiesIs
      <3>2. Copies(k + 1, buf) \in Seq(Byte) /\ Len(Copies(k + 1, buf)) = (k + 1) * Len(buf)
        BY <2>3, CopiesIs
      <3> QED BY <2>3, <3>1, <3>2
    <2>5. \A i \in 1 .. m + l : Copies(k + 1, buf)[i] = IF i <= m THEN Copies(k, buf)[i] ELSE buf[i - m]
      <3>1. \A i \in 1 .. (k + 1) * Len(buf) :
               Copies(k + 1, buf)[i] = IF i <= k * Len(buf) THEN Copies(k, buf)[i] ELSE buf[i - k * Len(buf)]
        BY <2>3, CopiesOn
      <3> QED BY <2>3, <3>1
    <2>6. l = Len(buf) /\ t = Text(h)
      OBVIOUS
    <2> DEFINE to == at + m
    <2>7. /\ Hist(v) /\ Within(v) /\ Text(v) = Exchange(Text(x), at + m, Len(buf), buf)
          /\ Len(Text(v)) = Len(Text(x))
      <3>1. to \in Nat /\ to + Len(buf) <= Len(Text(x)) /\ v = ReplaceAt(x, to, buf)
        BY <2>1, <2>2, <2>3
      <3> HIDE DEF to, x, v
      <3>2. /\ Hist(v) /\ Within(v) /\ Text(v) = Exchange(Text(x), to, Len(buf), buf)
            /\ Len(Text(v)) = Len(Text(x))
        BY <2>2, <3>1, ReplacedAt
      <3> QED BY <3>2 DEF to
    <2>8. Text(v) = Exchange(t, at, m + l, Copies(k + 1, buf))
      <3> DEFINE p == Copies(k, buf)
                 q == Copies(k + 1, buf)
                 y == Text(v)
      <3>1. y = Exchange(Exchange(t, at, m, p), at + m, l, buf)
        BY <2>2, <2>7
      <3>3. /\ p \in Seq(Byte) /\ Len(p) = m /\ q \in Seq(Byte) /\ Len(q) = m + l
            /\ \A i \in 1 .. m + l : q[i] = IF i <= m THEN p[i] ELSE buf[i - m]
        BY <2>4, <2>5
      <3> DEFINE am == at + m
                 both == m + l
      <3>4. /\ t \in Seq(Byte) /\ l \in Nat /\ m \in Nat
            /\ Behind(am, at, m) /\ Behind(both, m, l) /\ Lies(t, at, both)
        BY <1>1, <2>3 DEF Behind, Lies
      <3>6. Joined(q, p, m, buf, l)
        BY <3>3 DEF Joined
      <3>5. Exchange(Exchange(t, at, m, p), am, l, buf) = Exchange(t, at, both, q)
        <4> HIDE DEF am, both, p, q, y, m, l, t, x, v
        <4> QED BY <3>4, <3>6, WritesOn
      <3> QED BY <3>1, <3>5 DEF y, q
    <2> HIDE DEF m, l, t
    <2> QED BY <2>2, <2>3, <2>7, <2>8
  <1>7. Good(n)
    <2>1. 0 \in S /\ \A k \in 0 .. n - 1 : k \in S => k + 1 \in S
      <3> HIDE DEF Good
      <3> QED BY <1>5, <1>6
    <2> HIDE DEF S
    <2>2. 0 .. n \subseteq S
      BY <2>1, WriteLoop!UpTo
    <2>3. n \in S
      BY <2>2
    <2> QED BY <2>3 DEF S
  <1> QED
    BY <1>4, <1>7

\* What is highlighted is no more.
LEMMA SelectedOff ==
  ASSUME NEW s, Fits(s), OnByte(s.d), NEW u, u = [s EXCEPT !.d = VisualSelectOff(@)]
  PROVE  /\ Shows(u) /\ OnByte(u.d) /\ u.h = s.h /\ u.d = VisualSelectOff(s.d)
         /\ u.d.select = NoAddr /\ u.d.cursor_addr = s.d.cursor_addr /\ u.d.file_size = s.d.file_size
         /\ u.d.page_start = s.d.page_start /\ u.d.hex_cols = s.d.hex_cols
         /\ InPlace(s.d) => Live(u)
  <1> DEFINE v == VisualSelectOff(s.d)
  <1>1. u = [s EXCEPT !.d = v]
    OBVIOUS
  <1>2. /\ Paged(v) /\ v.select = NoAddr /\ v.file_size = s.d.file_size
        /\ v.cursor_addr = s.d.cursor_addr /\ v.page_start = s.d.page_start /\ v.page_end = s.d.page_end
        /\ v.hex_cols = s.d.hex_cols /\ v.hex_lines = s.d.hex_lines
    <2>1. Paged(s.d)
      BY DEF Fits
    <2> QED BY <2>1, SelectOffIs
  <1>3. u.h = s.h /\ u.d = v /\ u = [h |-> u.h, d |-> u.d]
    <2>1. s = [h |-> s.h, d |-> s.d]
      BY DEF Fits
    <2> HIDE DEF v
    <2> QED BY <1>1, <2>1, ScreenChanged
  <1> HIDE DEF v
  <1>4. Shows(u) /\ OnByte(u.d)
    BY <1>2, <1>3 DEF Shows, Fits, Lay, OnByte, AddressValid, Selects
  <1>5. InPlace(s.d) => InPlace(u.d)
    BY <1>2, <1>3 DEF InPlace, AddressValid, OnPage
  <1> QED
    BY <1>2, <1>3, <1>4, <1>5 DEF Live, v

\* p and P.
LEMMA PastedIs ==
  ASSUME NEW s, Live(s), NEW buf \in Seq(Byte), NEW after \in BOOLEAN, NEW n \in Nat,
         NEW u, u = Pasted(s, buf, after, n)
  PROVE  /\ Shows(u) /\ OnByte(u.d)
         /\ (~IsVisualOn(s.d) /\ n = 1) =>
              Text(u.h) = Exchange(Text(s.h),
                IF after /\ s.d.file_size # 0 THEN s.d.cursor_addr + 1 ELSE s.d.cursor_addr, 0, buf)
  <1>1. CASE IsVisualOn(s.d)
    <2>1. u = s
      BY <1>1, Zenon DEF Pasted
    <2> QED BY <1>1, <2>1 DEF Live, InPlace, OnByte
  <1>2. CASE ~IsVisualOn(s.d)
    <2> DEFINE at == IF after /\ s.d.file_size # 0 THEN s.d.cursor_addr + 1 ELSE s.d.cursor_addr
               Once(h) == InsertAt(h, at, buf)
               h == Repeated(Once, s.h, Count(n))
               by == Len(buf) - (IF after THEN 0 ELSE 1)
               seen == UpdateDisplayInfo(s.d, Len(Text(h)))
               v == ShownAgain(s.d, Len(Text(h)), seen.cursor_addr + Len(buf) - (IF after THEN 0 ELSE 1))
    <2>1. /\ Hist(s.h) /\ Within(s.h) /\ s.d.file_size = Len(Text(s.h)) /\ s.d.file_size \in Nat
          /\ s.d.cursor_addr \in Nat /\ InPlace(s.d) /\ s.d.cursor_addr \in 0 .. Most(s.d.file_size - 1, 0)
          /\ Len(buf) \in Nat
      BY LenProperties DEF Live, Shows, Fits, InPlace, Paged, Wide, Screens, AddressValid, Most
    <2>2. at \in Nat /\ at <= Len(Text(s.h))
      BY <2>1 DEF Most
    <2>3. AddressValid(s.d, s.d.cursor_addr) \/ s.d.file_size = 0
      BY <2>1 DEF InPlace
    <2>4. u = [h |-> h, d |-> v]
      BY <1>2, <2>3, Zenon DEF Pasted, ShownAgain
    <2>5. h = PasteLoop!Outcome(at, buf, 0, s.h, Count(n))
      BY Zenon DEF Repeated, PasteLoop!Outcome, PasteStep
    <2>6. Count(n) \in Nat /\ (n = 1 => Count(n) = 1)
      BY DEF Count
    <2> DEFINE c == Count(n)
    <2> HIDE DEF at, h, c
    <2>7. /\ Hist(h) /\ Within(h) /\ Len(Text(h)) >= Len(Text(s.h))
          /\ n = 1 => Text(h) = Exchange(Text(s.h), at, 0, buf)
      <3>1. c \in Nat /\ h = PasteLoop!Outcome(at, buf, 0, s.h, c) /\ (n = 1 => c = 1)
        BY <2>5, <2>6 DEF c
      <3> QED BY <2>1, <2>2, <3>1, PastesIs
    <2>8. Len(Text(h)) \in Nat /\ Len(Text(h)) >= s.d.file_size
      BY <2>1, <2>7, TextIs
    <2>9. seen.cursor_addr = s.d.cursor_addr
      BY <2>1, <2>8, CursorStays
    <2>10. by \in Int /\ seen.cursor_addr + Len(buf) - (IF after THEN 0 ELSE 1) = seen.cursor_addr + by
      BY <2>1, <2>9
    <2>11. v = ShownAgain(s.d, Len(Text(h)), UpdateDisplayInfo(s.d, Len(Text(h))).cursor_addr + by)
      BY <2>10
    <2> HIDE DEF v, by, seen
    <2>12. Fits(u) /\ OnByte(u.d) /\ Selects(u.d)
      BY <2>4, <2>7, <2>8, <2>10, <2>11, GrownIs
    <2>13. u.h = h
      BY <2>4
    <2> QED BY <2>7, <2>12, <2>13 DEF Shows, at
  <1> QED
    BY <1>1, <1>2

\* i and a, and the end of c and s.
LEMMA InsertTypedIs ==
  ASSUME NEW s, Live(s), NEW n \in Nat, NEW key, NEW st \in Strokes,
         st.page_start % s.d.hex_cols = 0, "back" \notin st.met, st.page_start <= st.addr + Len(st.buf),
         s.d.file_size = 0 => st.addr = 0,
         NEW u, u = InsertTyped(s, n, key, st)
  PROVE  LET at == s.d.cursor_addr + (IF key = "a" /\ s.d.file_size # 0 THEN 1 ELSE 0) IN
         /\ Shows(u) /\ OnByte(u.d)
         /\ st.buf = <<>> => u.h = s.h
         /\ st.buf # <<>> => InsertedCopies(u, s, at, st.buf, Count(n))
  <1> DEFINE after == key = "a" /\ s.d.file_size # 0
             buf == st.buf
             m == IF buf = <<>> THEN 0 ELSE Count(n)
             Once(t) == Inserted(t, after, buf)
             done == Repeated(Once, s, m)
             to == st.addr + Len(buf)
             placed == PlaceCursor(done.d, to)
             shown == PrintScreen(placed, st.page_start)
  <1>1. u = [h |-> done.h, d |-> [shown EXCEPT !.crashed = @ \/ "back" \in st.met]]
    BY Zenon DEF InsertTyped
  <1>2. done = InsertLoop!Outcome(after, buf, 0, s, m)
    BY Zenon DEF Repeated, InsertLoop!Outcome, InsertStep
  <1>3. /\ buf \in Seq(Byte) /\ st.addr \in Nat /\ st.page_start \in Nat /\ Len(buf) \in Nat /\ after \in BOOLEAN
        /\ Count(n) \in Nat \ {0} /\ m \in Nat
    BY LenProperties DEF Strokes, Count
  <1> HIDE DEF after, done
  <1> DEFINE at == s.d.cursor_addr + (IF after THEN 1 ELSE 0)
  <1>4. /\ Live(done) /\ done.d.select = s.d.select /\ done.d.hex_cols = s.d.hex_cols
        /\ (~IsVisualOn(s.d) /\ m # 0) => done.d.file_size # 0
        /\ m = 0 => done = s
        /\ buf # <<>> => InsertedCopies(done, s, at, buf, m)
    <2>1. CASE buf # <<>>
      <3>1. after => s.d.file_size # 0
        BY DEF after
      <3>2. m \in Nat /\ after \in BOOLEAN /\ buf \in Seq(Byte) /\ buf # <<>> /\ m # 0
        BY <1>3, <2>1
      <3>3. at = s.d.cursor_addr + (IF after THEN 1 ELSE 0)
        OBVIOUS
      <3> HIDE DEF m, buf, at
      <3>4. /\ Live(done) /\ done.d.select = s.d.select /\ done.d.hex_cols = s.d.hex_cols
            /\ (~IsVisualOn(s.d) /\ m # 0) => done.d.file_size # 0
            /\ InsertedCopies(done, s, at, buf, m)
        BY <1>2, <3>1, <3>2, <3>3, InsertsIs
      <3> QED BY <3>2, <3>4
    <2>2. CASE buf = <<>>
      <3>1. m = 0
        BY <2>2
      <3>2. PICK r : InsertLoop!Turns(after, buf, 0, s, m, r)
        BY <1>3, InsertLoop!LoopTurns
      <3>3. done = s
        BY <1>2, <3>1, <3>2 DEF InsertLoop!Turns
      <3> QED BY <2>2, <3>1, <3>3
    <2> QED BY <2>1, <2>2
  <1> HIDE DEF at
  <1>5. /\ InPlace(placed) /\ Alike(placed, done.d)
    <2>1. InPlace(done.d)
      BY <1>4 DEF Live
    <2> QED BY <2>1, PlacedInPlace
  <1>6. placed.hex_cols = s.d.hex_cols
    BY <1>4, <1>5 DEF Alike
  <1>7. placed.file_size = 0 => st.page_start = 0
    <2>1. ASSUME placed.file_size = 0 PROVE st.page_start = 0
      <3>1. done.d.file_size = 0
        BY <1>5, <2>1 DEF Alike
      <3>2. ~IsVisualOn(done.d)
        BY <1>4, <3>1 DEF Live, Shows, Selects, AddressValid, IsVisualOn
      <3>3. m = 0 /\ done = s /\ buf = <<>>
        BY <1>3, <1>4, <3>1, <3>2 DEF IsVisualOn
      <3>4. st.addr = 0 /\ Len(buf) = 0
        BY <3>1, <3>3
      <3> QED BY <1>3, <3>4
    <2> QED BY <2>1
  <1> HIDE DEF placed
  <1>8. Paged(shown) /\ Alike(shown, placed) /\ shown.cursor_addr = placed.cursor_addr
    <2>1. Wide(placed) /\ st.page_start % placed.hex_cols = 0
      BY <1>5, <1>6 DEF InPlace, Paged
    <2> QED BY <1>3, <1>7, <2>1, PrintedPage
  <1> HIDE DEF shown
  <1>9. u = [h |-> done.h, d |-> shown]
    <2>1. shown \in Screens /\ shown.crashed = FALSE
      BY <1>8 DEF Paged, Wide
    <2>2. (shown.crashed \/ "back" \in st.met) = FALSE
      BY <2>1
    <2>3. [shown EXCEPT !.crashed = shown.crashed \/ "back" \in st.met] = shown
      BY <2>1, <2>2, Zenon DEF Screens
    <2> QED BY <1>1, <2>3
  <1>10. Fits(u)
    <2>1. u.h = done.h /\ u.d = shown /\ u = [h |-> u.h, d |-> u.d]
      BY <1>9
    <2>2. /\ Hist(done.h) /\ Within(done.h) /\ done.d.file_size = Len(Text(done.h)) /\ Lay(done.d)
      BY <1>4 DEF Live, Shows, Fits
    <2>3. Paged(shown) /\ shown.file_size = done.d.file_size
          /\ shown.hex_cols = done.d.hex_cols /\ shown.hex_lines = done.d.hex_lines
      BY <1>5, <1>8 DEF Alike
    <2>4. Lay(shown)
      BY <2>2, <2>3 DEF Lay
    <2> QED BY <2>1, <2>2, <2>3, <2>4 DEF Fits
  <1>11. Selects(u.d) /\ OnByte(u.d)
    BY <1>4, <1>5, <1>8, <1>9 DEF Live, Shows, Selects, Alike, InPlace, OnByte, AddressValid
  <1>12. u.h = done.h
    BY <1>9
  <1> QED
    BY <1>3, <1>4, <1>10, <1>11, <1>12 DEF Shows, InsertedCopies, after, at

(***************************************************************************)
(* The keys, one after the other: the screen stays in step.                *)
(***************************************************************************)
Statics == [multiplier : Nat, jump : {NoAddr} \cup Nat]

\* The present history and screen.
LEMMA NowIs ==
  ASSUME ScreenInv
  PROVE  /\ Live(State) /\ Shows(State) /\ Fits(State) /\ State.h = History /\ State.d = d
         /\ State = [h |-> State.h, d |-> State.d]
         /\ Hist(History) /\ Within(History) /\ Len(text) <= MaxLen /\ text = Text(History)
         /\ text \in Seq(Byte) /\ Len(text) \in Nat
         /\ d.file_size = Len(text) /\ InPlace(d) /\ Paged(d) /\ Selects(d) /\ Lay(d)
  <1>1. Live(State) /\ Len(text) <= MaxLen
    BY DEF ScreenInv
  <1>2. State.h = History /\ State.d = d /\ State = [h |-> State.h, d |-> State.d]
    BY DEF State
  <1>3. text = Text(History)
    BY DEF text
  <1>4. /\ Shows(State) /\ Fits(State) /\ InPlace(State.d) /\ Selects(State.d)
        /\ Hist(State.h) /\ Within(State.h) /\ Lay(State.d) /\ Paged(State.d)
        /\ State.d.file_size = Len(Text(State.h))
    BY <1>1 DEF Live, Shows, Fits
  <1>5. Text(History) \in Seq(Byte) /\ Len(Text(History)) \in Nat
    BY <1>2, <1>4, TextIs
  <1> QED
    BY <1>1, <1>2, <1>3, <1>4, <1>5

\* Another screen that shows the same.
LEMMA NowShows ==
  ASSUME ScreenInv, NEW v, InPlace(v), Selects(v), v.file_size = d.file_size,
         v.hex_cols = d.hex_cols, v.hex_lines = d.hex_lines, NEW u, u = [State EXCEPT !.d = v]
  PROVE  /\ Live(u) /\ Shows(u) /\ OnByte(u.d) /\ u.h = History /\ u.d = v
  <1>1. u.h = History /\ u.d = v /\ u = [h |-> u.h, d |-> u.d]
    BY NowIs, ScreenChanged
  <1>2. Fits(u)
    <2>1. Paged(v) /\ Lay(v)
      BY NowIs DEF InPlace, Lay
    <2> QED BY <1>1, <2>1, NowIs DEF Fits
  <1> QED
    BY <1>1, <1>2 DEF Shows, Live, InPlace, OnByte

\* Another screen with the same page and selection.
LEMMA NowPlaced ==
  ASSUME ScreenInv, NEW v, InPlace(v), Alike(v, d), NEW u, u = [State EXCEPT !.d = v]
  PROVE  /\ Live(u) /\ Shows(u) /\ OnByte(u.d) /\ u.h = History /\ u.d = v
  <1>1. Selects(d)
    BY NowIs
  <1>2. Selects(v) /\ v.file_size = d.file_size /\ v.hex_cols = d.hex_cols /\ v.hex_lines = d.hex_lines
    BY <1>1 DEF Alike, Selects, AddressValid
  <1> QED
    BY <1>2, NowShows

\* What is highlighted is no more, on another screen.
LEMMA NowOff ==
  ASSUME ScreenInv, NEW v, InPlace(v), Alike(v, d), NEW u, u = [State EXCEPT !.d = VisualSelectOff(v)]
  PROVE  /\ Live(u) /\ Shows(u) /\ OnByte(u.d) /\ u.h = History
  <1> DEFINE w == VisualSelectOff(v)
  <1>1. /\ Paged(w) /\ w.select = NoAddr /\ w.file_size = v.file_size
        /\ w.cursor_addr = v.cursor_addr /\ w.page_start = v.page_start /\ w.page_end = v.page_end
        /\ w.hex_cols = v.hex_cols /\ w.hex_lines = v.hex_lines
    <2>1. Paged(v)
      BY DEF InPlace
    <2> QED BY <2>1, SelectOffIs
  <1>2. u = [State EXCEPT !.d = w]
    OBVIOUS
  <1> HIDE DEF w
  <1>3. /\ InPlace(w) /\ Selects(w) /\ w.file_size = d.file_size
        /\ w.hex_cols = d.hex_cols /\ w.hex_lines = d.hex_lines
    BY <1>1 DEF InPlace, AddressValid, OnPage, Selects, Alike
  <1> QED
    BY <1>2, <1>3, NowShows

\* A motion that is typed ends at an address or nowhere.
LEMMA MotionsTyped ==
  ASSUME ScreenInv, motion \in Statics, NEW r \in NextMotionAddr
  PROVE  r.end \in {NoAddr} \cup Nat /\ r.statics \in Statics /\ r.statics.multiplier <= MaxCount
  <1>1. PICK m \in Motion, left \in {[multiplier |-> 0, jump |-> NoAddr]} \cup {motion} :
          r = MotionTyped(m, left) /\ r.statics.multiplier <= MaxCount
    BY DEF NextMotionAddr
  <1> DEFINE counted == Digits(left, m.n)
             meant == Meant(m, counted)
  <1>2. left \in Statics
    BY <1>1 DEF Statics
  <1>3. m.n \in Nat /\ m.to \in {NoAddr} \cup Nat
    <2>1. m.n \in Counts \cup {0} /\ m.to \in {NoAddr} \cup 0 .. MaxLen
      <3>1. CASE m \in [key : {"up", "down", "left", "right", "file_end"}, n : Counts, to : {NoAddr}]
        BY <3>1
      <3>2. CASE m \in [key : {"line_start", "line_end", "page_down", "page_up", "escape"}, n : {0}, to : {NoAddr}]
        BY <3>2
      <3>3. CASE m \in [key : {"jump", "seek"}, n : {0}, to : {NoAddr} \cup 0 .. MaxLen]
        BY <3>3
      <3> QED BY <3>1, <3>2, <3>3, Zenon DEF Motion
    <2>2. Counts \subseteq Nat /\ 0 .. MaxLen \subseteq Nat
      BY EditorAssumption
    <2>3. Counts \cup {0} \subseteq Nat /\ {NoAddr} \cup 0 .. MaxLen \subseteq {NoAddr} \cup Nat
      BY <2>2
    <2> QED BY <2>1, <2>3, Zenon
  <1>4. counted \in Statics
    <2>1. CASE m.n = 0
      BY <1>2, <2>1 DEF Digits
    <2>2. CASE m.n # 0
      <3> DEFINE a == left.multiplier * 10 + m.n
                 b == IF left.jump = NoAddr THEN m.n ELSE left.jump * 10 + m.n
      <3>1. a \in Nat /\ b \in Nat
        BY <1>2, <1>3 DEF Statics
      <3>2. counted = [multiplier |-> a, jump |-> b]
        BY <2>2, Zenon DEF Digits
      <3> HIDE DEF a, b
      <3> QED BY <3>1, <3>2 DEF Statics
    <2> QED BY <2>1, <2>2
  <1> HIDE DEF counted
  <1>5. r = [by |-> m, end |-> Reached(meant),
             statics |-> IF m.key = "jump" THEN [counted EXCEPT !.jump = m.to] ELSE counted]
    BY <1>1, Zenon DEF MotionTyped, counted
  <1>6. r.statics \in Statics
    <2> DEFINE jumped == [counted EXCEPT !.jump = m.to]
    <2>1. jumped \in Statics
      BY <1>3, <1>4, Zenon DEF Statics
    <2>2. r.statics = IF m.key = "jump" THEN jumped ELSE counted
      BY <1>5
    <2> QED BY <1>4, <2>1, <2>2
  <1>7. r.end \in {NoAddr} \cup Nat
    <2> HIDE DEF meant
    <2>1. r.end = Reached(meant)
      BY <1>5
    <2>2. \A a : AddressValid(d, a) => a \in Nat
      BY DEF AddressValid
    <2>3. d.cursor_addr \in Nat
      BY NowIs, <2>2 DEF InPlace
    <2>4. Virtual(d, meant) \in {NoAddr} \cup Nat
      <3> DEFINE to == Target(d, meant)
      <3>1. Virtual(d, meant) = NoAddr \/ (AddressValid(d, to) /\ Virtual(d, meant) = to)
            \/ Virtual(d, meant) = d.cursor_addr
        <4> HIDE DEF to
        <4> USE Zenon DEF Virtual
        <4>1. CASE to = NoAddr /\ meant.key \notin Always
          BY <4>1 DEF to
        <4>2. CASE ~(to = NoAddr /\ meant.key \notin Always) /\ AddressValid(d, to)
          BY <4>2 DEF to
        <4>3. CASE ~(to = NoAddr /\ meant.key \notin Always) /\ ~AddressValid(d, to)
          BY <4>3 DEF to
        <4> QED BY <4>1, <4>2, <4>3
      <3> QED BY <2>2, <2>3, <3>1
    <2>5. CASE meant.key = "escape"
      BY <2>1, <2>5 DEF Reached
    <2>6. CASE meant.key = "seek"
      <3>1. Reached(meant) = IF AddressValid(d, meant.to) THEN meant.to ELSE NoAddr
        <4>1. ~("seek" = "escape")
          OBVIOUS
        <4> QED BY <2>6, <4>1, Zenon DEF Reached
      <3> QED BY <2>1, <2>2, <3>1
    <2>7. CASE meant.key # "escape" /\ meant.key # "seek"
      <3>1. Reached(meant) = Virtual(d, meant)
        BY <2>7, Zenon DEF Reached
      <3> QED BY <2>1, <2>4, <3>1
    <2> QED BY <2>5, <2>6, <2>7
  <1> QED
    BY <1>1, <1>6, <1>7

\* d leaves the screen in step.
LEMMA DeleteShows ==
  ASSUME Steady, ScreenInv, NEW n \in Nat, NEW end \in {NoAddr} \cup Nat, DeleteTo(n, end)
  PROVE  ScreenInv'
  <1> DEFINE s == Deleted(State, n, end)
             u == [s EXCEPT !.d = VisualSelectOff(@)]
  <1>1. NotEmptied(s.h, State.d) /\ Become(u)
    BY NowIs DEF DeleteTo
  <1> HIDE DEF s
  <1>2. Fits(s) /\ InPlace(s.d)
    <2>1. Live(State) /\ Len(Text(State.h)) <= MaxLen
      BY NowIs
    <2> QED BY <1>1, <2>1, DeletedIs DEF s
  <1>3. Shows(u) /\ OnByte(u.d)
    <2>1. OnByte(s.d)
      BY <1>2 DEF InPlace, OnByte
    <2> QED BY <1>2, <2>1, SelectedOff
  <1> QED
    BY <1>1, <1>3, BecomeShows

\* y leaves the screen in step.
LEMMA YankShows ==
  ASSUME ScreenInv, NEW n, NEW end, YankTo(n, end)
  PROVE  ScreenInv'
  <1> DEFINE addr == First(d, end)
             placed == IF AddressValid(d, addr) THEN PlaceCursor(d, addr) ELSE d
             u == [State EXCEPT !.d = VisualSelectOff(placed)]
  <1>1. Become(u)
    BY DEF YankTo
  <1>2. InPlace(placed) /\ Alike(placed, d)
    <2>1. InPlace(d) /\ Alike(d, d)
      BY NowIs DEF Alike
    <2>2. InPlace(PlaceCursor(d, addr)) /\ Alike(PlaceCursor(d, addr), d)
      BY <2>1, PlacedInPlace
    <2> QED BY <2>1, <2>2
  <1> HIDE DEF placed
  <1>3. Shows(u) /\ OnByte(u.d)
    BY <1>2, NowOff
  <1> QED
    BY <1>1, <1>3, BecomeShows

\* x and X leave the screen in step.
LEMMA CutShows ==
  ASSUME Steady, ScreenInv, NEW v, InPlace(v), Alike(v, d), NEW n \in Nat, CutAt(v, n)
  PROVE  ScreenInv'
  <1> DEFINE at == [State EXCEPT !.d = v]
             s == Deleted(at, n, NoAddr)
             u == [s EXCEPT !.d = VisualSelectOff(@)]
  <1>1. NotEmptied(s.h, v) /\ Become(u)
    BY DEF CutAt
  <1> HIDE DEF at
  <1>2. Live(at) /\ at.h = History /\ at.d = v /\ Len(Text(at.h)) <= MaxLen
    <2>1. Live(at) /\ at.h = History /\ at.d = v
      BY NowPlaced DEF at
    <2> QED BY <2>1, NowIs
  <1>3. s = Deleted(at, n, NoAddr) /\ NotEmptied(s.h, at.d)
    BY <1>1, <1>2
  <1> HIDE DEF s
  <1>4. Fits(s) /\ InPlace(s.d)
    BY <1>2, <1>3, DeletedIs
  <1>5. Shows(u) /\ OnByte(u.d)
    <2>1. OnByte(s.d)
      BY <1>4 DEF InPlace, OnByte
    <2> QED BY <1>4, <2>1, SelectedOff
  <1> QED
    BY <1>1, <1>5, BecomeShows

\* The cursor is on the page.
LEMMA CursorIs ==
  ASSUME NEW s, InPlace(s)
  PROVE  /\ s.cursor_addr \in Nat /\ s.page_start \in Nat /\ s.page_start <= s.cursor_addr
         /\ s.file_size \in Nat /\ s.cursor_addr <= Most(s.file_size - 1, 0)
         /\ s.hex_cols \in Nat \ {0} /\ s.page_start % s.hex_cols = 0 /\ s.page_end \in Nat
         /\ s.page_end <= Most(s.file_size - 1, 0) \/ s.page_end = s.file_size
         /\ s.file_size = 0 => s.cursor_addr = 0 /\ s.page_start = 0
  <1>1. /\ s.file_size \in Nat /\ s.page_start \in Nat /\ PageSize(s) \in Nat \ {0}
        /\ s.hex_cols \in Nat \ {0} /\ s.page_start % s.hex_cols = 0
        /\ s.file_size = 0 => s.page_start = 0
        /\ s.page_end = PageEnd(s)
    BY UnitAssumption DEF InPlace, Paged, Wide, Screens
  <1>2. CASE s.file_size = 0
    BY <1>1, <1>2 DEF InPlace, PageEnd, Most
  <1>3. CASE s.file_size # 0
    <2>1. s.cursor_addr \in 0 .. s.file_size - 1 /\ s.page_start <= s.cursor_addr
      BY <1>1, <1>3 DEF InPlace, AddressValid, OnPage
    <2> QED BY <1>1, <1>3, <2>1 DEF PageEnd, Most
  <1> QED
    BY <1>2, <1>3

\* What is typed where the cursor is, or behind it.
LEMMA TypedHere ==
  ASSUME Steady, NEW s, InPlace(s), NEW addr \in Nat, s.page_start <= addr,
         NEW input \in Typed, NEW room, NEW st, st = Typing(s, addr, input, room), st.met \subseteq Slips
  PROVE  /\ st \in Strokes /\ st.addr = addr /\ st.page_start % s.hex_cols = 0
         /\ "back" \notin st.met /\ st.page_start <= st.addr + Len(st.buf)
         /\ Spelled(input) \in Seq(Byte)
         /\ "half" \in st.met \/ st.buf = Spelled(input)
  <1>1. input \in Inputs
    BY EditorAssumption
  <1>2. s.hex_cols \in Nat \ {0} /\ s.page_start \in Nat /\ s.page_start % s.hex_cols = 0
    BY CursorIs
  <1>3. /\ st \in Strokes /\ st.addr = addr /\ st.page_start % s.hex_cols = 0
        /\ "back" \in st.met \/ st.page_start <= addr + Len(st.buf)
        /\ Spelled(input) \in Seq(Byte)
        /\ "half" \in st.met \/ st.buf = Spelled(input)
    BY <1>1, <1>2, TypedIs
  <1>4. "back" \notin st.met
    BY DEF Steady
  <1> QED
    BY <1>3, <1>4

\* v leaves the screen in step.
LEMMA VisualShows ==
  ASSUME ScreenInv, VisualSelectToggle
  PROVE  ScreenInv'
  <1>1. CASE IsVisualOn(d)
    <2> DEFINE u == [State EXCEPT !.d = VisualSelectOff(d)]
    <2>0. d.file_size # 0
      BY <1>1, NowIs DEF IsVisualOn, Selects, AddressValid
    <2>1. Become(u)
      BY <1>1, <2>0, Zenon DEF VisualSelectToggle
    <2>2. InPlace(d) /\ Alike(d, d)
      BY NowIs DEF Alike
    <2>3. Shows(u) /\ OnByte(u.d)
      BY <2>2, NowOff
    <2> QED BY <2>1, <2>3, BecomeShows
  <1>2. CASE ~IsVisualOn(d) /\ d.file_size = 0
    <2> DEFINE u == [State EXCEPT !.d = d]
    <2>1. Become(u)
      BY <1>2, Zenon DEF VisualSelectToggle
    <2>2. InPlace(d) /\ Alike(d, d)
      BY NowIs DEF Alike
    <2>3. Shows(u) /\ OnByte(u.d)
      BY <2>2, NowPlaced
    <2> QED BY <2>1, <2>3, BecomeShows
  <1>3. CASE ~IsVisualOn(d) /\ d.file_size # 0
    <2> DEFINE v == [d EXCEPT !.select = d.cursor_addr]
               u == [State EXCEPT !.d = v]
    <2>1. Become(u)
      BY <1>3, Zenon DEF VisualSelectToggle
    <2>2. InPlace(d) /\ d \in Screens /\ AddressValid(d, d.cursor_addr) /\ d.cursor_addr \in Int
      <3>1. InPlace(d)
        BY NowIs
      <3>2. d.cursor_addr \in Int
        BY <3>1, CursorIs
      <3> QED BY <1>3, <3>1, <3>2 DEF InPlace, Paged, Wide
    <2>3. Fields(v, d.file_size, d.page_start, d.page_end, d.cursor_addr, d.cursor_addr,
                 d.hex_cols, d.hex_lines, d.crashed)
      BY <2>2, Zenon DEF Fields, Screens
    <2> HIDE DEF v
    <2>4. /\ InPlace(v) /\ Selects(v) /\ v.file_size = d.file_size
          /\ v.hex_cols = d.hex_cols /\ v.hex_lines = d.hex_lines
      BY <2>2, <2>3 DEF Fields, InPlace, Paged, Wide, PageEnd, PageSize, Selects, AddressValid, OnPage
    <2>5. Shows(u) /\ OnByte(u.d)
      BY <2>4, NowShows
    <2> QED BY <2>1, <2>5, BecomeShows
  <1> QED
    BY <1>1, <1>2, <1>3

\* A motion leaves the screen in step.
LEMMA MoveShows ==
  ASSUME ScreenInv, NEW n, DoMove(n)
  PROVE  ScreenInv'
  <1>1. PICK m \in Motion :
          Become([State EXCEPT !.d = CASE m.key = "file_end" /\ n # 0 -> PlaceCursor(d, n)
                                       [] m.key = "seek" -> PlaceCursor(d, m.to)
                                       [] OTHER -> Move(d, m)])
    BY DEF DoMove
  <1>2. InPlace(d)
    BY NowIs
  <1>3. ASSUME NEW v, InPlace(v), Alike(v, d), Become([State EXCEPT !.d = v]) PROVE ScreenInv'
    <2> DEFINE u == [State EXCEPT !.d = v]
    <2>1. Shows(u) /\ OnByte(u.d) /\ Become(u)
      BY <1>3, NowPlaced
    <2> HIDE DEF u
    <2> QED BY <2>1, BecomeShows
  <1>4. InPlace(PlaceCursor(d, n)) /\ Alike(PlaceCursor(d, n), d)
    BY <1>2, PlacedInPlace
  <1>5. InPlace(PlaceCursor(d, m.to)) /\ Alike(PlaceCursor(d, m.to), d)
    BY <1>2, PlacedInPlace
  <1>6. InPlace(Move(d, m)) /\ Alike(Move(d, m), d)
    BY <1>2, MovedInPlace
  <1>7. CASE m.key = "file_end" /\ n # 0
    <2>1. m.key # "seek"
      BY <1>7
    <2>2. Become([State EXCEPT !.d = PlaceCursor(d, n)])
      BY <1>1, <1>7, <2>1, Zenon
    <2> QED BY <1>3, <1>4, <2>2
  <1>8. CASE m.key = "seek"
    <2>1. ~(m.key = "file_end" /\ n # 0)
      BY <1>8
    <2>2. Become([State EXCEPT !.d = PlaceCursor(d, m.to)])
      BY <1>1, <1>8, <2>1, Zenon
    <2> QED BY <1>3, <1>5, <2>2
  <1>9. CASE ~(m.key = "file_end" /\ n # 0) /\ m.key # "seek"
    <2>1. Become([State EXCEPT !.d = Move(d, m)])
      BY <1>1, <1>9, Zenon
    <2> QED BY <1>3, <1>6, <2>1
  <1> QED
    BY <1>7, <1>8, <1>9

\* g leaves the screen in step.
LEMMA GoShows ==
  ASSUME ScreenInv, NEW n, Go(n)
  PROVE  ScreenInv'
  <1>1. PICK a : Become([State EXCEPT !.d = PlaceCursor(d, a)])
    BY DEF Go
  <1> DEFINE v == PlaceCursor(d, a)
             u == [State EXCEPT !.d = v]
  <1>2. InPlace(v) /\ Alike(v, d)
    BY NowIs, PlacedInPlace
  <1>3. Shows(u) /\ OnByte(u.d)
    <2> HIDE DEF v
    <2> QED BY <1>2, NowPlaced
  <1> QED
    BY <1>1, <1>3, BecomeShows

\* A layout has a page.
LEMMA LayoutIs ==
  ASSUME Steady, NEW t \in Layouts
  PROVE  /\ HexCols(t) \in Nat \ {0} /\ HexLines(t) \in Nat \ {0}
         /\ HexLines(t) * HexCols(t) \in Nat /\ HexLines(t) * HexCols(t) >= Unit
         /\ HexLines(t) * HexCols(t) >= HexCols(t)
  <1>1. t \in Nat \X Nat \X Nat
    BY EditorAssumption
  <1>2. t[1] \in Nat /\ t[2] \in Nat /\ t[3] \in Nat
    BY <1>1
  <1>3. HexLines(t) \in Nat \ {0}
    BY <1>2 DEF HexLines, Most
  <1>4. MaxHexCols(t[2]) \in Nat
    BY <1>2 DEF MaxHexCols, SharedWidth, Most
  <1>5. HexCols(t) \in Nat
    BY <1>2, <1>4 DEF HexCols, Least
  <1>6. HexLines(t) * HexCols(t) >= Unit
    BY DEF Steady
  <1> DEFINE l == HexLines(t)
             c == HexCols(t)
  <1>7. l \in Nat \ {0} /\ c \in Nat /\ l * c >= Unit /\ Unit \in Nat \ {0}
    BY <1>3, <1>5, <1>6, UnitAssumption
  <1> HIDE DEF l, c
  <1>8. c # 0 /\ l * c \in Nat /\ l * c >= c
    <2>1. c # 0
      BY <1>7
    <2>2. l * c >= 1 * c
      BY <1>7
    <2> QED BY <1>7, <2>1, <2>2
  <1> QED BY <1>7, <1>8 DEF l, c

\* A screen that is laid out.
LEMMA LaidIs ==
  ASSUME Steady, NEW s \in Screens, s.crashed = FALSE, NEW t \in Layouts, NEW u, u = Laid(s, t)
  PROVE  /\ Wide(u) /\ u.file_size = s.file_size /\ u.page_start = s.page_start /\ u.select = s.select
         /\ u.cursor_addr = s.cursor_addr /\ u.hex_cols = HexCols(t) /\ u.hex_lines = HexLines(t)
  <1> DEFINE c == HexCols(t)
             l == HexLines(t)
             w == [s EXCEPT !.hex_cols = c]
  <1>1. u = [w EXCEPT !.hex_lines = l]
    BY Zenon DEF Laid
  <1>2. c \in Nat \ {0} /\ l \in Nat \ {0} /\ l * c \in Nat /\ l * c >= Unit /\ l * c >= c
    BY LayoutIs
  <1> HIDE DEF c, l
  <1>3. c \in Nat /\ l \in Nat
    BY <1>2
  <1>4. Fields(w, s.file_size, s.page_start, s.page_end, s.cursor_addr, s.select, c, s.hex_lines, s.crashed)
    BY <1>3, Zenon DEF Fields, Screens
  <1> HIDE DEF w
  <1>5. Fields(u, w.file_size, w.page_start, w.page_end, w.cursor_addr, w.select, w.hex_cols, l, w.crashed)
    <2>1. w \in Screens
      BY <1>4 DEF Fields
    <2> QED BY <1>1, <1>3, <2>1, Zenon DEF Fields, Screens
  <1> QED
    BY <1>2, <1>4, <1>5 DEF Fields, Wide, PageSize, c, l

\* A new size of the page leaves the screen in step.
LEMMA ResizeShows ==
  ASSUME Steady, ScreenInv, Resize
  PROVE  ScreenInv'
  <1>1. PICK t \in Layouts : LET seen == UpdateDisplayInfo(Laid(d, t), d.file_size)
                             IN  Become([State EXCEPT !.d = PrintScreen(seen, seen.page_start)])
    BY DEF Resize
  <1> DEFINE laid == Laid(d, t)
             seen == UpdateDisplayInfo(laid, d.file_size)
             v == PrintScreen(seen, seen.page_start)
             u == [State EXCEPT !.d = v]
  <1>2. InPlace(d) /\ d \in Screens /\ d.crashed = FALSE /\ Selects(d)
    BY NowIs DEF InPlace, Paged, Wide
  <1>3. /\ d.cursor_addr \in Nat /\ d.page_start \in Nat /\ d.page_start <= d.cursor_addr
        /\ d.file_size \in Nat /\ d.cursor_addr <= Most(d.file_size - 1, 0)
        /\ d.file_size = 0 => d.cursor_addr = 0 /\ d.page_start = 0
    BY <1>2, CursorIs
  <1>4. HexCols(t) \in Nat \ {0}
    BY LayoutIs
  <1>5. Wide(laid) /\ laid.page_start = d.page_start /\ laid.select = d.select
        /\ laid.cursor_addr = d.cursor_addr /\ laid.hex_cols = HexCols(t) /\ laid.hex_lines = HexLines(t)
    BY <1>2, LaidIs
  <1> HIDE DEF laid
  <1>7. /\ Paged(seen) /\ seen.file_size = d.file_size /\ seen.select = d.select
        /\ seen.hex_cols = HexCols(t) /\ seen.hex_lines = HexLines(t)
        /\ seen.page_start = d.page_start - (d.page_start % HexCols(t))
        /\ seen.cursor_addr = Least(Most(d.cursor_addr, seen.page_start), seen.page_end)
    <2>1. laid.page_start \in Nat /\ (d.file_size = 0 => laid.page_start = 0)
      BY <1>3, <1>5
    <2>2. /\ Paged(seen) /\ seen.file_size = d.file_size /\ seen.select = laid.select
          /\ seen.hex_cols = laid.hex_cols /\ seen.hex_lines = laid.hex_lines
          /\ seen.page_start = laid.page_start - (laid.page_start % laid.hex_cols)
          /\ seen.cursor_addr = Least(Most(laid.cursor_addr, seen.page_start), seen.page_end)
      BY <1>3, <1>5, <2>1, UpdatedIs
    <2> QED BY <1>5, <2>2
  <1> HIDE DEF seen
  <1>8. v = seen
    BY <1>7, RedrawnIs
  <1> HIDE DEF v
  <1>9. OnByte(v)
    <2>1. CASE d.file_size = 0
      BY <1>7, <1>8, <2>1 DEF OnByte
    <2>2. CASE d.file_size # 0
      <3>1. /\ seen.page_start \in Nat /\ PageSize(seen) \in Nat \ {0} /\ seen.page_end = PageEnd(seen)
        BY <1>7, UnitAssumption DEF Paged, Wide
      <3>2. seen.page_end \in Nat
        BY <1>3, <1>7, <3>1 DEF PageEnd, Most
      <3>3. seen.page_start <= d.page_start
        <4> DEFINE c == HexCols(t)
                   q == d.page_start % c
        <4>1. q \in Nat
          <5> HIDE DEF c
          <5>1. c \in Nat \ {0}
            BY <1>4 DEF c
          <5> QED BY <1>3, <5>1
        <4>2. seen.page_start = d.page_start - q
          BY <1>7
        <4> HIDE DEF q
        <4> QED BY <1>3, <4>1, <4>2
      <3>4. seen.cursor_addr = Least(d.cursor_addr, seen.page_end)
        BY <1>3, <1>7, <3>1, <3>3 DEF Most
      <3>5. seen.cursor_addr \in 0 .. d.file_size - 1
        BY <1>3, <2>2, <3>2, <3>4 DEF Least, Most
      <3> QED BY <1>7, <1>8, <3>5 DEF OnByte, AddressValid
    <2> QED BY <2>1, <2>2
  <1>10. Become(u)
    BY <1>1 DEF v, seen, laid
  <1>11. u.h = History /\ u.d = v /\ u = [h |-> u.h, d |-> u.d]
    BY NowIs, ScreenChanged
  <1>12. Lay(v)
    BY <1>7, <1>8 DEF Lay
  <1>13. Fits(u)
    BY <1>7, <1>8, <1>11, <1>12, NowIs DEF Fits
  <1>14. Selects(v)
    BY <1>2, <1>7, <1>8 DEF Selects, AddressValid
  <1> QED
    BY <1>9, <1>10, <1>11, <1>13, <1>14, BecomeShows DEF Shows

\* i and a leave the screen in step.
LEMMA InsertShows ==
  ASSUME Steady, ScreenInv, NEW n \in Nat, DoInsert(n)
  PROVE  ScreenInv'
  <1>1. PICK key \in {"i", "a"}, input \in Typed : \E st \in {Typing(d, TypedAt(d, key), input, 1)} :
          st.met \subseteq Slips /\ Become(InsertTyped(State, n, key, st))
    BY Zenon DEF DoInsert
  <1> DEFINE addr == TypedAt(d, key)
             st == Typing(d, addr, input, 1)
             u == InsertTyped(State, n, key, st)
  <1>2. st.met \subseteq Slips /\ Become(u)
    BY <1>1
  <1>3. InPlace(d) /\ Live(State) /\ State.d = d
    BY NowIs
  <1>4. addr \in Nat /\ d.page_start <= addr /\ (d.file_size = 0 => addr = 0)
    BY <1>3, CursorIs DEF TypedAt
  <1> HIDE DEF addr
  <1>5. /\ st \in Strokes /\ st.addr = addr /\ st.page_start % d.hex_cols = 0
        /\ "back" \notin st.met /\ st.page_start <= st.addr + Len(st.buf)
    BY <1>2, <1>3, <1>4, TypedHere
  <1> HIDE DEF st
  <1>6. /\ st.page_start % State.d.hex_cols = 0 /\ (State.d.file_size = 0 => st.addr = 0)
    BY <1>3, <1>4, <1>5
  <1>7. Shows(u) /\ OnByte(u.d)
    BY <1>3, <1>5, <1>6, InsertTypedIs
  <1> QED
    BY <1>2, <1>7, BecomeShows

\* c and s leave the screen in step.
LEMMA ChangeShows ==
  ASSUME Steady, ScreenInv, NEW n \in Nat, NEW end \in {NoAddr} \cup Nat, NEW input \in Typed,
         ChangeTo(n, end, input)
  PROVE  ScreenInv'
  <1> DEFINE s == Deleted(State, n, end)
             st == Typing(s.d, s.d.cursor_addr, input, 1)
             x == [s EXCEPT !.d = VisualSelectOff(@)]
             u == InsertTyped(x, 1, "i", st)
  <1>1. NotEmptied(s.h, State.d) /\ st.met \subseteq Slips /\ Become(u)
    BY NowIs DEF ChangeTo
  <1> HIDE DEF s
  <1>2. Fits(s) /\ InPlace(s.d)
    <2>1. Live(State) /\ Len(Text(State.h)) <= MaxLen
      BY NowIs
    <2> QED BY <1>1, <2>1, DeletedIs DEF s
  <1>3. /\ Live(x) /\ x.d.file_size = s.d.file_size /\ x.d.hex_cols = s.d.hex_cols
    <2>1. OnByte(s.d)
      BY <1>2 DEF InPlace, OnByte
    <2> QED BY <1>2, <2>1, SelectedOff
  <1> DEFINE addr == s.d.cursor_addr
  <1>4. addr \in Nat /\ s.d.page_start <= addr /\ (s.d.file_size = 0 => addr = 0)
    BY <1>2, CursorIs
  <1>5. st = Typing(s.d, addr, input, 1)
    OBVIOUS
  <1> HIDE DEF addr, st, x
  <1>6. /\ st \in Strokes /\ st.addr = addr /\ st.page_start % s.d.hex_cols = 0
        /\ "back" \notin st.met /\ st.page_start <= st.addr + Len(st.buf)
    BY <1>1, <1>2, <1>4, <1>5, TypedHere
  <1>7. /\ st.page_start % x.d.hex_cols = 0 /\ (x.d.file_size = 0 => st.addr = 0) /\ 1 \in Nat
    BY <1>3, <1>4, <1>6
  <1>8. Shows(u) /\ OnByte(u.d)
    BY <1>3, <1>6, <1>7, InsertTypedIs
  <1> QED
    BY <1>1, <1>8, BecomeShows

\* What R leaves.
LEMMA WrittenIs ==
  ASSUME ScreenInv, NEW st \in Strokes, NEW n \in Nat, st.addr = d.cursor_addr,
         st.page_start % d.hex_cols = 0,
         "back" \notin st.met, st.page_start <= st.addr + Len(st.buf),
         NEW copies, copies = (IF st.buf = <<>> THEN 0 ELSE Count(n)),
         st.addr + copies * Len(st.buf) <= d.file_size,
         NEW u, u = [h |-> Overwritten(History, st.addr, copies, st.buf),
                     d |-> [PrintScreen(PlaceCursor(d, st.addr + Len(st.buf)), st.page_start)
                             EXCEPT !.crashed = @ \/ "back" \in st.met]]
  PROVE  /\ Shows(u) /\ OnByte(u.d)
         /\ st.buf # <<>> => Text(u.h) = Exchange(text, st.addr, copies * Len(st.buf), Copies(copies, st.buf))
  <1> DEFINE a == st.addr
             buf == st.buf
             h == Overwritten(History, a, copies, buf)
             placed == PlaceCursor(d, a + Len(buf))
             shown == PrintScreen(placed, st.page_start)
  <1>1. /\ a \in Nat /\ buf \in Seq(Byte) /\ Len(buf) \in Nat /\ st.page_start \in Nat
        /\ copies \in Nat /\ (buf # <<>> => copies \in Nat \ {0} /\ Len(buf) # 0)
    <2>1. buf # <<>> => Len(buf) # 0
      BY EmptySeq DEF Strokes
    <2> QED BY <2>1, LenProperties DEF Strokes, Count
  <1>2. /\ InPlace(d) /\ Hist(History) /\ Within(History) /\ Len(text) \in Nat /\ d.file_size = Len(text)
        /\ text = Text(History) /\ Selects(d) /\ Lay(d)
    BY NowIs
  <1>3. /\ Hist(h) /\ Within(h) /\ Len(Text(h)) = Len(text)
        /\ buf # <<>> => Text(h) = Exchange(text, a, copies * Len(buf), Copies(copies, buf))
    <2>1. CASE buf # <<>>
      <3>1. a + copies * Len(buf) <= Len(Text(History))
        BY <1>2
      <3> HIDE DEF a, buf
      <3> QED BY <1>1, <1>2, <2>1, <3>1, OverwrittenIs
    <2>2. CASE buf = <<>>
      <3>1. copies = 0
        BY <2>2
      <3>2. h = WriteLoop!Outcome(a, buf, 0, History, copies)
        BY DEF Overwritten, WriteLoop!Outcome, WriteStep
      <3>3. PICK r : WriteLoop!Turns(a, buf, 0, History, copies, r)
        BY <1>1, WriteLoop!LoopTurns
      <3>4. h = History
        BY <3>1, <3>2, <3>3 DEF WriteLoop!Turns
      <3> QED BY <1>2, <2>2, <3>4
    <2> QED BY <2>1, <2>2
  <1>4. InPlace(placed) /\ Alike(placed, d)
    BY <1>2, PlacedInPlace
  <1>5. placed.file_size = 0 => st.page_start = 0
    <2>1. ASSUME d.file_size = 0 PROVE st.page_start = 0
      <3>1. a = 0
        BY <1>2, <2>1, CursorIs
      <3>2. buf = <<>>
        <4>1. ASSUME buf # <<>> PROVE FALSE
          <5> DEFINE l == Len(buf)
          <5>1. l \in Nat \ {0} /\ copies \in Nat \ {0} /\ a + copies * l <= 0
            BY <1>1, <2>1, <4>1
          <5> HIDE DEF l, a
          <5>2. copies * l >= 1
            BY <5>1
          <5> QED BY <3>1, <5>1, <5>2
        <4> QED BY <4>1
      <3>3. Len(buf) = 0
        BY <3>2
      <3> QED BY <1>1, <3>1, <3>3
    <2> QED BY <1>4, <2>1 DEF Alike
  <1>6. u = [h |-> h, d |-> [shown EXCEPT !.crashed = shown.crashed \/ "back" \in st.met]]
    BY Zenon
  <1> HIDE DEF placed
  <1>7. Paged(shown) /\ Alike(shown, placed) /\ shown.cursor_addr = placed.cursor_addr
    <2>1. Wide(placed) /\ st.page_start % placed.hex_cols = 0
      BY <1>4 DEF InPlace, Paged, Alike
    <2> QED BY <1>1, <1>5, <2>1, PrintedPage
  <1> HIDE DEF shown, h
  <1>8. u = [h |-> h, d |-> shown]
    <2>1. shown \in Screens /\ shown.crashed = FALSE
      BY <1>7 DEF Paged, Wide
    <2>2. (shown.crashed \/ "back" \in st.met) = FALSE
      BY <2>1
    <2>3. [shown EXCEPT !.crashed = shown.crashed \/ "back" \in st.met] = shown
      BY <2>1, <2>2, Zenon DEF Screens
    <2> QED BY <1>6, <2>3
  <1>9. u.h = h /\ u.d = shown /\ u = [h |-> u.h, d |-> u.d]
    BY <1>8
  <1>10. Fits(u)
    <2>1. Paged(shown) /\ shown.file_size = Len(Text(h)) /\ Lay(shown)
      BY <1>2, <1>3, <1>4, <1>7 DEF Alike, Lay
    <2> QED BY <1>3, <1>9, <2>1 DEF Fits
  <1>11. Selects(u.d) /\ OnByte(u.d)
    BY <1>2, <1>4, <1>7, <1>9 DEF Selects, Alike, InPlace, OnByte, AddressValid
  <1> QED
    BY <1>3, <1>9, <1>10, <1>11 DEF Shows

\* R leaves the screen in step.
LEMMA OverwriteShows ==
  ASSUME Steady, ScreenInv, NEW n \in Nat, DoOverwrite(n)
  PROVE  ScreenInv'
  <1>1. PICK input \in Typed : \E st \in {Typing(d, d.cursor_addr, input, 0)} :
       LET copies == IF st.buf = <<>> THEN 0 ELSE Count(n)
       IN  /\ "past" \in Slips \/ IsVisualOn(d) \/ st.addr + copies * Len(st.buf) <= d.file_size
           /\ st.met \subseteq Slips
           /\ IF IsVisualOn(d) THEN Refused
              ELSE Become([h |-> Overwritten(History, st.addr, copies, st.buf),
                           d |-> [PrintScreen(PlaceCursor(d, st.addr + Len(st.buf)), st.page_start)
                                    EXCEPT !.crashed = @ \/ "back" \in st.met]])
    BY Zenon DEF DoOverwrite
  <1>2. CASE IsVisualOn(d)
    <2>1. Become(State)
      BY <1>1, <1>2 DEF Refused
    <2>2. Shows(State) /\ OnByte(State.d)
      BY NowIs DEF InPlace, OnByte
    <2> QED BY <2>1, <2>2, BecomeShows
  <1>3. CASE ~IsVisualOn(d)
    <2> DEFINE st == Typing(d, d.cursor_addr, input, 0)
               copies == IF st.buf = <<>> THEN 0 ELSE Count(n)
               u == [h |-> Overwritten(History, st.addr, copies, st.buf),
                     d |-> [PrintScreen(PlaceCursor(d, st.addr + Len(st.buf)), st.page_start)
                             EXCEPT !.crashed = @ \/ "back" \in st.met]]
    <2>1. /\ st.addr + copies * Len(st.buf) <= d.file_size
          /\ st.met \subseteq Slips /\ Become(u)
      BY <1>1, <1>3 DEF Steady
    <2>2. InPlace(d)
      BY NowIs
    <2>3. d.cursor_addr \in Nat /\ d.page_start <= d.cursor_addr
      BY <2>2, CursorIs
    <2>4. /\ st \in Strokes /\ st.addr = d.cursor_addr /\ st.page_start % d.hex_cols = 0
          /\ "back" \notin st.met /\ st.page_start <= st.addr + Len(st.buf)
      BY <2>1, <2>2, <2>3, TypedHere
    <2>5. copies = IF st.buf = <<>> THEN 0 ELSE Count(n)
      OBVIOUS
    <2> HIDE DEF st, copies
    <2>6. Shows(u) /\ OnByte(u.d)
      BY <2>1, <2>4, <2>5, WrittenIs
    <2> QED BY <2>1, <2>6, BecomeShows
  <1> QED
    BY <1>2, <1>3

\* What is typed for r is a byte, or nothing.
LEMMA ReplacedIs ==
  ASSUME ScreenInv, NEW input \in Typed, NEW buf, buf = Spelled(input), buf # <<>>, Len(buf) <= 1,
         NEW n \in Nat,
         NEW addr, addr = (IF IsVisualOn(d) THEN VisualAddr(d) ELSE d.cursor_addr), AddressValid(d, addr),
         NEW span, span = (IF IsVisualOn(d) THEN VisualSpan(d) ELSE Count(n)),
         NEW m, m = Least(span, d.file_size - addr),
         NEW u, u = ReplaceAt(History, addr, Row(m, buf[1]))
  PROVE  /\ Hist(u) /\ Within(u) /\ Len(Text(u)) = Len(text)
         /\ Text(u) = Exchange(text, addr, m, Row(m, buf[1]))
         /\ m \in 1 .. d.file_size - addr /\ addr \in Nat
         /\ IsVisualOn(d) => m = span
  <1>1. buf \in Seq(Byte)
    <2>1. input \in Inputs
      BY EditorAssumption
    <2>2. /\ d.hex_cols \in Nat \ {0} /\ d.page_start \in Nat /\ d.page_start % d.hex_cols = 0
          /\ d.cursor_addr \in Nat /\ d.page_start <= d.cursor_addr
      BY NowIs, CursorIs
    <2>3. Spelled(input) \in Seq(Byte)
      BY <2>1, <2>2, TypedIs
    <2> QED BY <2>3
  <1>2. buf[1] \in Byte
    BY <1>1, EmptySeq, LenProperties
  <1>3. /\ InPlace(d) /\ Selects(d) /\ Hist(History) /\ Within(History) /\ Len(text) \in Nat
        /\ d.file_size = Len(text) /\ text = Text(History)
    BY NowIs
  <1>4. addr \in Nat /\ addr <= d.file_size - 1
    BY <1>3 DEF AddressValid
  <1>5. span \in Nat \ {0} /\ (IsVisualOn(d) => span <= d.file_size - addr)
    <2>1. CASE IsVisualOn(d)
      <3>1. d.select \in 0 .. d.file_size - 1 /\ d.cursor_addr \in 0 .. d.file_size - 1
        BY <1>3, <1>4, <2>1 DEF IsVisualOn, Selects, AddressValid, InPlace
      <3>2. addr = VisualAddr(d) /\ span = VisualSpan(d)
        BY <2>1
      <3> QED BY <1>3, <3>1, <3>2 DEF VisualAddr, VisualSpan, Least, Most
    <2>2. CASE ~IsVisualOn(d)
      BY <2>2 DEF Count
    <2> QED BY <2>1, <2>2
  <1>6. m \in 1 .. d.file_size - addr /\ (IsVisualOn(d) => m = span)
    BY <1>3, <1>4, <1>5 DEF Least
  <1> DEFINE row == Row(m, buf[1])
  <1>7. row \in Seq(Byte) /\ Len(row) = m
    BY <1>2, <1>6, RowIs
  <1>8. addr + Len(row) <= Len(Text(History))
    BY <1>3, <1>4, <1>6, <1>7
  <1> HIDE DEF row
  <1>9. /\ Hist(u) /\ Within(u) /\ Text(u) = Exchange(Text(History), addr, Len(row), row)
        /\ Len(Text(u)) = Len(Text(History))
    <2>1. u = ReplaceAt(History, addr, row)
      BY DEF row
    <2> QED BY <1>3, <1>4, <1>7, <1>8, <2>1, ReplacedAt
  <1> QED
    BY <1>3, <1>4, <1>6, <1>7, <1>9 DEF row

\* r leaves the screen in step.
LEMMA ReplaceShows ==
  ASSUME ScreenInv, NEW n \in Nat, DoReplace(n)
  PROVE  ScreenInv'
  <1>1. PICK buf \in {b \in {Spelled(input) : input \in Typed} : Len(b) <= 1} :
       LET addr == IF IsVisualOn(d) THEN VisualAddr(d) ELSE d.cursor_addr
           span == IF IsVisualOn(d) THEN VisualSpan(d) ELSE Count(n)
           fill == [i \in 1 .. Least(span, d.file_size - addr) |-> buf[1]]
       IN  Become([h |-> IF buf = <<>> \/ ~AddressValid(d, addr) THEN History
                         ELSE ReplaceAt(History, addr, fill),
                   d |-> VisualSelectOff(d)])
    BY Zenon DEF DoReplace
  <1>2. PICK input \in Typed : buf = Spelled(input) /\ Len(buf) <= 1
    BY <1>1
  <1> DEFINE addr == IF IsVisualOn(d) THEN VisualAddr(d) ELSE d.cursor_addr
             span == IF IsVisualOn(d) THEN VisualSpan(d) ELSE Count(n)
             m == Least(span, d.file_size - addr)
             w == ReplaceAt(History, addr, Row(m, buf[1]))
             h == IF buf = <<>> \/ ~AddressValid(d, addr) THEN History ELSE w
             v == VisualSelectOff(d)
             u == [h |-> h, d |-> v]
  <1>3. Become(u)
    BY <1>1 DEF Row
  <1>4. addr = (IF IsVisualOn(d) THEN VisualAddr(d) ELSE d.cursor_addr)
        /\ span = (IF IsVisualOn(d) THEN VisualSpan(d) ELSE Count(n))
    OBVIOUS
  <1> HIDE DEF addr, span
  <1>5. m = Least(span, d.file_size - addr) /\ w = ReplaceAt(History, addr, Row(m, buf[1]))
    OBVIOUS
  <1> HIDE DEF m, w
  <1>6. Hist(h) /\ Within(h) /\ Len(Text(h)) = Len(text)
    <2>1. CASE buf = <<>> \/ ~AddressValid(d, addr)
      BY <2>1, NowIs
    <2>2. CASE buf # <<>> /\ AddressValid(d, addr)
      <3>1. Hist(w) /\ Within(w) /\ Len(Text(w)) = Len(text)
        BY <1>2, <1>4, <1>5, <2>2, ReplacedIs
      <3> QED BY <2>2, <3>1
    <2> QED BY <2>1, <2>2
  <1> HIDE DEF h
  <1>7. /\ Paged(v) /\ v.select = NoAddr /\ v.file_size = d.file_size
        /\ v.cursor_addr = d.cursor_addr /\ v.page_start = d.page_start /\ v.page_end = d.page_end
        /\ v.hex_cols = d.hex_cols /\ v.hex_lines = d.hex_lines
    BY NowIs, SelectOffIs
  <1> HIDE DEF v
  <1>8. u.h = h /\ u.d = v /\ u = [h |-> u.h, d |-> u.d]
    OBVIOUS
  <1>9. Lay(v) /\ InPlace(d) /\ d.file_size = Len(text)
    BY <1>7, NowIs DEF Lay
  <1>10. Fits(u)
    BY <1>6, <1>7, <1>8, <1>9 DEF Fits
  <1>11. Selects(u.d) /\ OnByte(u.d)
    BY <1>7, <1>8, <1>9 DEF Selects, InPlace, OnByte, AddressValid
  <1> HIDE DEF u
  <1> QED
    BY <1>3, <1>10, <1>11, BecomeShows DEF Shows

\* Every version there is.
LEMMA VersionsAre ==
  ASSUME ScreenInv
  PROVE  /\ versions \in Seq(Seq(Byte)) /\ pos \in 1 .. Len(versions) /\ Len(versions) \in Nat
         /\ \A i \in 1 .. Len(versions) : versions[i] \in Seq(Byte) /\ Len(versions[i]) \in Nat /\ Len(versions[i]) <= MaxLen
  <1>1. Hist(History) /\ Within(History) /\ Len(text) <= MaxLen /\ text = Text(History) /\ Len(text) \in Nat
    BY NowIs
  <1>2. History.versions = versions /\ History.pos = pos
    BY DEF History
  <1>3. versions \in Seq(Seq(Byte)) /\ pos \in 1 .. Len(versions)
    BY <1>1, <1>2 DEF Hist, Histories
  <1>4. Len(versions) \in Nat /\ \A i \in 1 .. Len(versions) : versions[i] \in Seq(Byte)
    BY <1>3, LenProperties, ElementOfSeq
  <1>5. ASSUME NEW i \in 1 .. Len(versions) PROVE Len(versions[i]) \in Nat /\ Len(versions[i]) <= MaxLen
    <2>1. Len(versions[i]) \in Nat
      BY <1>4, LenProperties
    <2>2. Len(versions[i]) <= MaxLen \/ Len(versions[i]) <= Len(text)
      BY <1>1, <1>2 DEF Within
    <2>3. MaxLen \in Nat
      BY EditorAssumption
    <2> QED BY <1>1, <2>1, <2>2, <2>3
  <1> QED
    BY <1>3, <1>4, <1>5

\* An undo or a redo comes to another of the versions.
LEMMA TravelledIs ==
  ASSUME ScreenInv, NEW op \in {"undo", "redo"}, NEW n \in Nat, NEW u, u = Travel(op, n)
  PROVE  Hist(u) /\ Within(u) /\ Len(Text(u)) \in Nat /\ Len(Text(u)) <= MaxLen
  <1> DEFINE c == [op |-> op, offset |-> 0, buf |-> <<>>, len |-> Count(n)]
             k == Steps(History, c)
             to == IF op = "undo" THEN pos - k ELSE pos + k
  <1>1. /\ versions \in Seq(Seq(Byte)) /\ pos \in 1 .. Len(versions) /\ Len(versions) \in Nat
        /\ \A i \in 1 .. Len(versions) : versions[i] \in Seq(Byte) /\ Len(versions[i]) \in Nat /\ Len(versions[i]) <= MaxLen
    BY VersionsAre
  <1>2. Count(n) \in Nat
    BY DEF Count
  <1>3. to \in 1 .. Len(versions)
    <2>1. k = LET most == IF op = "undo" THEN pos - 1 ELSE Len(versions) - pos
              IN  IF Count(n) < most THEN Count(n) ELSE most
      BY DEF Steps, History
    <2> HIDE DEF k
    <2> QED BY <1>1, <1>2, <2>1
  <1>4. u = [versions |-> versions, pos |-> to]
    <2>1. ~IsEdit(c)
      BY DEF IsEdit
    <2>2. u = [History EXCEPT !.pos = IF op = "undo" THEN History.pos - k ELSE History.pos + k]
      BY <2>1, Zenon DEF Travel, After
    <2>3. History = [versions |-> versions, pos |-> pos] /\ History.pos = pos
      BY DEF History
    <2> HIDE DEF k
    <2>4. (IF op = "undo" THEN History.pos - k ELSE History.pos + k) = to
      BY <2>3
    <2> HIDE DEF to
    <2>5. u = [History EXCEPT !.pos = to]
      BY <2>2, <2>4
    <2> QED BY <2>3, <2>5, Zenon
  <1> HIDE DEF to
  <1>5. u.versions = versions /\ u.pos = to
    BY <1>4
  <1>6. u \in Histories
    BY <1>1, <1>3, <1>4 DEF Histories
  <1>7. Text(u) = versions[to]
    BY <1>5 DEF Text
  <1> QED
    BY <1>1, <1>3, <1>5, <1>6, <1>7 DEF Hist, Within

\* The screen over another version.
LEMMA TravelShows ==
  ASSUME Steady, ScreenInv, ~IsVisualOn(d), NEW h, Hist(h), Within(h), NotEmptied(h, d), NEW to,
         NEW v, v = ShownAgain(d, Len(Text(h)), to),
         \/ Len(Text(h)) = 0 \/ to \in 0 .. Len(Text(h)) - 1
         \/ UpdateDisplayInfo(d, Len(Text(h))).page_end # Len(Text(h)),
         Become([h |-> h, d |-> v])
  PROVE  ScreenInv'
  <1> DEFINE n == Len(Text(h))
             seen == UpdateDisplayInfo(d, n)
             u == [h |-> h, d |-> v]
  <1>1. Text(h) \in Seq(Byte) /\ n \in Nat
    BY TextIs
  <1>2. n = 0 => d.page_start = 0
    <2>1. n = 0 => Text(h) = <<>>
      BY <1>1, EmptySeq
    <2> QED BY <2>1 DEF NotEmptied, Steady
  <1>3. InPlace(d) /\ Paged(d) /\ Lay(d) /\ Selects(d) /\ d.file_size = Len(text) /\ Become(u)
    BY NowIs
  <1>4. v = ShownAgain(d, n, to) /\ (n = 0 \/ to \in 0 .. n - 1 \/ seen.page_end # n)
    OBVIOUS
  <1> HIDE DEF n
  <1>5. /\ Paged(v) /\ v.file_size = n /\ v.select = d.select
        /\ v.hex_cols = d.hex_cols /\ v.hex_lines = d.hex_lines
        /\ to \in 0 .. n - 1 => InPlace(v) /\ v.cursor_addr = to
        /\ n = 0 => InPlace(v) /\ v.cursor_addr = 0
        /\ (to \notin 0 .. n - 1 /\ n # 0) =>
             /\ v.page_start = d.page_start
             /\ v.cursor_addr = Least(Most(d.cursor_addr, d.page_start), v.page_end)
    <2>1. Paged(d) /\ n \in Nat /\ v = ShownAgain(d, n, to)
      BY <1>1, <1>3, <1>4
    <2> QED BY <1>2, <2>1, ShownAgainIs
  <1>6. /\ d.cursor_addr \in Nat /\ d.page_start \in Nat /\ d.page_start <= d.cursor_addr
        /\ d.hex_cols \in Nat \ {0} /\ d.page_start % d.hex_cols = 0
    BY <1>3, CursorIs
  <1>7. OnByte(v)
    <2>1. CASE n = 0
      BY <1>5, <2>1 DEF OnByte
    <2>2. CASE to \in 0 .. n - 1
      BY <1>5, <2>2 DEF OnByte, AddressValid
    <2>3. CASE to \notin 0 .. n - 1 /\ n # 0
      <3>1. /\ Paged(seen) /\ seen.file_size = n
            /\ seen.hex_cols = d.hex_cols /\ seen.hex_lines = d.hex_lines
            /\ seen.page_start = d.page_start - (d.page_start % d.hex_cols)
        <4>1. Wide(d) /\ d.page_start \in Nat
          BY <1>3 DEF Paged
        <4> QED BY <1>1, <1>2, <4>1, UpdatedIs
      <3>2. seen.page_end # n
        BY <1>4, <2>3
      <3>3. seen.page_start = d.page_start
        BY <1>6, <3>1
      <3> HIDE DEF seen
      <3>4. v.page_end = seen.page_end
        BY <1>5, <2>3, <3>1, <3>3 DEF Paged, PageEnd, PageSize
      <3>5. PageSize(v) \in Nat \ {0} /\ v.page_end = PageEnd(v) /\ v.page_start \in Nat
        BY <1>5, UnitAssumption DEF Paged, Wide
      <3>6. v.page_end \in 0 .. n - 1
        BY <1>1, <1>5, <2>3, <3>2, <3>4, <3>5 DEF PageEnd, Most
      <3>7. v.cursor_addr = Least(d.cursor_addr, v.page_end)
        BY <1>5, <1>6, <2>3 DEF Most
      <3>8. v.cursor_addr \in 0 .. n - 1
        BY <1>1, <1>6, <3>6, <3>7 DEF Least
      <3> QED BY <1>5, <3>8 DEF OnByte, AddressValid
    <2> QED BY <2>1, <2>2, <2>3
  <1> HIDE DEF seen
  <1>8. u.h = h /\ u.d = v /\ u = [h |-> u.h, d |-> u.d]
    OBVIOUS
  <1>9. Lay(v)
    BY <1>3, <1>5 DEF Lay
  <1>10. Fits(u)
    BY <1>5, <1>8, <1>9 DEF Fits, n
  <1>11. Selects(v)
    BY <1>5 DEF IsVisualOn, Selects
  <1> HIDE DEF u
  <1> QED
    BY <1>3, <1>7, <1>8, <1>10, <1>11, BecomeShows DEF Shows

\* u leaves the screen in step.
LEMMA UndoneShows ==
  ASSUME Steady, ScreenInv, NEW n \in Nat, Undone(n)
  PROVE  ScreenInv'
  <1> DEFINE h == Travel("undo", n)
             size == Len(Text(h))
             seen == UpdateDisplayInfo(d, size)
  <1>1. CASE IsVisualOn(d) \/ h.pos = pos
    <2>1. Become(State)
      BY <1>1, Zenon DEF Undone, Refused
    <2>2. Shows(State) /\ OnByte(State.d)
      BY NowIs DEF InPlace, OnByte
    <2> QED BY <2>1, <2>2, BecomeShows
  <1>2. CASE ~IsVisualOn(d) /\ h.pos # pos
    <2>1. NotEmptied(h, d)
      BY <1>2, Zenon DEF Undone
    <2>2. PICK caddr \in 0 .. MaxLen :
            LET to == IF AddressValid(seen, caddr) THEN caddr ELSE Most(seen.file_size - 1, 0)
            IN  Become([h |-> h, d |-> ShownAgain(d, size, to)])
      BY <1>2, Zenon DEF Undone, ShownAgain
    <2> DEFINE to == IF AddressValid(seen, caddr) THEN caddr ELSE Most(seen.file_size - 1, 0)
               v == ShownAgain(d, size, to)
    <2>3. Hist(h) /\ Within(h) /\ size \in Nat
      BY TravelledIs
    <2>4. Become([h |-> h, d |-> v])
      BY <2>2
    <2> HIDE DEF h
    <2>5. seen.file_size = size
      <3>1. Wide(d) /\ d.page_start \in Nat
        BY NowIs DEF Paged
      <3>2. size = 0 => d.page_start = 0
        <4>1. size = 0 => Text(h) = <<>>
          BY <2>3, TextIs, EmptySeq
        <4> QED BY <2>1, <4>1 DEF NotEmptied, Steady
      <3> HIDE DEF size
      <3> QED BY <2>3, <3>1, <3>2, UpdatedIs
    <2>6. size = 0 \/ to \in 0 .. size - 1
      <3> HIDE DEF seen, size
      <3> QED BY <2>3, <2>5 DEF AddressValid, Most
    <2> HIDE DEF to
    <2>7. v = ShownAgain(d, Len(Text(h)), to)
      OBVIOUS
    <2> HIDE DEF v
    <2> QED BY <1>2, <2>1, <2>3, <2>4, <2>6, <2>7, TravelShows DEF size
  <1> QED
    BY <1>1, <1>2

\* U leaves the screen in step.
LEMMA RedoShows ==
  ASSUME Steady, ScreenInv, NEW n \in Nat, DoRedo(n)
  PROVE  ScreenInv'
  <1> DEFINE h == Travel("redo", n)
             size == Len(Text(h))
             seen == UpdateDisplayInfo(d, size)
  <1>1. CASE IsVisualOn(d)
    <2>1. Become(State)
      BY <1>1, Zenon DEF DoRedo, Refused
    <2>2. Shows(State) /\ OnByte(State.d)
      BY NowIs DEF InPlace, OnByte
    <2> QED BY <2>1, <2>2, BecomeShows
  <1>2. CASE ~IsVisualOn(d)
    <2>1. NotEmptied(h, d)
      BY <1>2, Zenon DEF DoRedo
    <2>2. PICK caddr \in {NoAddr} \cup 0 .. MaxLen :
            /\ "tail" \in Slips \/ seen.page_end # seen.file_size \/ seen.file_size = 0 \/ AddressValid(seen, caddr)
            /\ Become([h |-> h, d |-> ShownAgain(d, size, caddr)])
      BY <1>2, Zenon DEF DoRedo, ShownAgain
    <2> DEFINE v == ShownAgain(d, size, caddr)
    <2>3. Hist(h) /\ Within(h) /\ size \in Nat
      BY TravelledIs
    <2>4. Become([h |-> h, d |-> v]) /\ v = ShownAgain(d, Len(Text(h)), caddr)
      BY <2>2
    <2> HIDE DEF h, v
    <2>5. seen.file_size = size
      <3>1. Wide(d) /\ d.page_start \in Nat
        BY NowIs DEF Paged
      <3>2. size = 0 => d.page_start = 0
        <4>1. size = 0 => Text(h) = <<>>
          BY <2>3, TextIs, EmptySeq
        <4> QED BY <2>1, <4>1 DEF NotEmptied, Steady
      <3> HIDE DEF size
      <3> QED BY <2>3, <3>1, <3>2, UpdatedIs
    <2>6. size = 0 \/ caddr \in 0 .. size - 1 \/ seen.page_end # size
      <3> HIDE DEF seen, size
      <3> QED BY <2>2, <2>5 DEF AddressValid, Steady
    <2> QED BY <1>2, <2>1, <2>3, <2>4, <2>6, TravelShows DEF size, seen
  <1> QED
    BY <1>1, <1>2

\* p and P leave the screen in step.
LEMMA PasteShows ==
  ASSUME ScreenInv, yank \in [Registers -> Seq(Byte)], register \in Registers, NEW n \in Nat, DoPaste(n)
  PROVE  ScreenInv'
  <1>1. PICK key \in {"p", "P"} : Become(Pasted(State, yank[register], key = "p", n))
    BY DEF DoPaste
  <1> DEFINE u == Pasted(State, yank[register], key = "p", n)
  <1>2. yank[register] \in Seq(Byte) /\ (key = "p") \in BOOLEAN
    OBVIOUS
  <1>3. Live(State)
    BY NowIs
  <1>4. Shows(u) /\ OnByte(u.d)
    <2> DEFINE buf == yank[register]
               after == key = "p"
    <2>1. buf \in Seq(Byte) /\ after \in BOOLEAN /\ u = Pasted(State, buf, after, n)
      BY <1>2
    <2> HIDE DEF buf, after, u
    <2> QED BY <1>3, <2>1, PastedIs
  <1> QED
    BY <1>1, <1>4, BecomeShows

(***************************************************************************)
(* The inductive invariant.                                                *)
(***************************************************************************)
RegistersInv ==
  /\ yank \in [Registers -> Seq(Byte)] /\ \A r \in Registers : Len(yank[r]) <= MaxLen
  /\ register \in Registers

MotionInv == motion \in Statics /\ motion.multiplier <= MaxCount

EditorInv == ScreenInv /\ RegistersInv /\ MotionInv

\* What is yanked is a part of the text.
LEMMA YankedIs ==
  ASSUME RegistersInv, NEW s, Live(s), Len(Text(s.h)) <= MaxLen, NEW n \in Nat, NEW end \in {NoAddr} \cup Nat,
         NEW y, y = Yanked(s, n, end)
  PROVE  /\ y \in [Registers -> Seq(Byte)] /\ \A r \in Registers : Len(y[r]) <= MaxLen
         /\ s.d.file_size # 0 =>
              y[register] = SubSeq(Text(s.h), First(s.d, end) + 1, First(s.d, end) + Cut(s.d, n, end))
  <1>1. /\ InPlace(s.d) /\ Selects(s.d) /\ Hist(s.h) /\ s.d.file_size = Len(Text(s.h))
    BY DEF Live, Shows, Fits
  <1>2. CASE s.d.file_size = 0
    <2>1. ~AddressValid(s.d, First(s.d, end))
      BY <1>2 DEF AddressValid
    <2>2. y = yank
      BY <2>1, Zenon DEF Yanked
    <2> QED BY <1>2, <2>2 DEF RegistersInv
  <1>3. CASE s.d.file_size # 0
    <2> DEFINE a == First(s.d, end)
               m == Cut(s.d, n, end)
               b == SubSeq(Text(s.h), a + 1, a + m)
    <2>1. AddressValid(s.d, a) /\ a \in Nat /\ m \in 1 .. s.d.file_size - a
      BY <1>1, <1>3, CutIs
    <2>2. y = [yank EXCEPT ![register] = b]
      BY <2>1, Zenon DEF Yanked, Bytes
    <2>3. Text(s.h) \in Seq(Byte) /\ Len(Text(s.h)) \in Nat /\ MaxLen \in Nat
      BY <1>1, TextIs, EditorAssumption
    <2> HIDE DEF a, m
    <2>4. a + 1 \in 1 .. Len(Text(s.h)) + 1 /\ a + m \in a .. Len(Text(s.h))
      BY <1>1, <2>1, <2>3
    <2>5. b \in Seq(Byte) /\ Len(b) = m /\ m \in Nat
      <3>1. b \in Seq(Byte) /\ Len(b) = (a + m) - (a + 1) + 1
        BY <2>1, <2>3, <2>4, SubSeqProperties
      <3> QED BY <2>1, <2>3, <3>1
    <2>6. m <= MaxLen
      BY <1>1, <2>1, <2>3
    <2> HIDE DEF b
    <2> QED BY <1>3, <2>2, <2>5, <2>6 DEF RegistersInv, a, m, b
  <1> QED
    BY <1>2, <1>3

\* Every key leaves the screen in step.
LEMMA KeyShows ==
  ASSUME Steady, EditorInv, NEW n \in Nat, Key(n)
  PROVE  ScreenInv'
  <1>0. /\ ScreenInv /\ motion \in Statics /\ NoAddr \in {NoAddr} \cup Nat
        /\ yank \in [Registers -> Seq(Byte)] /\ register \in Registers
        /\ InPlace(d) /\ d.cursor_addr \in {NoAddr} \cup Nat
    <2>1. ScreenInv /\ motion \in Statics /\ yank \in [Registers -> Seq(Byte)] /\ register \in Registers
      BY DEF EditorInv, RegistersInv, MotionInv
    <2>2. InPlace(d)
      BY <2>1, NowIs
    <2>3. d.cursor_addr \in Nat
      BY <2>2, CursorIs
    <2> QED BY <2>1, <2>2, <2>3
  <1>1. CASE DoDelete(n)
    <2>1. PICK end \in {NoAddr} \cup Nat : DeleteTo(n, end)
      <3>1. CASE IsVisualOn(d)
        BY <1>0, <1>1, <3>1 DEF DoDelete
      <3>2. CASE ~IsVisualOn(d)
        <4>1. PICK r \in NextMotionAddr : DeleteTo(n, r.end)
          BY <1>1, <3>2 DEF DoDelete
        <4> QED BY <1>0, <4>1, MotionsTyped
      <3> QED BY <3>1, <3>2
    <2> QED BY <1>0, <2>1, DeleteShows
  <1>2. CASE DoYank(n)
    <2>1. PICK end : YankTo(n, end)
      BY <1>2 DEF DoYank
    <2> QED BY <1>0, <2>1, YankShows
  <1>3. CASE DoCut(n)
    <2>1. PICK v \in {d, Move(d, [key |-> "left", n |-> n, to |-> NoAddr])} : CutAt(v, n)
      BY <1>3 DEF DoCut
    <2>2. InPlace(v) /\ Alike(v, d)
      <3>1. InPlace(d) /\ Alike(d, d)
        BY <1>0 DEF Alike
      <3>2. \A m : InPlace(Move(d, m)) /\ Alike(Move(d, m), d)
        BY <1>0, MovedInPlace
      <3> QED BY <3>1, <3>2
    <2> QED BY <1>0, <2>1, <2>2, CutShows
  <1>4. CASE DoInsert(n)
    BY <1>0, <1>4, InsertShows
  <1>5. CASE DoChange(n)
    <2>1. PICK k \in Nat, end \in {NoAddr} \cup Nat, input \in Typed : ChangeTo(k, end, input)
      <3>1. PICK input \in Typed :
              \/ ChangeTo(1, NoAddr, input) \/ ChangeTo(n, d.cursor_addr, input)
              \/ \E r \in NextMotionAddr : ChangeTo(n, r.end, input)
        BY <1>5, Zenon DEF DoChange
      <3>2. 1 \in Nat /\ \A r \in NextMotionAddr : r.end \in {NoAddr} \cup Nat
        BY <1>0, MotionsTyped
      <3> QED BY <1>0, <3>1, <3>2, Zenon
    <2> QED BY <1>0, <2>1, ChangeShows
  <1>6. CASE DoOverwrite(n)
    BY <1>0, <1>6, OverwriteShows
  <1>7. CASE DoReplace(n)
    BY <1>0, <1>7, ReplaceShows
  <1>8. CASE DoPaste(n)
    BY <1>0, <1>8, PasteShows
  <1>9. CASE DoUndo(n)
    BY <1>0, <1>9, UndoneShows DEF DoUndo
  <1>10. CASE SetYankRegister(n)
    BY <1>0, <1>10, UndoneShows DEF SetYankRegister
  <1>11. CASE DoRedo(n)
    BY <1>0, <1>11, RedoShows
  <1>12. CASE DoMove(n)
    BY <1>0, <1>12, MoveShows
  <1>13. CASE Go(n)
    BY <1>0, <1>13, GoShows
  <1> QED
    BY <1>1, <1>2, <1>3, <1>4, <1>5, <1>6, <1>7, <1>8, <1>9, <1>10, <1>11, <1>12, <1>13 DEF Key

\* The statics of get_next_motion_addr stay a count and an address.
LEMMA MotionStep ==
  ASSUME ScreenInv, MotionInv, Next
  PROVE  MotionInv'
  <1>1. UNCHANGED motion \/ \E r \in NextMotionAddr : motion' = r.statics
    <2>1. CASE VisualSelectToggle
      BY <2>1 DEF VisualSelectToggle, Alone
    <2>2. CASE Resize
      BY <2>2 DEF Resize, Alone
    <2>3. ASSUME NEW n \in Counts, Key(n) PROVE UNCHANGED motion \/ \E r \in NextMotionAddr : motion' = r.statics
      BY <2>3, Zenon DEF Key, DoDelete, DoYank, DoCut, DoInsert, DoChange, DoOverwrite, DoReplace, DoPaste, DoUndo,
                  SetYankRegister, DoRedo, DoMove, Go, Alone, By
    <2> QED BY <2>1, <2>2, <2>3 DEF Next
  <1> QED
    BY <1>1, MotionsTyped DEF MotionInv

\* The yank registers hold texts that are no longer than a text may be.
LEMMA RegistersStep ==
  ASSUME ScreenInv, RegistersInv, MotionInv, Next
  PROVE  RegistersInv'
  <1>0. Live(State) /\ Len(Text(State.h)) <= MaxLen /\ InPlace(d) /\ d.cursor_addr \in {NoAddr} \cup Nat
    <2>1. Live(State) /\ Len(Text(State.h)) <= MaxLen /\ InPlace(d)
      BY NowIs
    <2>2. d.cursor_addr \in Nat
      BY <2>1, CursorIs
    <2> QED BY <2>1, <2>2
  <1>1. ASSUME NEW s, Live(s), Len(Text(s.h)) <= MaxLen, NEW n \in Nat, NEW end \in {NoAddr} \cup Nat,
               yank' = Yanked(s, n, end), UNCHANGED register
        PROVE  RegistersInv'
    BY <1>1, YankedIs DEF RegistersInv
  <1>2. CASE VisualSelectToggle
    BY <1>2 DEF VisualSelectToggle, RegistersInv
  <1>3. CASE Resize
    BY <1>3 DEF Resize, RegistersInv
  <1>4. ASSUME NEW n \in Counts, Key(n) PROVE RegistersInv'
    <2>0. n \in Nat
      BY EditorAssumption
    <2>1. CASE DoYank(n)
      <3>1. PICK end \in {NoAddr} \cup Nat : YankTo(n, end)
        <4>1. \/ YankTo(n, NoAddr) \/ YankTo(n, d.cursor_addr) \/ \E r \in NextMotionAddr : YankTo(n, r.end)
          BY <2>1, Zenon DEF DoYank
        <4>2. \A r \in NextMotionAddr : r.end \in {NoAddr} \cup Nat
          BY MotionsTyped DEF MotionInv
        <4> QED BY <1>0, <4>1, <4>2, Zenon
      <3>2. yank' = Yanked(State, n, end) /\ UNCHANGED register
        BY <2>1, <3>1 DEF YankTo, DoYank
      <3> QED BY <1>0, <1>1, <2>0, <3>2
    <2>2. CASE DoCut(n)
      <3>1. PICK v \in {d, Move(d, [key |-> "left", n |-> n, to |-> NoAddr])} : CutAt(v, n)
        BY <2>2 DEF DoCut
      <3>2. InPlace(v) /\ Alike(v, d)
        <4>1. InPlace(d) /\ Alike(d, d)
          BY <1>0 DEF Alike
        <4>2. \A m : InPlace(Move(d, m)) /\ Alike(Move(d, m), d)
          BY <1>0, MovedInPlace
        <4> QED BY <3>1, <4>1, <4>2
      <3> DEFINE at == [State EXCEPT !.d = v]
      <3>3. yank' = Yanked(at, n, NoAddr) /\ UNCHANGED register
        BY <2>2, <3>1, Zenon DEF CutAt, DoCut
      <3>4. Live(at) /\ at.h = State.h
        BY <3>2, NowPlaced, NowIs
      <3> HIDE DEF at
      <3>5. Len(Text(at.h)) <= MaxLen /\ NoAddr \in {NoAddr} \cup Nat
        BY <1>0, <3>4
      <3> QED BY <1>1, <2>0, <3>3, <3>4, <3>5
    <2>3. CASE SetYankRegister(n)
      BY <2>3 DEF SetYankRegister, RegistersInv
    <2>4. CASE ~DoYank(n) /\ ~DoCut(n) /\ ~SetYankRegister(n)
      <3>1. UNCHANGED <<yank, register>>
        BY <1>4, <2>4, Zenon DEF Key, DoDelete, DoInsert, DoChange, DoOverwrite, DoReplace, DoPaste, DoUndo,
                          DoRedo, DoMove, Go
      <3> QED BY <3>1 DEF RegistersInv
    <2> QED BY <2>1, <2>2, <2>3, <2>4
  <1> QED
    BY <1>2, <1>3, <1>4 DEF Next

\* The screen is in step to begin with.
LEMMA InitShows ==
  ASSUME Steady, Init
  PROVE  EditorInv
  <1>1. PICK f \in Files : versions = <<f>> /\ pos = 1
    BY DEF Init
  <1>2. PICK t \in Layouts : d = ResetDisplayInfo(Len(versions[1]), t)
    BY DEF Init
  <1>3. f \in Seq(Byte) /\ Len(f) \in Nat /\ Len(f) <= MaxLen /\ MaxLen \in Nat
    BY EditorAssumption, LenProperties
  <1> DEFINE n == Len(f)
             r == [file_size |-> n, page_start |-> 0, page_end |-> 0, cursor_addr |-> 0,
                   select |-> NoAddr, hex_cols |-> 0, hex_lines |-> 0, crashed |-> FALSE]
             laid == Laid(r, t)
  <1>4. versions[1] = f /\ Len(versions) = 1
    BY <1>1
  <1>5. d = PrintScreen(laid, 0)
    BY <1>2, <1>4, Zenon DEF ResetDisplayInfo
  <1>6. r \in Screens /\ r.crashed = FALSE /\ r.file_size = n /\ r.cursor_addr = 0 /\ r.select = NoAddr
    BY <1>3 DEF Screens, NoAddr
  <1> HIDE DEF n, r
  <1>7. /\ Wide(laid) /\ laid.file_size = n /\ laid.select = NoAddr
        /\ laid.cursor_addr = 0 /\ laid.hex_cols = HexCols(t) /\ laid.hex_lines = HexLines(t)
    BY <1>6, LaidIs
  <1>8. HexCols(t) \in Nat \ {0}
    BY LayoutIs
  <1> HIDE DEF laid
  <1>9. Paged(d) /\ Alike(d, laid) /\ d.cursor_addr = laid.cursor_addr /\ d.page_start = 0
    <2>1. 0 \in Nat /\ 0 % laid.hex_cols = 0
      BY <1>7, <1>8
    <2> QED BY <1>5, <1>7, <2>1, PrintedPage
  <1>10. /\ Paged(d) /\ d.file_size = n /\ d.select = NoAddr /\ d.cursor_addr = 0 /\ d.page_start = 0
         /\ d.hex_cols = HexCols(t) /\ d.hex_lines = HexLines(t)
    BY <1>7, <1>9 DEF Alike
  <1>11. InPlace(d)
    <2>1. d.page_end = PageEnd(d) /\ PageSize(d) \in Nat \ {0} /\ n \in Nat
      BY <1>3, <1>10, UnitAssumption DEF Paged, Wide, n
    <2>2. n # 0 => 0 <= d.page_end /\ d.page_end \in Int
      BY <1>10, <2>1 DEF PageEnd, Most
    <2> QED BY <1>10, <2>1, <2>2 DEF InPlace, AddressValid, OnPage
  <1>12. Selects(d) /\ Lay(d)
    BY <1>10 DEF Selects, Lay
  <1>13. History.versions = versions /\ History.pos = 1 /\ State.h = History /\ State.d = d
         /\ State = [h |-> State.h, d |-> State.d] /\ History = [versions |-> versions, pos |-> 1]
    BY <1>1 DEF History, State
  <1>14. Text(History) = f /\ text = f
    BY <1>4, <1>13 DEF Text, text
  <1>15. Hist(History)
    <2>1. versions \in Seq(Seq(Byte))
      <3>1. <<f>> \in Seq(Seq(Byte))
        BY <1>3
      <3> QED BY <1>1, <3>1
    <2> QED BY <1>4, <1>13, <2>1 DEF Hist, Histories
  <1>16. Within(History)
    <2>1. \A i \in 1 .. Len(versions) : Len(versions[i]) <= MaxLen
      BY <1>3, <1>4
    <2> QED BY <1>13, <2>1 DEF Within
  <1>17. ScreenInv
    BY <1>3, <1>10, <1>11, <1>12, <1>13, <1>14, <1>15, <1>16 DEF ScreenInv, Live, Shows, Fits, n
  <1>18. RegistersInv
    <2>1. yank = [x \in Registers |-> <<>>] /\ register \in Registers
      BY DEF Init
    <2>2. <<>> \in Seq(Byte) /\ Len(<<>>) <= MaxLen
      BY <1>3
    <2> QED BY <2>1, <2>2 DEF RegistersInv
  <1>19. MotionInv
    BY EditorAssumption DEF Init, MotionInv, Statics
  <1> QED
    BY <1>17, <1>18, <1>19 DEF EditorInv

\* Every step keeps the invariant.
LEMMA EditorStep ==
  ASSUME Steady, EditorInv, [Next]_vars
  PROVE  EditorInv'
  <1>0. ScreenInv /\ RegistersInv /\ MotionInv
    BY DEF EditorInv
  <1>1. CASE Next
    <2>1. ScreenInv'
      <3>1. CASE VisualSelectToggle
        BY <1>0, <3>1, VisualShows
      <3>2. CASE Resize
        BY <1>0, <3>2, ResizeShows
      <3>3. ASSUME NEW n \in Counts, Key(n) PROVE ScreenInv'
        <4>1. n \in Nat
          BY EditorAssumption
        <4> QED BY <3>3, <4>1, KeyShows
      <3> QED BY <1>1, <3>1, <3>2, <3>3 DEF Next
    <2> QED BY <1>0, <1>1, <2>1, RegistersStep, MotionStep DEF EditorInv
  <1>2. CASE UNCHANGED vars
    BY <1>2 DEF vars, EditorInv, ScreenInv, RegistersInv, MotionInv, State, History, text
  <1> QED
    BY <1>1, <1>2

\* The inductive invariant: before every key the history holds texts, the screen
\* shows the current one with the cursor on a byte of the page, and the registers
\* and the statics of get_next_motion_addr are what they are meant for.
THEOREM EditorInvariant ==
  ASSUME Steady
  PROVE  Spec => []EditorInv
  <1>1. Init => EditorInv
    BY InitShows
  <1>2. EditorInv /\ [Next]_vars => EditorInv'
    BY EditorStep
  <1> QED
    BY <1>1, <1>2, PTL DEF Spec

\* A screen that shows its text is in step with it.
LEMMA InvInStep ==
  ASSUME EditorInv
  PROVE  ScreenInStep
  <1>1. ScreenInv
    BY DEF EditorInv
  <1>2. /\ InPlace(d) /\ Paged(d) /\ Selects(d) /\ d.file_size = Len(text) /\ text \in Seq(Byte) /\ Len(text) \in Nat
    BY <1>1, NowIs
  <1>3. ~d.crashed /\ d.page_end = PageEnd(d) /\ d.page_start % d.hex_cols = 0
    BY <1>2 DEF Paged, Wide
  <1>4. text = <<>> <=> d.file_size = 0
    BY <1>2, EmptySeq
  <1>5. IF text = <<>> THEN d.cursor_addr = 0 ELSE AddressValid(d, d.cursor_addr) /\ OnPage(d, d.cursor_addr)
    BY <1>2, <1>4 DEF InPlace
  <1>6. d.select < Most(d.file_size, 1)
    <2>1. d.select = NoAddr \/ d.select \in 0 .. d.file_size - 1
      BY <1>2 DEF Selects, AddressValid
    <2> QED BY <1>2, <2>1 DEF NoAddr, Most
  <1> QED
    BY <1>2, <1>3, <1>5, <1>6 DEF ScreenInStep, BytesPerLine

\* Whatever is typed, deleted, undone or resized, before every key the size is
\* known, the page begins with a line, the cursor is on a byte of the page and
\* nothing was divided by zero: for every text, layout and input.
THEOREM AlwaysInStep ==
  ASSUME Steady
  PROVE  Spec => []ScreenInStep
  <1>1. EditorInv => ScreenInStep
    BY InvInStep
  <1> QED
    BY <1>1, EditorInvariant, PTL

\* The invariant gives the types.
LEMMA InvTyped ==
  ASSUME EditorInv
  PROVE  TypeOK
  <1>1. ScreenInv /\ RegistersInv /\ MotionInv
    BY DEF EditorInv
  <1>2. /\ InPlace(d) /\ Paged(d) /\ Selects(d) /\ Lay(d) /\ d.file_size = Len(text) /\ Len(text) \in Nat
        /\ Len(text) <= MaxLen /\ MaxLen \in Nat
    BY <1>1, NowIs, EditorAssumption
  <1>3. /\ versions \in Seq(Seq(Byte)) /\ pos \in 1 .. Len(versions)
        /\ \A i \in 1 .. Len(versions) : Len(versions[i]) <= MaxLen
    BY <1>1, VersionsAre
  <1>4. /\ d.cursor_addr \in Nat /\ d.page_start \in Nat /\ d.page_start <= d.cursor_addr
        /\ d.file_size \in Nat /\ d.cursor_addr <= Most(d.file_size - 1, 0)
        /\ d.page_end \in Nat
        /\ d.page_end <= Most(d.file_size - 1, 0) \/ d.page_end = d.file_size
    BY <1>2, CursorIs
  <1>5. /\ d.cursor_addr \in 0 .. MaxLen /\ d.page_start \in 0 .. MaxLen /\ d.page_end \in 0 .. MaxLen
    BY <1>2, <1>4 DEF Most
  <1>6. d.select \in {NoAddr} \cup 0 .. MaxLen
    <2>1. d.select = NoAddr \/ d.select \in 0 .. d.file_size - 1
      BY <1>2 DEF Selects, AddressValid
    <2> QED BY <1>2, <2>1
  <1>7. \E t \in Layouts : d = Laid(d, t)
    <2>1. PICK t \in Layouts : d.hex_cols = HexCols(t) /\ d.hex_lines = HexLines(t)
      BY <1>2 DEF Lay
    <2> DEFINE c == HexCols(t)
               l == HexLines(t)
    <2>2. d \in Screens
      BY <1>2 DEF Paged, Wide
    <2>3. d.hex_cols = c /\ d.hex_lines = l
      BY <2>1
    <2>4. Laid(d, t) = [[d EXCEPT !.hex_cols = c] EXCEPT !.hex_lines = l]
      BY Zenon DEF Laid
    <2> HIDE DEF c, l
    <2>5. [d EXCEPT !.hex_cols = c] = d
      BY <2>2, <2>3, Zenon DEF Screens
    <2>6. [d EXCEPT !.hex_lines = l] = d
      BY <2>2, <2>3, Zenon DEF Screens
    <2> QED BY <2>4, <2>5, <2>6
  <1> QED
    BY <1>1, <1>3, <1>5, <1>6, <1>7 DEF TypeOK, RegistersInv, MotionInv, Statics

\* Every variable keeps the values it is meant for, and the cursor is never -1.
THEOREM EditorTyped ==
  ASSUME Steady
  PROVE  Spec => []TypeOK
  <1>1. EditorInv => TypeOK
    BY InvTyped
  <1> QED
    BY <1>1, EditorInvariant, PTL

\* What gave way to nothing gives way to something.
LEMMA ExchangeTwice ==
  ASSUME NEW t \in Seq(Byte), NEW a \in Nat, NEW m \in Nat, Lies(t, a, m), NEW b \in Seq(Byte)
  PROVE  Exchange(Exchange(t, a, m, <<>>), a, 0, b) = Exchange(t, a, m, b)
  <1> DEFINE none == SubSeq(b, 1, 0)
             w == Exchange(t, a, m, <<>>)
             u == Exchange(w, a, 0, b)
             v == Exchange(t, a, m, b)
  <1>1. Len(t) \in Nat /\ a + m <= Len(t) /\ Len(b) \in Nat /\ <<>> \in Seq(Byte) /\ Len(<<>>) = 0
    BY LenProperties DEF Lies
  <1>2. /\ w \in Seq(Byte) /\ Len(w) = Len(t) - m
        /\ \A i \in 1 .. Len(t) - m : w[i] = IF i <= a THEN t[i] ELSE t[i + m]
    <2> DEFINE e == <<>>
    <2>1. e \in Seq(Byte) /\ Len(e) = 0
      OBVIOUS
    <2> HIDE DEF e
    <2>2. \A x : x = Exchange(t, a, m, e) => x \in Seq(Byte) /\ Exchanged(x, t, a, m, e)
      BY <2>1, ExchangeIs
    <2>3. w \in Seq(Byte) /\ Exchanged(w, t, a, m, e)
      BY <2>2 DEF e
    <2> HIDE DEF w
    <2> QED BY <1>1, <2>1, <2>3 DEF Exchanged
  <1>3. Lies(w, a, 0)
    <2> HIDE DEF w
    <2> QED BY <1>1, <1>2 DEF Lies
  <1>4. u \in Seq(Byte) /\ Exchanged(u, w, a, 0, b)
    <2>1. u = Exchange(w, a, 0, b)
      OBVIOUS
    <2> HIDE DEF u, w
    <2> QED BY <1>2, <1>3, <2>1, ExchangeIs
  <1>5. v \in Seq(Byte) /\ Exchanged(v, t, a, m, b)
    <2>1. v = Exchange(t, a, m, b)
      OBVIOUS
    <2> HIDE DEF v
    <2> QED BY <2>1, ExchangeIs
  <1> HIDE DEF u, v, w
  <1> DEFINE l == Len(b)
  <1>6. /\ Len(u) = Len(t) - m + l
        /\ \A i \in 1 .. Len(t) - m + l :
             u[i] = IF i <= a THEN w[i] ELSE IF i <= a + l THEN b[i - a] ELSE w[i - l]
    <2>1. Len(w) - 0 + l = Len(t) - m + l /\ \A i \in Int : i - l + 0 = i - l
      BY <1>1, <1>2
    <2> QED BY <1>4, <2>1 DEF Exchanged
  <1>7. /\ Len(v) = Len(t) - m + l
        /\ \A i \in 1 .. Len(t) - m + l :
             v[i] = IF i <= a THEN t[i] ELSE IF i <= a + l THEN b[i - a] ELSE t[i - l + m]
    BY <1>5 DEF Exchanged
  <1>8. ASSUME NEW i \in 1 .. Len(t) - m + l PROVE u[i] = v[i]
    <2>0. l \in Nat
      BY <1>1
    <2> HIDE DEF l
    <2>1. CASE i <= a
      <3>1. i \in 1 .. Len(t) - m
        BY <1>1, <2>1
      <3> QED BY <1>2, <1>6, <1>7, <2>1, <3>1
    <2>2. CASE i > a /\ i <= a + l
      <3>1. ~(i <= a)
        BY <2>2
      <3> QED BY <1>6, <1>7, <2>2, <3>1
    <2>3. CASE i > a + l
      <3>1. i - l \in 1 .. Len(t) - m /\ ~(i - l <= a) /\ ~(i <= a) /\ ~(i <= a + l)
        BY <1>1, <2>0, <2>3
      <3>2. u[i] = w[i - l] /\ v[i] = t[i - l + m]
        BY <1>6, <1>7, <3>1
      <3> QED BY <1>2, <3>1, <3>2
    <2> QED BY <1>1, <2>0, <2>1, <2>2, <2>3
  <1>9. u = v
    BY <1>4, <1>5, <1>6, <1>7, <1>8, SeqEqual
  <1> QED
    BY <1>9 DEF u, v, w

\* Bytes are put where they were.
LEMMA PutBack ==
  ASSUME NEW t \in Seq(Byte), NEW a \in Nat, NEW m \in Nat, Lies(t, a, m),
         NEW b \in Seq(Byte), Len(b) = m, \A i \in 1 .. m : b[i] = t[a + i]
  PROVE  Exchange(t, a, m, b) = t
  <1> DEFINE u == Exchange(t, a, m, b)
  <1>1. Len(t) \in Nat /\ a + m <= Len(t)
    BY LenProperties DEF Lies
  <1>3. u = Exchange(t, a, m, b)
    OBVIOUS
  <1> HIDE DEF u
  <1>4. /\ u \in Seq(Byte) /\ Len(u) = Len(t)
        /\ \A i \in 1 .. Len(t) : u[i] = IF i <= a THEN t[i] ELSE IF i <= a + m THEN b[i - a] ELSE t[i]
    <2>1. u \in Seq(Byte) /\ Exchanged(u, t, a, m, b)
      BY <1>3, ExchangeIs
    <2>2. Len(t) - m + Len(b) = Len(t) /\ \A i \in Int : i - Len(b) + m = i
      BY <1>1
    <2>3. Len(b) = m
      OBVIOUS
    <2> QED BY <2>1, <2>2, <2>3 DEF Exchanged
  <1>5. ASSUME NEW i \in 1 .. Len(t) PROVE u[i] = t[i]
    <2>1. CASE i > a /\ i <= a + m
      <3>1. i - a \in 1 .. m /\ a + (i - a) = i
        BY <1>1, <2>1
      <3>2. b[i - a] = t[a + (i - a)]
        BY <3>1
      <3> QED BY <1>4, <2>1, <3>1, <3>2
    <2>2. CASE ~(i > a /\ i <= a + m)
      BY <1>1, <1>4, <2>2
    <2> QED BY <2>1, <2>2
  <1>6. u = t
    BY <1>4, <1>5, SeqEqual
  <1> QED
    BY <1>6 DEF u

\* The bytes that were taken are put back where they were.
LEMMA ExchangeBack ==
  ASSUME NEW t \in Seq(Byte), NEW a \in Nat, NEW m \in Nat, Lies(t, a, m),
         NEW b, b = SubSeq(t, a + 1, a + m)
  PROVE  b \in Seq(Byte) /\ Len(b) = m /\ Exchange(t, a, m, b) = t
  <1>1. Len(t) \in Nat /\ a + m <= Len(t)
    BY LenProperties DEF Lies
  <1>2. /\ b \in Seq(Byte) /\ Len(b) = m /\ \A i \in 1 .. m : b[i] = t[a + i]
    <2>1. a + 1 \in 1 .. Len(t) + 1 /\ a + m \in (a + 1) - 1 .. Len(t)
      BY <1>1
    <2>2. (a + m) - (a + 1) + 1 = m
      BY <1>1
    <2> QED BY <1>1, <2>1, <2>2
  <1> QED
    BY <1>2, PutBack

\* One copy, and copies of one byte.
LEMMA CopiesAre ==
  ASSUME NEW n \in Nat \ {0}, NEW buf \in Seq(Byte), buf # <<>>
  PROVE  /\ n = 1 => Copies(n, buf) = buf
         /\ Len(buf) = 1 => Copies(n, buf) = Row(n, buf[1])
  <1>1. Len(buf) \in Nat \ {0}
    BY EmptySeq, LenProperties
  <1>2. n \in Nat
    OBVIOUS
  <1>3. /\ Copies(n, buf) \in Seq(Byte) /\ Len(Copies(n, buf)) = n * Len(buf)
        /\ \A i \in 1 .. n * Len(buf) : Copies(n, buf)[i] = buf[((i - 1) % Len(buf)) + 1]
    BY <1>2, CopiesIs
  <1> DEFINE c == Copies(n, buf)
             l == Len(buf)
  <1>4. ASSUME n = 1 PROVE c = buf
    <2>1. n * l = l
      BY <1>1, <1>4
    <2>2. c \in Seq(Byte) /\ Len(c) = l /\ \A i \in 1 .. l : c[i] = buf[((i - 1) % l) + 1]
      BY <1>3, <2>1
    <2> HIDE DEF c
    <2>3. \A i \in 1 .. l : ((i - 1) % l) + 1 = i
      <3> HIDE DEF l
      <3> TAKE i \in 1 .. l
      <3>1. l \in Nat \ {0} /\ i - 1 \in 0 .. l - 1
        BY <1>1 DEF l
      <3>2. \A k \in Nat \ {0} : \A z \in 0 .. k - 1 : z % k = z
        OBVIOUS
      <3>3. (i - 1) % l = i - 1
        BY <3>1, <3>2
      <3> QED BY <3>1, <3>3
    <2>4. \A i \in 1 .. l : c[i] = buf[i]
      BY <2>2, <2>3
    <2> QED BY <1>1, <2>2, <2>4, SeqEqual
  <1>5. ASSUME l = 1 PROVE c = Row(n, buf[1])
    <2> DEFINE r == Row(n, buf[1])
    <2>1. buf[1] \in Byte
      BY <1>5, LenProperties
    <2>2. r \in Seq(Byte) /\ Len(r) = n /\ \A i \in 1 .. n : r[i] = buf[1]
      BY <1>2, <2>1, RowIs
    <2>3. c \in Seq(Byte) /\ Len(c) = n /\ \A i \in 1 .. n : c[i] = buf[((i - 1) % 1) + 1]
      BY <1>3, <1>5
    <2>4. \A i \in 1 .. n : ((i - 1) % 1) + 1 = 1
      OBVIOUS
    <2> HIDE DEF c, r
    <2>5. \A i \in 1 .. n : c[i] = r[i]
      BY <2>2, <2>3, <2>4
    <2>6. c = r
      BY <2>2, <2>3, <2>5, SeqEqual
    <2> QED BY <2>6 DEF r
  <1> QED
    BY <1>4, <1>5

\* The key that is pressed says what it does.
LEMMA PressIs ==
  ASSUME NEW key, NEW n, NEW x
  PROVE  /\ Press(key, n).key = key /\ Press(key, n).n = n
         /\ LET w == [Press(key, n) EXCEPT !.by = x] IN w.key = key /\ w.n = n /\ w.by = x
         /\ LET w == [Press(key, n) EXCEPT !.typed = x] IN w.key = key /\ w.n = n /\ w.typed = x
  <1> DEFINE p == Press(key, n)
             e == <<>>
             S == [key : {key}, n : {n}, typed : {e, x}, by : {e, x}]
             w == [p EXCEPT !.by = x]
             v == [p EXCEPT !.typed = x]
  <1>1. p = [key |-> key, n |-> n, typed |-> e, by |-> e]
    BY DEF Press
  <1> HIDE DEF p, e
  <1>2. p \in [key : {key}, n : {n}, typed : {e, x}, by : {e, x}]
    BY <1>1
  <1>3. w \in [key : {key}, n : {n}, typed : {e, x}, by : {e, x}] /\ w.by = x
    BY <1>2, Zenon
  <1>4. v \in [key : {key}, n : {n}, typed : {e, x}, by : {e, x}] /\ v.typed = x
    BY <1>2, Zenon
  <1>5. p.key = key /\ p.n = n
    BY <1>1
  <1> HIDE DEF w, v
  <1>6. w.key = key /\ w.n = n /\ w.by = x /\ v.key = key /\ v.n = n /\ v.typed = x
    BY <1>3, <1>4
  <1> QED
    BY <1>5, <1>6, Zenon DEF p, w, v

(***************************************************************************)
(* What is typed is in the text where it was shown.                        *)
(***************************************************************************)
\* Which action a key is.
Tells(n, key) ==
  /\ key = "d" => DoDelete(n)
  /\ key = "y" => DoYank(n)
  /\ key \in {"x", "X"} => DoCut(n)
  /\ key \in {"i", "a"} => DoInsert(n)
  /\ key = "c" => DoChange(n)
  /\ key = "R" => DoOverwrite(n)
  /\ key = "r" => DoReplace(n)

Others == {"Y", "s", "p", "P", "u", "quote", "U", "g", "v", "resize",
           "up", "down", "left", "right", "file_end", "line_start", "line_end", "page_down", "page_up",
           "escape", "jump", "seek"}

\* A key without a motion says which it is.
LEMMA AloneIs ==
  ASSUME NEW key, NEW n, Alone(key, n)
  PROVE  was'.key = key /\ was'.n = n
  BY PressIs DEF Alone

\* A key with a motion says which it is.
LEMMA ByIs ==
  ASSUME NEW key, NEW n, NEW r, By(key, n, r)
  PROVE  was'.key = key /\ was'.n = n /\ was'.by = r.by
  BY PressIs DEF By

\* The action of a key is told from the key.
LEMMA KeyTells ==
  ASSUME NEW n, Key(n)
  PROVE  was'.n = n /\ Tells(n, was'.key)
  <1>0. ASSUME NEW key \in Others PROVE Tells(n, key)
    BY <1>0 DEF Others, Tells
  <1>1. CASE DoDelete(n)
    <2>1. was'.key = "d" /\ was'.n = n
      BY <1>1, AloneIs, ByIs, Zenon DEF DoDelete
    <2> QED BY <1>1, <2>1 DEF Tells
  <1>2. CASE DoYank(n)
    <2>1. was'.key \in {"y", "Y"} /\ was'.n = n
      BY <1>2, AloneIs, ByIs, Zenon DEF DoYank
    <2> QED BY <1>2, <2>1 DEF Tells
  <1>3. CASE DoCut(n)
    <2>1. was'.key \in {"x", "X"} /\ was'.n = n
      BY <1>3, AloneIs, ByIs, Zenon DEF DoCut
    <2> QED BY <1>3, <2>1 DEF Tells
  <1>4. CASE DoInsert(n)
    <2>1. PICK key \in {"i", "a"}, input \in Typed : was' = [Press(key, n) EXCEPT !.typed = Spelled(input)]
      BY <1>4, Zenon DEF DoInsert
    <2>2. was'.key \in {"i", "a"} /\ was'.n = n
      BY <2>1, PressIs
    <2> QED BY <1>4, <2>2 DEF Tells
  <1>5. CASE DoChange(n)
    <2>1. was'.key \in {"c", "s"} /\ was'.n = n
      BY <1>5, AloneIs, ByIs, Zenon DEF DoChange
    <2> QED BY <1>5, <2>1 DEF Tells
  <1>6. CASE DoOverwrite(n)
    <2>1. PICK typed : was' = [Press("R", n) EXCEPT !.typed = typed]
      BY <1>6, Zenon DEF DoOverwrite
    <2>2. was'.key = "R" /\ was'.n = n
      BY <2>1, PressIs
    <2> QED BY <1>6, <2>2 DEF Tells
  <1>7. CASE DoReplace(n)
    <2>1. PICK typed : was' = [Press("r", n) EXCEPT !.typed = typed]
      BY <1>7, Zenon DEF DoReplace
    <2>2. was'.key = "r" /\ was'.n = n
      BY <2>1, PressIs
    <2> QED BY <1>7, <2>2 DEF Tells
  <1>8. CASE DoPaste(n) \/ DoUndo(n) \/ SetYankRegister(n) \/ DoRedo(n) \/ DoMove(n) \/ Go(n)
    <2>1. \E key \in Others : Alone(key, n) \/ \E r : By(key, n, r)
      <3>1. CASE DoPaste(n) \/ DoUndo(n) \/ SetYankRegister(n) \/ DoRedo(n) \/ Go(n)
        BY <3>1, Zenon DEF DoPaste, DoUndo, SetYankRegister, DoRedo, Go, Others
      <3>2. CASE DoMove(n)
        <4>1. PICK m \in Motion : Alone(m.key, n)
          BY <3>2, Zenon DEF DoMove
        <4>2. m.key \in Others
          <5>1. CASE m \in [key : {"up", "down", "left", "right", "file_end"}, n : Counts, to : {NoAddr}]
            BY <5>1 DEF Others
          <5>2. CASE m \in [key : {"line_start", "line_end", "page_down", "page_up", "escape"}, n : {0}, to : {NoAddr}]
            BY <5>2 DEF Others
          <5>3. CASE m \in [key : {"jump", "seek"}, n : {0}, to : {NoAddr} \cup 0 .. MaxLen]
            BY <5>3 DEF Others
          <5> QED BY <5>1, <5>2, <5>3, Zenon DEF Motion
        <4> QED BY <4>1, <4>2
      <3> QED BY <1>8, <3>1, <3>2
    <2>2. was'.key \in Others /\ was'.n = n
      BY <2>1, AloneIs, ByIs
    <2> QED BY <1>0, <2>2
  <1> QED
    BY <1>1, <1>2, <1>3, <1>4, <1>5, <1>6, <1>7, <1>8 DEF Key

\* A step with one of these keys is that of an action.
LEMMA StepTells ==
  ASSUME Next
  PROVE  was'.key \in Others \/ \E n \in Counts : n \in Nat /\ was'.n = n /\ Tells(n, was'.key)
  <1>1. CASE VisualSelectToggle
    BY <1>1, AloneIs DEF VisualSelectToggle, Others
  <1>2. CASE Resize
    BY <1>2, AloneIs DEF Resize, Others
  <1>3. ASSUME NEW n \in Counts, Key(n)
        PROVE  n \in Nat /\ was'.n = n /\ Tells(n, was'.key)
    BY <1>3, KeyTells, EditorAssumption
  <1> QED
    BY <1>1, <1>2, <1>3 DEF Next

\* The text that a key leaves.
LEMMA BecomesText ==
  ASSUME NEW s, Hist(s.h), Become(s)
  PROVE  text' = Text(s.h) /\ d' = PlaceCursor(s.d, s.d.cursor_addr)
  <1>1. versions' = s.h.versions /\ pos' = s.h.pos /\ d' = PlaceCursor(s.d, s.d.cursor_addr)
    BY DEF Become
  <1>2. History' = s.h
    BY <1>1 DEF History, Hist, Histories
  <1> QED
    BY <1>1, <1>2 DEF text

TypedStep ==
  ~IsVisualOn(d) /\ was'.key \in {"i", "a", "R"} /\ was'.typed # <<>> =>
       LET new == Copies(Count(was'.n), was'.typed)
           at == IF was'.key = "a" /\ text # <<>> THEN d.cursor_addr + 1 ELSE d.cursor_addr
       IN  text' = IF was'.key = "R" THEN Replaced(text, at, at + Len(new) - 1, new)
                   ELSE Replaced(text, at, at - 1, new)

\* What is typed after i and a is in the text, as often as the count says.
LEMMA InsertTells ==
  ASSUME Steady, {"count", "half"} \cap Slips = {}, ScreenInv, NEW n \in Nat, DoInsert(n), was'.n = n,
         ~IsVisualOn(d), was'.typed # <<>>
  PROVE  was'.key \in {"i", "a"} /\ TypedStep
  <1>1. PICK key \in {"i", "a"}, input \in Typed : \E st \in {Typing(d, TypedAt(d, key), input, 1)} :
    /\ "count" \in Slips \/ Len(st.buf) <= 1 \/ Count(n) = 1
    /\ st.met \subseteq Slips
    /\ was' = [Press(key, n) EXCEPT !.typed = Spelled(input)]
    /\ Become(InsertTyped(State, n, key, st))
    BY Zenon DEF DoInsert
  <1> DEFINE addr == TypedAt(d, key)
             st == Typing(d, addr, input, 1)
             u == InsertTyped(State, n, key, st)
             at == d.cursor_addr + (IF key = "a" /\ d.file_size # 0 THEN 1 ELSE 0)
             c == Count(n)
  <1>2. /\ Len(st.buf) <= 1 \/ c = 1
        /\ st.met \subseteq Slips /\ "half" \notin st.met /\ Become(u)
        /\ was'.key = key /\ was'.typed = Spelled(input)
    <2>1. was'.key = key /\ was'.typed = Spelled(input)
      BY <1>1, PressIs
    <2> QED BY <1>1, <2>1
  <1>3. InPlace(d) /\ Live(State) /\ State.d = d /\ State.h = History /\ text = Text(History)
        /\ text \in Seq(Byte) /\ d.file_size = Len(text)
    BY NowIs
  <1>4. /\ addr \in Nat /\ d.page_start <= addr /\ (d.file_size = 0 => addr = 0)
        /\ at \in Nat /\ (text # <<>> <=> d.file_size # 0)
    BY <1>3, CursorIs, EmptySeq DEF TypedAt
  <1> HIDE DEF addr
  <1>5. /\ st \in Strokes /\ st.addr = addr /\ st.page_start % d.hex_cols = 0
        /\ "back" \notin st.met /\ st.page_start <= st.addr + Len(st.buf)
        /\ st.buf = Spelled(input)
    BY <1>2, <1>3, <1>4, TypedHere
  <1> HIDE DEF st
  <1>6. /\ st.page_start % State.d.hex_cols = 0 /\ (State.d.file_size = 0 => st.addr = 0)
    BY <1>3, <1>4, <1>5
  <1>7. /\ Shows(u)
        /\ st.buf # <<>> => InsertedCopies(u, State,
             State.d.cursor_addr + (IF key = "a" /\ State.d.file_size # 0 THEN 1 ELSE 0), st.buf, Count(n))
    BY <1>3, <1>5, <1>6, InsertTypedIs
  <1>8. st.buf # <<>> /\ st.buf \in Seq(Byte) /\ st.buf = was'.typed /\ c \in Nat \ {0} /\ Len(st.buf) \in Nat \ {0}
    BY <1>2, <1>5, EmptySeq DEF Strokes, Count
  <1>9. InsertedCopies(u, State, at, st.buf, c)
    BY <1>3, <1>7, <1>8
  <1> HIDE DEF at, c
  <1>10. Text(u.h) = Exchange(text, at, 0, Copies(c, st.buf))
    <2>1. Len(st.buf) = 1 \/ c = 1
      <3>1. Len(st.buf) \in Nat \ {0} /\ (Len(st.buf) <= 1 \/ c = 1)
        BY <1>2, <1>8
      <3>2. \A l \in Nat \ {0} : l <= 1 => l = 1
        OBVIOUS
      <3> QED BY <3>1, <3>2
    <2>2. /\ c = 1 => Copies(c, st.buf) = st.buf
          /\ Len(st.buf) = 1 => Copies(c, st.buf) = Row(c, st.buf[1])
      BY <1>8, CopiesAre
    <2>3. /\ c = 1 => Text(u.h) = Exchange(text, at, 0, st.buf)
          /\ Len(st.buf) = 1 => Text(u.h) = Exchange(text, at, 0, Row(c, st.buf[1]))
      BY <1>3, <1>9 DEF InsertedCopies
    <2> QED BY <2>1, <2>2, <2>3
  <1>11. text' = Text(u.h)
    <2>1. Hist(u.h)
      BY <1>7 DEF Shows, Fits
    <2> HIDE DEF u
    <2> QED BY <1>2, <2>1, BecomesText
  <1>12. Replaced(text, at, at - 1, Copies(c, st.buf)) = Exchange(text, at, 0, Copies(c, st.buf))
    <2> DEFINE b == at - 1
    <2>2. b + 2 = at + 0 + 1
      <3> HIDE DEF at, c
      <3> QED BY <1>4
    <2> HIDE DEF b
    <2>3. Replaced(text, at, b, Copies(c, st.buf)) = Exchange(text, at, 0, Copies(c, st.buf))
      BY <2>2, Zenon DEF Replaced, Exchange
    <2> QED BY <2>3 DEF b
  <1>13. at = IF was'.key = "a" /\ text # <<>> THEN d.cursor_addr + 1 ELSE d.cursor_addr
    <2>1. d.cursor_addr \in Nat
      BY <1>3, CursorIs
    <2> QED BY <1>2, <1>4, <2>1 DEF at
  <1>14. was'.key # "R"
    BY <1>2
  <1>15. text' = Replaced(text, at, at - 1, Copies(Count(was'.n), was'.typed))
    BY <1>8, <1>10, <1>11, <1>12 DEF c
  <1> QED
    BY <1>2, <1>13, <1>14, <1>15 DEF TypedStep

\* What is typed after R is in the text, as often as the count says.
LEMMA OverwriteTells ==
  ASSUME Steady, "half" \notin Slips, ScreenInv, NEW n \in Nat, DoOverwrite(n), was'.n = n,
         ~IsVisualOn(d), was'.typed # <<>>
  PROVE  was'.key = "R" /\ TypedStep
  <1>1. PICK input \in Typed : \E st \in {Typing(d, d.cursor_addr, input, 0)} :
       LET copies == IF st.buf = <<>> THEN 0 ELSE Count(n)
       IN  /\ "past" \in Slips \/ IsVisualOn(d) \/ st.addr + copies * Len(st.buf) <= d.file_size
           /\ st.met \subseteq Slips
           /\ was' = [Press("R", n) EXCEPT !.typed = Spelled(input)]
           /\ IF IsVisualOn(d) THEN Refused
              ELSE Become([h |-> Overwritten(History, st.addr, copies, st.buf),
                           d |-> [PrintScreen(PlaceCursor(d, st.addr + Len(st.buf)), st.page_start)
                                    EXCEPT !.crashed = @ \/ "back" \in st.met]])
    BY Zenon DEF DoOverwrite
  <1> DEFINE st == Typing(d, d.cursor_addr, input, 0)
             copies == IF st.buf = <<>> THEN 0 ELSE Count(n)
             u == [h |-> Overwritten(History, st.addr, copies, st.buf),
                   d |-> [PrintScreen(PlaceCursor(d, st.addr + Len(st.buf)), st.page_start)
                           EXCEPT !.crashed = @ \/ "back" \in st.met]]
             at == d.cursor_addr
  <1>2. /\ st.addr + copies * Len(st.buf) <= d.file_size
        /\ st.met \subseteq Slips /\ "half" \notin st.met /\ Become(u)
        /\ was'.key = "R" /\ was'.typed = Spelled(input)
    <2>1. was'.key = "R" /\ was'.typed = Spelled(input)
      BY <1>1, PressIs
    <2> QED BY <1>1, <2>1 DEF Steady
  <1>3. InPlace(d)
    BY NowIs
  <1>4. at \in Nat /\ d.page_start <= at
    BY <1>3, CursorIs
  <1>5. /\ st \in Strokes /\ st.addr = at /\ st.page_start % d.hex_cols = 0
        /\ "back" \notin st.met /\ st.page_start <= st.addr + Len(st.buf)
        /\ st.buf = Spelled(input)
    BY <1>2, <1>3, <1>4, TypedHere
  <1>6. copies = IF st.buf = <<>> THEN 0 ELSE Count(n)
    OBVIOUS
  <1>7. st.buf # <<>> /\ st.buf \in Seq(Byte) /\ st.buf = was'.typed /\ Len(st.buf) \in Nat
        /\ copies = Count(was'.n) /\ copies \in Nat
    BY <1>2, <1>5, LenProperties DEF Strokes, Count
  <1> HIDE DEF st, copies
  <1>8. /\ Shows(u)
        /\ st.buf # <<>> => Text(u.h) = Exchange(text, st.addr, copies * Len(st.buf), Copies(copies, st.buf))
    BY <1>2, <1>5, <1>6, WrittenIs
  <1>9. text' = Text(u.h)
    <2>1. Hist(u.h)
      BY <1>8 DEF Shows, Fits
    <2> HIDE DEF u
    <2> QED BY <1>2, <2>1, BecomesText
  <1> DEFINE new == Copies(copies, st.buf)
             m == copies * Len(st.buf)
  <1>10. Len(new) = m /\ m \in Nat
    <2> DEFINE buf == st.buf
    <2>1. copies \in Nat /\ buf \in Seq(Byte) /\ buf # <<>> /\ Len(buf) \in Nat
      BY <1>7
    <2> HIDE DEF buf
    <2>2. Len(Copies(copies, buf)) = copies * Len(buf)
      BY <2>1, CopiesIs
    <2>3. \A k, l \in Nat : k * l \in Nat
      OBVIOUS
    <2> QED BY <2>1, <2>2, <2>3 DEF buf
  <1>11. text' = Exchange(text, at, m, new)
    BY <1>5, <1>7, <1>8, <1>9
  <1>12. text' = Replaced(text, at, at + Len(new) - 1, new)
    <2> DEFINE b == at + Len(new) - 1
    <2>1. b + 2 = at + m + 1
      <3> HIDE DEF m, new, at
      <3> QED BY <1>4, <1>10
    <2> HIDE DEF b, m, at, new
    <2>2. Replaced(text, at, b, new) = Exchange(text, at, m, new)
      BY <2>1, Zenon DEF Replaced, Exchange
    <2> QED BY <1>11, <2>2 DEF b
  <1>13. new = Copies(Count(was'.n), was'.typed)
    BY <1>7
  <1>14. was'.key = "R" /\ was'.key # "a"
    BY <1>2
  <1> HIDE DEF new, m
  <1>15. TypedStep
    BY <1>12, <1>13, <1>14 DEF TypedStep
  <1> QED
    BY <1>14, <1>15

\* What is typed after i, a and R is in the text where it was shown, as often as
\* the count says, and the rest of the text is where it was: for every text, every
\* row of keys with backspace among them, every count and layout.
THEOREM AlwaysTypedShows ==
  ASSUME Steady, {"count", "half"} \cap Slips = {}
  PROVE  Spec => TypedShows
  <1>1. EditorInv /\ Next => TypedStep
    <2> SUFFICES ASSUME EditorInv, Next, ~IsVisualOn(d), was'.key \in {"i", "a", "R"}, was'.typed # <<>>
                 PROVE  TypedStep
      BY DEF TypedStep
    <2>1. ScreenInv /\ was'.key \notin Others
      BY DEF EditorInv, Others
    <2>2. PICK n \in Counts : n \in Nat /\ was'.n = n /\ Tells(n, was'.key)
      BY <2>1, StepTells
    <2>3. CASE was'.key \in {"i", "a"}
      BY <2>1, <2>2, <2>3, InsertTells DEF Tells
    <2>4. CASE was'.key = "R"
      <3>1. DoOverwrite(n) /\ "half" \notin Slips
        BY <2>2, <2>4 DEF Tells
      <3> QED BY <2>1, <2>2, <3>1, OverwriteTells
    <2> QED BY <2>3, <2>4
  <1>2. Spec => []EditorInv
    BY EditorInvariant
  <1>4. EditorInv /\ [Next]_vars => [TypedStep]_vars
    BY <1>1
  <1>5. []EditorInv /\ [][Next]_vars => [][TypedStep]_vars
    BY <1>4, PTL
  <1>6. [][TypedStep]_vars => TypedShows
    BY DEF TypedShows, TypedStep
  <1>7. Spec => [][TypedStep]_vars
    BY <1>2, <1>5, PTL DEF Spec
  <1> QED
    BY <1>6, <1>7

(***************************************************************************)
(* What is cut can be put back.                                            *)
(***************************************************************************)
\* The next text and the next screen
NextState == [h |-> [versions |-> versions', pos |-> pos'], d |-> d']

\* The text and the screen that a key leaves.
LEMMA BecomesShown ==
  ASSUME NEW s, Shows(s), OnByte(s.d), Become(s)
  PROVE  /\ Live(NextState) /\ NextState.d = d' /\ text' = Text(NextState.h) /\ text' = Text(s.h) /\ text' \in Seq(Byte)
         /\ d'.select = s.d.select /\ d'.file_size = Len(text')
         /\ InPlace(s.d) => d'.cursor_addr = s.d.cursor_addr
  <1>1. /\ versions' = s.h.versions /\ pos' = s.h.pos
        /\ d' = PlaceCursor(s.d, s.d.cursor_addr)
    BY DEF Become
  <1>2. s.h = [versions |-> versions', pos |-> pos'] /\ Hist(s.h) /\ Paged(s.d) /\ Lay(s.d) /\ Within(s.h)
        /\ Selects(s.d) /\ s.d.file_size = Len(Text(s.h))
    BY <1>1 DEF Shows, Fits, Hist, Histories
  <1>3. InPlace(d') /\ Alike(d', s.d)
    BY <1>1, <1>2, Settled
  <1>4. Live([h |-> s.h, d |-> d'])
    BY <1>2, <1>3 DEF Live, Shows, Fits, InPlace, Alike, Lay, Selects, AddressValid
  <1>5. NextState = [h |-> s.h, d |-> d']
    BY <1>2 DEF NextState
  <1>6. NextState.h = s.h /\ NextState.d = d'
    BY <1>5
  <1>7. text' = Text(s.h)
    BY <1>2 DEF text, History
  <1>8. Text(s.h) \in Seq(Byte)
    BY <1>2, TextIs
  <1>9. InPlace(s.d) => d'.cursor_addr = s.d.cursor_addr
    BY <1>1, <1>2, PlacedIs DEF InPlace
  <1> QED
    BY <1>2, <1>3, <1>4, <1>5, <1>6, <1>7, <1>8, <1>9, Zenon DEF Alike

\* Where the cursor is after bytes were deleted from a on
Landed(a, size) == IF a < size THEN a ELSE Most(size - 1, 0)

\* x and X, from the screen that they act on.
LEMMA CutTells ==
  ASSUME Steady, ScreenInv, RegistersInv, NEW v, InPlace(v), Alike(v, d), NEW n \in Nat, CutAt(v, n),
         text # <<>>, NEW a, a = First(v, NoAddr), NEW m, m = Cut(v, n, NoAddr)
  PROVE  /\ Lies(text, a, m) /\ yank'[register] = SubSeq(text, a + 1, a + m)
         /\ text' = Exchange(text, a, m, <<>>)
         /\ Live(NextState) /\ NextState.d = d' /\ text' = Text(NextState.h) /\ d'.file_size = Len(text')
         /\ Len(text') = Len(text) - m
         /\ d'.cursor_addr = Landed(a, Len(text')) /\ d'.select = NoAddr
  <1> DEFINE at == [State EXCEPT !.d = v]
             s == Deleted(at, n, NoAddr)
             u == [s EXCEPT !.d = VisualSelectOff(@)]
  <1>1. NotEmptied(s.h, v) /\ Become(u) /\ yank' = Yanked(at, n, NoAddr)
    BY DEF CutAt
  <1> HIDE DEF at
  <1>2. Live(at) /\ at.h = History /\ at.d = v /\ Len(Text(at.h)) <= MaxLen /\ Text(at.h) = text
    <2>1. Live(at) /\ at.h = History /\ at.d = v
      BY NowPlaced DEF at
    <2> QED BY <2>1, NowIs
  <1>3. s = Deleted(at, n, NoAddr) /\ NotEmptied(s.h, at.d) /\ NoAddr \in {NoAddr} \cup Nat
    BY <1>1, <1>2
  <1>4. v.file_size # 0 /\ v.file_size = Len(text) /\ Selects(v)
    <2>1. Selects(v) /\ v.file_size = Len(text)
      BY <1>2 DEF Live, Shows, Fits
    <2> QED BY <2>1, NowIs, EmptySeq
  <1>5. AddressValid(v, a) /\ a \in Nat /\ m \in 1 .. v.file_size - a
    BY <1>3, <1>4, CutIs
  <1>6. Lies(text, a, m)
    BY <1>4, <1>5, NowIs DEF Lies
  <1>7. yank'[register] = SubSeq(text, a + 1, a + m)
    <2> DEFINE y == Yanked(at, n, NoAddr)
    <2>1. y = Yanked(at, n, NoAddr)
      OBVIOUS
    <2> HIDE DEF y
    <2>2. y[register] = SubSeq(Text(at.h), First(at.d, NoAddr) + 1, First(at.d, NoAddr) + Cut(at.d, n, NoAddr))
      BY <1>2, <1>3, <1>4, <2>1, YankedIs
    <2>3. y[register] = SubSeq(text, a + 1, a + m)
      BY <1>2, <2>2
    <2> QED BY <1>1, <2>3 DEF y
  <1> HIDE DEF s
  <1>8. /\ Fits(s) /\ InPlace(s.d)
        /\ Text(s.h) = Exchange(text, a, m, <<>>)
        /\ Len(Text(s.h)) = Len(text) - m
        /\ s.d.cursor_addr = Landed(a, Len(Text(s.h)))
    <2>1. /\ Fits(s) /\ InPlace(s.d)
          /\ at.d.file_size # 0 =>
              LET b == First(at.d, NoAddr)
                  c == Cut(at.d, n, NoAddr)
              IN  /\ Text(s.h) = Exchange(Text(at.h), b, c, <<>>)
                  /\ Len(Text(s.h)) = Len(Text(at.h)) - c
                  /\ s.d.cursor_addr = IF b < Len(Text(s.h)) THEN b ELSE Most(Len(Text(s.h)) - 1, 0)
      BY <1>2, <1>3, DeletedIs
    <2> QED BY <1>2, <1>4, <2>1 DEF Landed
  <1>9. /\ Shows(u) /\ OnByte(u.d) /\ u.h = s.h /\ InPlace(u.d) /\ u.d.select = NoAddr
        /\ u.d.cursor_addr = s.d.cursor_addr
    <2>1. OnByte(s.d)
      BY <1>8 DEF InPlace, OnByte
    <2>2. /\ Shows(u) /\ OnByte(u.d) /\ u.h = s.h /\ u.d.select = NoAddr
          /\ u.d.cursor_addr = s.d.cursor_addr /\ Live(u)
      BY <1>8, <2>1, SelectedOff
    <2> QED BY <2>2 DEF Live
  <1> HIDE DEF u
  <1>10. /\ Live(NextState) /\ NextState.d = d' /\ text' = Text(NextState.h) /\ text' = Text(u.h)
         /\ d'.select = u.d.select /\ d'.file_size = Len(text')
         /\ d'.cursor_addr = u.d.cursor_addr
    BY <1>1, <1>9, BecomesShown
  <1> QED
    BY <1>6, <1>7, <1>8, <1>9, <1>10

\* p or P makes t of it.
PutIn(s, b, t) ==
  \E after \in BOOLEAN :
    /\ after => s.d.cursor_addr + 1 = s.d.file_size
    /\ Text(Pasted(s, b, after, 1).h) = t

\* What was taken is put back where the cursor is, or behind it.
LEMMA PutsBack ==
  ASSUME NEW t \in Seq(Byte), NEW a \in Nat, NEW m \in Nat, Lies(t, a, m),
         NEW s, Live(s), Text(s.h) = Exchange(t, a, m, <<>>), Len(Text(s.h)) = Len(t) - m,
         s.d.file_size = Len(Text(s.h)), s.d.cursor_addr = Landed(a, Len(Text(s.h))), s.d.select = NoAddr,
         NEW b, b = SubSeq(t, a + 1, a + m)
  PROVE  PutIn(s, b, t)
  <1> DEFINE w == Text(s.h)
  <1>1. Len(t) \in Nat /\ a + m <= Len(t)
    BY LenProperties DEF Lies
  <1>2. b \in Seq(Byte) /\ Exchange(t, a, m, b) = t
    <2>1. t \in Seq(Byte) /\ a \in Nat /\ m \in Nat /\ Lies(t, a, m) /\ b = SubSeq(t, a + 1, a + m)
      OBVIOUS
    <2> QED BY ONLY <2>1, ExchangeBack
  <1>3. Exchange(w, a, 0, b) = t
    <2>1. t \in Seq(Byte) /\ a \in Nat /\ m \in Nat /\ Lies(t, a, m) /\ b \in Seq(Byte)
      BY <1>2
    <2>2. Exchange(Exchange(t, a, m, <<>>), a, 0, b) = Exchange(t, a, m, b)
      BY ONLY <2>1, ExchangeTwice
    <2> QED BY <1>2, <2>2
  <1> DEFINE after == ~(a < Len(w)) /\ Len(w) # 0
             to == IF after /\ s.d.file_size # 0 THEN s.d.cursor_addr + 1 ELSE s.d.cursor_addr
             p == Pasted(s, b, after, 1)
  <1>4. to = a /\ (after => s.d.cursor_addr + 1 = s.d.file_size)
    <2> HIDE DEF w
    <2> QED BY <1>1 DEF Landed, Most, w
  <1>5. after \in BOOLEAN /\ ~IsVisualOn(s.d)
    BY DEF IsVisualOn
  <1> HIDE DEF after, w
  <1>6. Text(p.h) = Exchange(w, to, 0, b)
    <2>1. \A x : x = Pasted(s, b, after, 1) => Text(x.h) = Exchange(Text(s.h),
            IF after /\ s.d.file_size # 0 THEN s.d.cursor_addr + 1 ELSE s.d.cursor_addr, 0, b)
      <3>1. Live(s) /\ b \in Seq(Byte) /\ after \in BOOLEAN /\ 1 \in Nat /\ ~IsVisualOn(s.d)
        BY <1>2, <1>5
      <3> QED BY ONLY <3>1, PastedIs
    <2> QED BY <2>1 DEF w
  <1> HIDE DEF p, to
  <1>7. Text(p.h) = t
    BY <1>3, <1>4, <1>6
  <1> QED
    BY <1>4, <1>5, <1>7, Zenon DEF PutIn, p

CutStep ==
  was'.key \in {"x", "X"} /\ text # <<>> =>
       LET n == Count(was'.n)
           now == [h |-> [versions |-> versions', pos |-> pos'], d |-> d']
       IN  /\ (was'.key = "X" /\ ~IsVisualOn(d)) =>
                n <= d.cursor_addr /\ yank'[register] = Between(text, d.cursor_addr - n, d.cursor_addr - 1)
           /\ \E after \in BOOLEAN :
             /\ after => d'.cursor_addr + 1 = d'.file_size
             /\ Text(Pasted(now, yank'[register], after, 1).h) = text

\* X goes back over the bytes it takes away.
LEMMA CutBefore ==
  ASSUME ScreenInv, ~IsVisualOn(d), text # <<>>, NEW n \in Nat, Count(n) <= d.cursor_addr,
         NEW v, v = Move(d, [key |-> "left", n |-> n, to |-> NoAddr]), InPlace(v), Alike(v, d)
  PROVE  First(v, NoAddr) = d.cursor_addr - Count(n) /\ Cut(v, n, NoAddr) = Count(n)
         /\ Count(n) \in Nat
  <1> DEFINE c == Count(n)
             a == d.cursor_addr - c
             move == [key |-> "left", n |-> n, to |-> NoAddr]
  <1>1. InPlace(d) /\ Paged(d) /\ d.file_size = Len(text) /\ Len(text) \in Nat /\ d.file_size # 0
    BY NowIs, EmptySeq
  <1>2. AddressValid(d, d.cursor_addr) /\ d.cursor_addr \in Nat /\ d.cursor_addr < d.file_size
    BY <1>1, CursorIs DEF InPlace, AddressValid
  <1>3. c \in Nat \ {0} /\ c <= d.cursor_addr
    BY DEF Count
  <1>4. AddressValid(d, a) /\ a \in Nat
    BY <1>1, <1>2, <1>3 DEF AddressValid
  <1>5. Left(d, n) = a
    <2>1. Most(d.cursor_addr - c, 0) = a
      BY <1>4 DEF Most
    <2> QED BY <1>4, <2>1, Zenon DEF Left
  <1>6. move.key = "left" /\ move.n = n
    OBVIOUS
  <1> HIDE DEF move, c, a
  <1>7. Target(d, move) = a
    BY <1>5, <1>6 DEF Target
  <1>8. a # NoAddr
    BY <1>4 DEF NoAddr
  <1>9. Move(d, move) = PlaceCursor(d, a)
    BY <1>7, <1>8, Zenon DEF Move
  <1>10. v.cursor_addr = a
    <2>1. v = PlaceCursor(d, a)
      BY <1>9 DEF move
    <2> QED BY <1>1, <1>4, <2>1, PlacedIs
  <1>11. ~IsVisualOn(v) /\ v.file_size = d.file_size
    BY DEF Alike, IsVisualOn
  <1>12. First(v, NoAddr) = v.cursor_addr /\ Span(v, n, NoAddr) = c
    BY <1>11 DEF First, Span, c
  <1>13. Cut(v, n, NoAddr) = Least(c, d.file_size - a)
    BY <1>10, <1>11, <1>12, Zenon DEF Cut
  <1>14. Least(c, d.file_size - a) = c
    BY <1>1, <1>2, <1>3 DEF Least, a
  <1> QED
    BY <1>3, <1>10, <1>12, <1>13, <1>14 DEF a, c

\* x and X act on the text, from a screen with the cursor somewhere on it.
LEMMA CutFrom ==
  ASSUME ScreenInv, NEW n \in Nat, DoCut(n)
  PROVE  was'.n = n /\ UNCHANGED register /\
         \E v : /\ InPlace(v) /\ Alike(v, d) /\ CutAt(v, n)
                /\ (was'.key = "X" /\ ~IsVisualOn(d)) =>
                     ("few" \notin Slips =>
                        Count(n) <= d.cursor_addr /\ v = Move(d, [key |-> "left", n |-> n, to |-> NoAddr]))
                /\ was'.key = "x" => v = d
  <1>0. InPlace(d) /\ Alike(d, d)
    BY NowIs DEF Alike
  <1>1. CASE Alone("x", n) /\ CutAt(d, n)
    <2>1. was'.key = "x" /\ was'.n = n
      BY <1>1, AloneIs
    <2>2. was'.key # "X"
      BY <2>1
    <2> QED BY <1>0, <1>1, <2>1, <2>2 DEF DoCut
  <1>2. ASSUME "few" \in Slips \/ IsVisualOn(d) \/ Count(n) <= d.cursor_addr, Alone("X", n),
               CutAt(Move(d, [key |-> "left", n |-> n, to |-> NoAddr]), n)
        PROVE  was'.n = n /\ UNCHANGED register /\
         \E v : /\ InPlace(v) /\ Alike(v, d) /\ CutAt(v, n)
                /\ (was'.key = "X" /\ ~IsVisualOn(d)) =>
                     ("few" \notin Slips =>
                        Count(n) <= d.cursor_addr /\ v = Move(d, [key |-> "left", n |-> n, to |-> NoAddr]))
                /\ was'.key = "x" => v = d
    <2> DEFINE v == Move(d, [key |-> "left", n |-> n, to |-> NoAddr])
    <2>1. was'.n = n
      BY <1>2, AloneIs
    <2>2. InPlace(v) /\ Alike(v, d)
      <3>1. v = Move(d, [key |-> "left", n |-> n, to |-> NoAddr])
        OBVIOUS
      <3> HIDE DEF v
      <3> QED BY <1>0, <3>1, MovedInPlace
    <2>3. CutAt(v, n)
      BY <1>2
    <2>4. v = Move(d, [key |-> "left", n |-> n, to |-> NoAddr])
      OBVIOUS
    <2>5. UNCHANGED register
      BY DEF DoCut
    <2>6. was'.key # "x"
      <3>1. was'.key = "X"
        BY <1>2, AloneIs
      <3> QED BY <3>1
    <2> HIDE DEF v
    <2> QED BY <1>2, <2>1, <2>2, <2>3, <2>4, <2>5, <2>6
  <1> QED
    BY <1>1, <1>2 DEF DoCut

\* What x and X take away is kept.
LEMMA CutsKept ==
  ASSUME Steady, "few" \notin Slips, EditorInv, NEW n \in Nat, DoCut(n), was'.n = n
  PROVE  CutStep
  <1> SUFFICES ASSUME was'.key \in {"x", "X"}, text # <<>>
               PROVE  CutStep
    BY DEF CutStep
  <1>0. ScreenInv /\ RegistersInv
    BY DEF EditorInv
  <1>1. PICK v :
           /\ InPlace(v) /\ Alike(v, d) /\ CutAt(v, n)
           /\ (was'.key = "X" /\ ~IsVisualOn(d)) =>
                Count(n) <= d.cursor_addr /\ v = Move(d, [key |-> "left", n |-> n, to |-> NoAddr])
    BY <1>0, CutFrom
  <1> DEFINE a == First(v, NoAddr)
             m == Cut(v, n, NoAddr)
             b == yank'[register]
  <1>2. /\ Lies(text, a, m) /\ b = SubSeq(text, a + 1, a + m)
        /\ text' = Exchange(text, a, m, <<>>)
        /\ Live(NextState) /\ NextState.d = d' /\ text' = Text(NextState.h) /\ d'.file_size = Len(text')
        /\ Len(text') = Len(text) - m
        /\ d'.cursor_addr = Landed(a, Len(text')) /\ d'.select = NoAddr
    <2>1. a = First(v, NoAddr) /\ m = Cut(v, n, NoAddr)
      OBVIOUS
    <2> HIDE DEF a, m
    <2> QED BY <1>0, <1>1, <2>1, CutTells
  <1>3. ASSUME was'.key = "X", ~IsVisualOn(d)
        PROVE  Count(n) <= d.cursor_addr /\ b = Between(text, d.cursor_addr - Count(n), d.cursor_addr - 1)
    <2>1. Count(n) <= d.cursor_addr /\ v = Move(d, [key |-> "left", n |-> n, to |-> NoAddr])
      BY <1>1, <1>3
    <2>2. a = d.cursor_addr - Count(n) /\ m = Count(n) /\ Count(n) \in Nat
      BY <1>0, <1>1, <1>3, <2>1, CutBefore
    <2>3. d.cursor_addr \in Nat
      BY <1>0, NowIs, CursorIs
    <2> HIDE DEF a, m, b
    <2>4. b = SubSeq(text, a + 1, a + m)
      BY <1>2
    <2>5. a + m = (d.cursor_addr - 1) + 1
      BY <2>2, <2>3
    <2> QED BY <2>1, <2>2, <2>4, <2>5 DEF Between
  <1>4. \E after \in BOOLEAN :
             /\ after => d'.cursor_addr + 1 = d'.file_size
             /\ Text(Pasted(NextState, b, after, 1).h) = text
    <2> DEFINE s == NextState
    <2>1. text \in Seq(Byte) /\ a \in Nat /\ m \in Nat
      BY <1>0, <1>2, NowIs DEF Lies
    <2>2. /\ Live(s) /\ Text(s.h) = Exchange(text, a, m, <<>>) /\ Len(Text(s.h)) = Len(text) - m
          /\ s.d.file_size = Len(Text(s.h)) /\ s.d.cursor_addr = Landed(a, Len(Text(s.h))) /\ s.d.select = NoAddr
      BY <1>2
    <2> HIDE DEF s, a, m, b
    <2>3. Lies(text, a, m) /\ b = SubSeq(text, a + 1, a + m)
      BY <1>2
    <2>4. PutIn(s, b, text)
      BY ONLY <2>1, <2>2, <2>3, PutsBack
    <2>5. s.d = d'
      BY <1>2 DEF s
    <2> QED BY <2>4, <2>5, Zenon DEF PutIn, s
  <1> HIDE DEF b
  <1>5. Count(was'.n) = Count(n)
    OBVIOUS
  <1> QED
    BY <1>3, <1>4, <1>5, Zenon DEF CutStep, NextState, b

\* What x and X take away is in the register, and P or p puts it back where the
\* cursor then is: for every text, count and layout.
THEOREM AlwaysCutIsKept ==
  ASSUME Steady, "few" \notin Slips
  PROVE  Spec => CutIsKept
  <1>1. EditorInv /\ Next => CutStep
    <2> SUFFICES ASSUME EditorInv, Next, was'.key \in {"x", "X"}
                 PROVE  CutStep
      BY DEF CutStep
    <2>1. was'.key \notin Others
      BY DEF Others
    <2>2. PICK n \in Counts : n \in Nat /\ was'.n = n /\ Tells(n, was'.key)
      BY <2>1, StepTells
    <2>3. DoCut(n)
      BY <2>2 DEF Tells
    <2> QED BY <2>2, <2>3, CutsKept
  <1>2. Spec => []EditorInv
    BY EditorInvariant
  <1>3. EditorInv /\ [Next]_vars => [CutStep]_vars
    BY <1>1
  <1>4. []EditorInv /\ [][Next]_vars => [][CutStep]_vars
    BY <1>3, PTL
  <1>5. [][CutStep]_vars => CutIsKept
    BY DEF CutIsKept, CutStep
  <1>6. Spec => [][CutStep]_vars
    BY <1>2, <1>4, PTL DEF Spec
  <1> QED
    BY <1>5, <1>6

(***************************************************************************)
(* What is highlighted is what is acted on.                                *)
(***************************************************************************)
\* The bytes that a command acts on
ActedOn(end, n, a, m) == a = First(d, end) /\ m = Cut(d, n, end)

\* The bytes acted on are some bytes of the text.
LEMMA ActedOnIs ==
  ASSUME ScreenInv, text # <<>>, NEW n \in Nat, NEW end \in {NoAddr} \cup Nat, NEW a, NEW m, ActedOn(end, n, a, m)
  PROVE  a \in Nat /\ m \in Nat \ {0} /\ Lies(text, a, m) /\ text \in Seq(Byte) /\ d.file_size # 0
  <1>1. InPlace(d) /\ Selects(d) /\ d.file_size # 0 /\ d.file_size = Len(text) /\ Len(text) \in Nat
        /\ text \in Seq(Byte)
    BY NowIs, EmptySeq
  <1>2. First(d, end) \in Nat /\ Cut(d, n, end) \in 1 .. d.file_size - First(d, end)
        /\ AddressValid(d, First(d, end))
    BY <1>1, CutIs
  <1>3. a \in Nat /\ m \in 1 .. d.file_size - a
    BY <1>2 DEF ActedOn
  <1> QED
    BY <1>1, <1>3 DEF Lies

\* What a delete makes of the present text.
LEMMA NowDeleted ==
  ASSUME Steady, ScreenInv, text # <<>>, NEW n \in Nat, NEW end \in {NoAddr} \cup Nat, NEW a, NEW m,
         ActedOn(end, n, a, m), NEW s, s = Deleted(State, n, end), NotEmptied(s.h, d)
  PROVE  /\ Fits(s) /\ InPlace(s.d) /\ Text(s.h) = Exchange(text, a, m, <<>>)
         /\ Len(Text(s.h)) = Len(text) - m /\ s.d.cursor_addr = Landed(a, Len(Text(s.h)))
  <1>1. /\ Live(State) /\ Len(Text(State.h)) <= MaxLen /\ State.d = d /\ Text(State.h) = text
        /\ NotEmptied(s.h, State.d)
    BY NowIs
  <1>2. d.file_size # 0
    BY ActedOnIs
  <1>3. /\ Fits(s) /\ InPlace(s.d)
        /\ State.d.file_size # 0 =>
              LET b == First(State.d, end)
                  c == Cut(State.d, n, end)
              IN  /\ Text(s.h) = Exchange(Text(State.h), b, c, <<>>)
                  /\ Len(Text(s.h)) = Len(Text(State.h)) - c
                  /\ s.d.cursor_addr = IF b < Len(Text(s.h)) THEN b ELSE Most(Len(Text(s.h)) - 1, 0)
    BY <1>1, DeletedIs
  <1> QED
    BY <1>1, <1>2, <1>3 DEF ActedOn, Landed

\* d takes the bytes acted on.
LEMMA DeleteTells ==
  ASSUME Steady, ScreenInv, text # <<>>, NEW n \in Nat, NEW end \in {NoAddr} \cup Nat, NEW a, NEW m,
         ActedOn(end, n, a, m), DeleteTo(n, end)
  PROVE  text' = Exchange(text, a, m, <<>>)
  <1> DEFINE s == Deleted(State, n, end)
             u == [s EXCEPT !.d = VisualSelectOff(@)]
  <1>1. s = Deleted(State, n, end) /\ NotEmptied(s.h, d) /\ Become(u)
    BY DEF DeleteTo
  <1> HIDE DEF s
  <1>2. Fits(s) /\ InPlace(s.d) /\ Text(s.h) = Exchange(text, a, m, <<>>)
    BY <1>1, NowDeleted
  <1>3. Shows(u) /\ u.h = s.h
    <2>1. OnByte(s.d)
      BY <1>2 DEF InPlace, OnByte
    <2> QED BY <1>2, <2>1, SelectedOff
  <1>4. Hist(u.h)
    BY <1>3 DEF Shows, Fits
  <1> HIDE DEF u
  <1> QED
    BY <1>1, <1>2, <1>3, <1>4, BecomesText

\* y keeps the bytes acted on.
LEMMA YankTells ==
  ASSUME ScreenInv, RegistersInv, text # <<>>, NEW n \in Nat, NEW end \in {NoAddr} \cup Nat, NEW a, NEW m,
         ActedOn(end, n, a, m), NEW y, y = Yanked(State, n, end)
  PROVE  y[register] = SubSeq(text, a + 1, a + m)
  <1>1. Live(State) /\ Len(Text(State.h)) <= MaxLen /\ State.d = d /\ Text(State.h) = text
    BY NowIs
  <1>2. d.file_size # 0
    BY ActedOnIs
  <1>3. State.d.file_size # 0 =>
          y[register] = SubSeq(Text(State.h), First(State.d, end) + 1, First(State.d, end) + Cut(State.d, n, end))
    BY <1>1, YankedIs
  <1> QED
    BY <1>1, <1>2, <1>3 DEF ActedOn

\* What is typed takes the place of what was deleted.
LEMMA ChangeTells ==
  ASSUME Steady, {"half", "change"} \cap Slips = {}, ScreenInv, text # <<>>, NEW n \in Nat,
         NEW end \in {NoAddr} \cup Nat, NEW a, NEW m,
         ActedOn(end, n, a, m), NEW input \in Typed, ChangeTo(n, end, input)
  PROVE  text' = Exchange(text, a, m, Spelled(input))
  <1> DEFINE s == Deleted(State, n, end)
             st == Typing(s.d, s.d.cursor_addr, input, 1)
             x == [s EXCEPT !.d = VisualSelectOff(@)]
             u == InsertTyped(x, 1, "i", st)
  <1>1. s = Deleted(State, n, end) /\ NotEmptied(s.h, d) /\ st.met \subseteq Slips /\ "half" \notin st.met
        /\ Become(u) /\ (a + m < d.file_size \/ a = 0)
    BY DEF ChangeTo, ActedOn
  <1> HIDE DEF s
  <1>2. /\ Fits(s) /\ InPlace(s.d) /\ Text(s.h) = Exchange(text, a, m, <<>>)
        /\ Len(Text(s.h)) = Len(text) - m /\ s.d.cursor_addr = Landed(a, Len(Text(s.h)))
    BY <1>1, NowDeleted
  <1>3. a \in Nat /\ m \in Nat \ {0} /\ Lies(text, a, m) /\ text \in Seq(Byte) /\ d.file_size = Len(text)
        /\ Len(text) \in Nat
    BY ActedOnIs, NowIs
  <1>4. s.d.cursor_addr = a
    BY <1>1, <1>2, <1>3 DEF Landed, Most, Lies
  <1>5. /\ Live(x) /\ x.d.file_size = s.d.file_size /\ x.d.hex_cols = s.d.hex_cols
        /\ x.d.cursor_addr = a /\ x.h = s.h /\ x.d.select = NoAddr
    <2>1. OnByte(s.d)
      BY <1>2 DEF InPlace, OnByte
    <2> QED BY <1>2, <1>4, <2>1, SelectedOff
  <1> DEFINE addr == s.d.cursor_addr
  <1>6. addr \in Nat /\ s.d.page_start <= addr /\ (s.d.file_size = 0 => addr = 0)
    BY <1>2, CursorIs
  <1>7. st = Typing(s.d, addr, input, 1)
    OBVIOUS
  <1> HIDE DEF addr, st, x
  <1>8. /\ st \in Strokes /\ st.addr = addr /\ st.page_start % s.d.hex_cols = 0
        /\ "back" \notin st.met /\ st.page_start <= st.addr + Len(st.buf)
        /\ st.buf = Spelled(input) /\ Spelled(input) \in Seq(Byte)
    BY <1>1, <1>2, <1>6, <1>7, TypedHere
  <1>9. /\ st.page_start % x.d.hex_cols = 0 /\ (x.d.file_size = 0 => st.addr = 0) /\ 1 \in Nat
    BY <1>5, <1>6, <1>8
  <1>10. u = InsertTyped(x, 1, "i", st)
    OBVIOUS
  <1> HIDE DEF u
  <1> DEFINE i == "i"
             at == x.d.cursor_addr + (IF i = "a" /\ x.d.file_size # 0 THEN 1 ELSE 0)
  <1>11. /\ Shows(u) /\ (st.buf = <<>> => u.h = x.h)
         /\ st.buf # <<>> => InsertedCopies(u, x, at, st.buf, Count(1))
    BY <1>5, <1>8, <1>9, <1>10, InsertTypedIs
  <1>12. at = a /\ Count(1) = 1
    BY <1>3, <1>5 DEF Count
  <1> HIDE DEF at
  <1>13. Text(u.h) = Exchange(text, a, m, Spelled(input))
    <2>1. CASE st.buf = <<>>
      <3>1. Text(u.h) = Text(s.h)
        BY <1>5, <1>11, <2>1
      <3> QED BY <1>2, <1>8, <2>1, <3>1
    <2>2. CASE st.buf # <<>>
      <3>1. InsertedCopies(u, x, a, st.buf, 1) /\ ~IsVisualOn(x.d)
        BY <1>5, <1>11, <1>12, <2>2 DEF IsVisualOn
      <3>2. Text(u.h) = Exchange(Text(x.h), a, 0, st.buf)
        BY <3>1 DEF InsertedCopies
      <3> DEFINE b == st.buf
                 t == text
      <3>3. t \in Seq(Byte) /\ a \in Nat /\ m \in Nat /\ Lies(t, a, m) /\ b \in Seq(Byte)
        BY <1>3, <1>8
      <3> HIDE DEF b, t
      <3>4. Exchange(Exchange(t, a, m, <<>>), a, 0, b) = Exchange(t, a, m, b)
        BY ONLY <3>3, ExchangeTwice
      <3>5. Text(x.h) = Exchange(t, a, m, <<>>)
        BY <1>2, <1>5 DEF t
      <3>6. Text(u.h) = Exchange(t, a, m, b)
        BY <3>2, <3>4, <3>5 DEF b
      <3> QED BY <1>8, <3>6 DEF b, t
    <2> QED BY <2>1, <2>2
  <1>14. text' = Text(u.h)
    <2>1. Hist(u.h)
      BY <1>11 DEF Shows, Fits
    <2> QED BY <1>1, <2>1, BecomesText
  <1> QED
    BY <1>13, <1>14

\* What is highlighted is what a command acts on.
LEMMA ShownIs ==
  ASSUME ScreenInv, IsVisualOn(d), NEW a, a = VisualAddr(d), NEW m, m = VisualSpan(d), NEW b, b = a + m - 1
  PROVE  /\ a \in Nat /\ m \in Nat \ {0} /\ b \in Nat /\ AddressValid(d, a) /\ b < d.file_size
         /\ Highlighted(d) = a .. b /\ a \in Highlighted(d) /\ b \in Highlighted(d)
         /\ text # <<>> /\ d.file_size = Len(text) /\ Len(text) \in Nat
         /\ \A n \in Nat : \A end \in {NoAddr} \cup Nat : ActedOn(end, n, a, m)
  <1> DEFINE c == d.cursor_addr
             e == d.select
             l == d.file_size
  <1>1. InPlace(d) /\ Selects(d) /\ l = Len(text) /\ Len(text) \in Nat
    BY NowIs
  <1>2. e \in 0 .. l - 1 /\ AddressValid(d, e)
    BY <1>1 DEF IsVisualOn, Selects, AddressValid
  <1>3. l # 0 /\ c \in 0 .. l - 1
    BY <1>1, <1>2 DEF InPlace, AddressValid
  <1>4. a = Least(c, e) /\ m = Most(c, e) - a + 1
    BY DEF VisualAddr, VisualSpan
  <1>5. Highlighted(d) = {x \in 0 .. l - 1 : (e <= x /\ c >= x) \/ (c <= x /\ e >= x)}
    BY DEF Highlighted
  <1>6. text # <<>>
    BY <1>1, <1>3, EmptySeq
  <1> HIDE DEF c, e, l
  <1>7. a \in 0 .. l - 1 /\ b \in 0 .. l - 1 /\ a <= b /\ m \in Nat \ {0} /\ b = Most(c, e)
    BY <1>1, <1>2, <1>3, <1>4 DEF Least, Most
  <1>8. \A x : x \in 0 .. l - 1 /\ ((e <= x /\ c >= x) \/ (c <= x /\ e >= x)) <=> x \in a .. b
    BY <1>1, <1>2, <1>3, <1>4, <1>7 DEF Least, Most
  <1>9. Highlighted(d) = a .. b
    BY <1>5, <1>8
  <1>10. a \in a .. b /\ b \in a .. b
    BY <1>1, <1>7
  <1>11. AddressValid(d, a) /\ b < d.file_size
    BY <1>1, <1>7 DEF AddressValid, l
  <1>12. ASSUME NEW n \in Nat, NEW end \in {NoAddr} \cup Nat PROVE ActedOn(end, n, a, m)
    <2>1. First(d, end) = a
      BY DEF First
    <2>2. Span(d, n, end) = m
      BY DEF Span
    <2>3. Least(m, l - a) = m
      BY <1>1, <1>7 DEF Least
    <2>4. Cut(d, n, end) = Least(m, l - a)
      BY <2>1, <2>2, Zenon DEF Cut, l
    <2> QED BY <2>1, <2>3, <2>4 DEF ActedOn
  <1> QED
    BY <1>1, <1>6, <1>7, <1>9, <1>10, <1>11, <1>12 DEF l

\* r writes over what is highlighted.
LEMMA ReplaceTells ==
  ASSUME ScreenInv, NEW n \in Nat, DoReplace(n), IsVisualOn(d), NEW a, a = VisualAddr(d),
         NEW m, m = VisualSpan(d), was'.typed # <<>>
  PROVE  text' = Exchange(text, a, m, Row(m, was'.typed[1]))
  <1>1. PICK buf \in {b \in {Spelled(input) : input \in Typed} : Len(b) <= 1} :
       LET addr == IF IsVisualOn(d) THEN VisualAddr(d) ELSE d.cursor_addr
           span == IF IsVisualOn(d) THEN VisualSpan(d) ELSE Count(n)
           fill == [i \in 1 .. Least(span, d.file_size - addr) |-> buf[1]]
       IN  /\ was' = [Press("r", n) EXCEPT !.typed = buf]
           /\ Become([h |-> IF buf = <<>> \/ ~AddressValid(d, addr) THEN History
                         ELSE ReplaceAt(History, addr, fill),
                      d |-> VisualSelectOff(d)])
    BY Zenon DEF DoReplace
  <1>2. PICK input \in Typed : buf = Spelled(input) /\ Len(buf) <= 1
    BY <1>1
  <1>3. was'.typed = buf /\ buf # <<>>
    <2>1. was' = [Press("r", n) EXCEPT !.typed = buf]
      BY <1>1, Zenon
    <2> QED BY <2>1, PressIs
  <1>4. AddressValid(d, a) /\ d.file_size \in Nat /\ a \in Nat /\ m \in Nat \ {0} /\ a + m <= d.file_size
    <2>1. a + m - 1 = a + m - 1
      OBVIOUS
    <2>2. a \in Nat /\ m \in Nat \ {0} /\ AddressValid(d, a) /\ a + m - 1 < d.file_size
          /\ d.file_size = Len(text) /\ Len(text) \in Nat
      BY <2>1, ShownIs
    <2> QED BY <2>2
  <1> DEFINE span == m
             k == Least(span, d.file_size - a)
             w == ReplaceAt(History, a, Row(k, buf[1]))
             v == VisualSelectOff(d)
             u == [h |-> w, d |-> v]
  <1>5. Become(u)
    <2>1. \E addr \in {a}, sp \in {span} : \E fill \in {[i \in 1 .. Least(sp, d.file_size - addr) |-> buf[1]]} :
           Become([h |-> IF buf = <<>> \/ ~AddressValid(d, addr) THEN History
                         ELSE ReplaceAt(History, addr, fill),
                   d |-> VisualSelectOff(d)])
      BY <1>1, Zenon
    <2> QED BY <1>3, <1>4, <2>1, Zenon DEF Row
  <1>6. k = Least(span, d.file_size - a) /\ w = ReplaceAt(History, a, Row(k, buf[1]))
        /\ a = (IF IsVisualOn(d) THEN VisualAddr(d) ELSE d.cursor_addr)
        /\ span = (IF IsVisualOn(d) THEN VisualSpan(d) ELSE Count(n))
    OBVIOUS
  <1> HIDE DEF k, w
  <1>7. Hist(w) /\ Text(w) = Exchange(text, a, k, Row(k, buf[1])) /\ k = span
    BY <1>2, <1>3, <1>4, <1>6, ReplacedIs
  <1>8. text' = Text(w)
    <2>1. u.h = w /\ Hist(u.h)
      BY <1>7
    <2> HIDE DEF u
    <2> QED BY <1>5, <2>1, BecomesText
  <1> QED
    BY <1>3, <1>7, <1>8

\* What a key does with m bytes from a on.
ActsOn(a, m) ==
  /\ was'.key \in {"d", "x"} => text' = Exchange(text, a, m, <<>>)
  /\ was'.key \in {"x", "y"} => yank'[register] = SubSeq(text, a + 1, a + m)
  /\ was'.key = "c" => \E input \in Typed : text' = Exchange(text, a, m, Spelled(input))

\* The same, from a to b
ActsTo(a, b) ==
  /\ was'.key \in {"d", "x"} => text' = Replaced(text, a, b, <<>>)
  /\ was'.key \in {"x", "y"} => yank'[register] = Between(text, a, b)
  /\ was'.key = "c" => \E input \in Typed : text' = Replaced(text, a, b, Spelled(input))

\* m bytes from a on are those from a to b.
LEMMA ActsAlike ==
  ASSUME NEW a \in Int, NEW m \in Int, NEW b \in Int, b = a + m - 1, ActsOn(a, m)
  PROVE  ActsTo(a, b)
  <1>1. b + 2 = a + m + 1 /\ b + 1 = a + m
    OBVIOUS
  <1>2. \A buf : Replaced(text, a, b, buf) = Exchange(text, a, m, buf)
    BY <1>1, Zenon DEF Replaced, Exchange
  <1>3. Between(text, a, b) = SubSeq(text, a + 1, a + m)
    BY <1>1, Zenon DEF Between
  <1> QED
    BY <1>2, <1>3, Zenon DEF ActsOn, ActsTo

\* d, x, y and c act on what is highlighted.
LEMMA ShownKey ==
  ASSUME Steady, {"half", "change"} \cap Slips = {}, EditorInv, IsVisualOn(d), NEW n \in Nat,
         was'.n = n, Tells(n, was'.key),
         was'.key \in {"d", "x", "y", "c"}, NEW a, a = VisualAddr(d), NEW m, m = VisualSpan(d)
  PROVE  ActsOn(a, m)
  <1>0. ScreenInv /\ RegistersInv /\ NoAddr \in {NoAddr} \cup Nat /\ 1 \in Nat
    BY DEF EditorInv
  <1> DEFINE b == a + m - 1
  <1>1. text # <<>> /\ \A k \in Nat : \A end \in {NoAddr} \cup Nat : ActedOn(end, k, a, m)
    <2>1. b = a + m - 1
      OBVIOUS
    <2> HIDE DEF b
    <2> QED BY <1>0, <2>1, ShownIs
  <1>2. CASE was'.key = "d"
    <2>1. DoDelete(n)
      BY <1>2 DEF Tells
    <2>2. DeleteTo(n, NoAddr)
      BY <2>1, Zenon DEF DoDelete
    <2>3. text' = Exchange(text, a, m, <<>>)
      BY <1>0, <1>1, <2>2, DeleteTells
    <2> QED BY <1>2, <2>3 DEF ActsOn
  <1>3. CASE was'.key = "x"
    <2>1. DoCut(n)
      BY <1>3 DEF Tells
    <2>2. PICK v : InPlace(v) /\ Alike(v, d) /\ CutAt(v, n) /\ v = d
      BY <1>0, <1>3, <2>1, CutFrom
    <2>3. CutAt(d, n) /\ InPlace(d) /\ Alike(d, d)
      BY <2>2
    <2>4. a = First(d, NoAddr) /\ m = Cut(d, n, NoAddr)
      BY <1>0, <1>1 DEF ActedOn
    <2>5. text' = Exchange(text, a, m, <<>>) /\ yank'[register] = SubSeq(text, a + 1, a + m)
      BY <1>0, <1>1, <2>3, <2>4, CutTells
    <2> QED BY <1>3, <2>5 DEF ActsOn
  <1>4. CASE was'.key = "y"
    <2>1. DoYank(n)
      BY <1>4 DEF Tells
    <2>2. YankTo(n, NoAddr)
      BY <2>1, Zenon DEF DoYank
    <2>3. yank' = Yanked(State, n, NoAddr)
      BY <2>2 DEF YankTo
    <2> DEFINE y == Yanked(State, n, NoAddr)
    <2>4. y = Yanked(State, n, NoAddr) /\ ActedOn(NoAddr, n, a, m)
      BY <1>0, <1>1
    <2> HIDE DEF y
    <2>5. y[register] = SubSeq(text, a + 1, a + m)
      BY <1>0, <1>1, <2>4, YankTells
    <2>6. yank'[register] = SubSeq(text, a + 1, a + m)
      BY <2>3, <2>5 DEF y
    <2> QED BY <1>4, <2>6 DEF ActsOn
  <1>5. CASE was'.key = "c"
    <2>1. DoChange(n)
      BY <1>5 DEF Tells
    <2>2. PICK input \in Typed : ChangeTo(1, NoAddr, input)
      BY <2>1, Zenon DEF DoChange
    <2>3. ActedOn(NoAddr, 1, a, m)
      BY <1>0, <1>1
    <2>4. text' = Exchange(text, a, m, Spelled(input))
      BY <1>0, <1>1, <2>2, <2>3, ChangeTells
    <2> QED BY <1>5, <2>4 DEF ActsOn
  <1> QED
    BY <1>2, <1>3, <1>4, <1>5

ShownStep ==
  IsVisualOn(d) /\ was'.key \in {"d", "x", "y", "c", "r"} =>
       \E a, b \in Highlighted(d) :
         /\ Highlighted(d) = a .. b
         /\ was'.key \in {"d", "x"} => text' = Replaced(text, a, b, <<>>)
         /\ was'.key \in {"x", "y"} => yank'[register] = Between(text, a, b)
         /\ was'.key = "c" => \E input \in Typed : text' = Replaced(text, a, b, Spelled(input))
         /\ (was'.key = "r" /\ was'.typed # <<>>) =>
               text' = Replaced(text, a, b, [i \in 1 .. b - a + 1 |-> was'.typed[1]])

\* Each of the keys acts on what is highlighted.
LEMMA ActsShown ==
  ASSUME Steady, {"half", "change"} \cap Slips = {}, EditorInv, Next,
         IsVisualOn(d), was'.key \in {"d", "x", "y", "c", "r"}
  PROVE  ShownStep
  <1> DEFINE a == VisualAddr(d)
             m == VisualSpan(d)
             b == a + m - 1
  <1>0. ScreenInv /\ was'.key \notin Others
    BY DEF EditorInv, Others
  <1>1. PICK n \in Counts : n \in Nat /\ was'.n = n /\ Tells(n, was'.key)
    BY <1>0, StepTells
  <1>2. a = VisualAddr(d) /\ m = VisualSpan(d) /\ b = a + m - 1
    OBVIOUS
  <1> HIDE DEF a, m, b
  <1>3. /\ a \in Nat /\ m \in Nat \ {0} /\ b \in Nat
        /\ Highlighted(d) = a .. b /\ a \in Highlighted(d) /\ b \in Highlighted(d)
    BY <1>0, <1>2, ShownIs
  <1>4. ActsTo(a, b)
    <2>1. CASE was'.key = "r"
      <3>1. was'.key \notin {"d", "x", "y", "c"}
        BY <2>1
      <3> QED BY <3>1 DEF ActsTo
    <2>2. CASE was'.key # "r"
      <3>1. ActsOn(a, m)
        BY <1>1, <1>2, <2>2, ShownKey
      <3> QED BY <1>2, <1>3, <3>1, ActsAlike
    <2> QED BY <2>1, <2>2
  <1>5. ASSUME was'.key = "r", was'.typed # <<>>
        PROVE  text' = Replaced(text, a, b, [i \in 1 .. b - a + 1 |-> was'.typed[1]])
    <2>1. DoReplace(n)
      BY <1>1, <1>5 DEF Tells
    <2>2. text' = Exchange(text, a, m, Row(m, was'.typed[1]))
      BY <1>0, <1>1, <1>2, <1>5, <2>1, ReplaceTells
    <2>3. b + 2 = a + m + 1 /\ b - a + 1 = m
      BY <1>2, <1>3
    <2>4. \A buf : Replaced(text, a, b, buf) = Exchange(text, a, m, buf)
      BY <2>3, Zenon DEF Replaced, Exchange
    <2>5. [i \in 1 .. b - a + 1 |-> was'.typed[1]] = Row(m, was'.typed[1])
      BY <2>3, Zenon DEF Row
    <2> QED BY <2>2, <2>4, <2>5
  <1> QED
    BY <1>3, <1>4, <1>5, Zenon DEF ActsTo, ShownStep

\* A key pressed while bytes are highlighted deletes, yanks, changes or replaces
\* the highlighted bytes, all of them and no other: for every text and layout.
THEOREM AlwaysActsOnShown ==
  ASSUME Steady, {"half", "change"} \cap Slips = {}
  PROVE  Spec => ActsOnShown
  <1>1. EditorInv /\ Next => ShownStep
    BY ActsShown DEF ShownStep
  <1>2. Spec => []EditorInv
    BY EditorInvariant
  <1>3. EditorInv /\ [Next]_vars => [ShownStep]_vars
    BY <1>1
  <1>4. []EditorInv /\ [][Next]_vars => [][ShownStep]_vars
    BY <1>3, PTL
  <1>5. [][ShownStep]_vars => ActsOnShown
    BY DEF ActsOnShown, ShownStep
  <1>6. Spec => [][ShownStep]_vars
    BY <1>2, <1>4, PTL DEF Spec
  <1> QED
    BY <1>5, <1>6

(***************************************************************************)
(* What a motion spans is what is acted on.                                *)
(***************************************************************************)
MotionKeys == {"up", "down", "left", "right", "file_end", "line_start", "line_end", "page_down",
               "page_up", "escape", "jump", "seek"}
MotionRecords == [key : MotionKeys, n : Nat, to : {NoAddr} \cup Nat]

\* end is where the cursor would have gone, or nowhere.
LandsAt(to, end) == to = (IF end = NoAddr THEN d.cursor_addr ELSE end)
                    /\ (end = NoAddr \/ AddressValid(d, end))

\* A motion is a key, a count and an address.
LEMMA MotionIs ==
  ASSUME NEW m \in Motion
  PROVE  m \in MotionRecords
  <1>0. Counts \subseteq Nat /\ 0 .. MaxLen \subseteq Nat /\ {NoAddr} \cup 0 .. MaxLen \subseteq {NoAddr} \cup Nat
        /\ NoAddr \in {NoAddr} \cup Nat
    BY EditorAssumption
  <1>1. CASE m \in [key : {"up", "down", "left", "right", "file_end"}, n : Counts, to : {NoAddr}]
    <2>1. m.key \in MotionKeys
      BY <1>1 DEF MotionKeys
    <2>2. m.n \in Nat /\ m.to \in {NoAddr} \cup Nat
      BY <1>0, <1>1
    <2> QED BY <1>1, <2>1, <2>2, Zenon DEF MotionRecords
  <1>2. CASE m \in [key : {"line_start", "line_end", "page_down", "page_up", "escape"}, n : {0}, to : {NoAddr}]
    <2>1. m.key \in MotionKeys
      BY <1>2 DEF MotionKeys
    <2>2. m.n \in Nat /\ m.to \in {NoAddr} \cup Nat
      BY <1>0, <1>2
    <2> QED BY <1>2, <2>1, <2>2, Zenon DEF MotionRecords
  <1>3. CASE m \in [key : {"jump", "seek"}, n : {0}, to : {NoAddr} \cup 0 .. MaxLen]
    <2>1. m.key \in MotionKeys
      BY <1>3 DEF MotionKeys
    <2>2. m.n \in Nat /\ m.to \in {NoAddr} \cup Nat
      BY <1>0, <1>3
    <2> QED BY <1>3, <2>1, <2>2, Zenon DEF MotionRecords
  <1> QED
    BY <1>1, <1>2, <1>3, Zenon DEF Motion

\* The cursor goes where it is put, or stays.
LEMMA PutAt ==
  ASSUME InPlace(d), d.file_size # 0, NEW x
  PROVE  PlaceCursor(d, x).cursor_addr = IF AddressValid(d, x) THEN x ELSE d.cursor_addr
  <1> DEFINE u == PlaceCursor(d, x)
  <1>1. u = PlaceCursor(d, x) /\ Paged(d)
    BY DEF InPlace
  <1> HIDE DEF u
  <1> QED
    BY <1>1, PlacedIs DEF u

\* CURSOR_VIRTUAL comes to where CURSOR_REAL goes.
LEMMA VirtualLands ==
  ASSUME InPlace(d), d.file_size # 0, NEW m
  PROVE  LandsAt(Move(d, m).cursor_addr, Virtual(d, m))
  <1> DEFINE to == Target(d, m)
             c == to = NoAddr /\ m.key \notin Always
  <1>1. AddressValid(d, d.cursor_addr) /\ \A x : AddressValid(d, x) => x # NoAddr
    BY DEF InPlace, AddressValid, NoAddr
  <1>2. PlaceCursor(d, to).cursor_addr = IF AddressValid(d, to) THEN to ELSE d.cursor_addr
    BY PutAt
  <1>3. CASE c
    <2>1. Virtual(d, m) = NoAddr
      BY <1>3, Zenon DEF Virtual
    <2>2. Move(d, m) = d
      BY <1>3, Zenon DEF Move
    <2> QED BY <2>1, <2>2 DEF LandsAt
  <1>4. CASE ~c
    <2>1. Move(d, m) = PlaceCursor(d, to)
      BY <1>4, Zenon DEF Move
    <2>2. CASE AddressValid(d, to)
      <3>1. Virtual(d, m) = to
        BY <1>4, <2>2, Zenon DEF Virtual
      <3> QED BY <1>1, <1>2, <2>1, <2>2, <3>1 DEF LandsAt
    <2>3. CASE ~AddressValid(d, to)
      <3>1. Virtual(d, m) = d.cursor_addr
        BY <1>4, <2>3, Zenon DEF Virtual
      <3> QED BY <1>1, <1>2, <2>1, <2>3, <3>1 DEF LandsAt
    <2> QED BY <2>2, <2>3
  <1> QED
    BY <1>3, <1>4

\* What is meant by a motion typed on nothing that was left.
LEMMA MeantIs ==
  ASSUME NEW m \in MotionRecords, NEW left, left = [multiplier |-> 0, jump |-> NoAddr],
         NEW u, u = Meant(m, Digits(left, m.n))
  PROVE  /\ (m.key = "file_end" /\ m.n # 0) => u.key = "jump" /\ u.to = m.n /\ m.n # NoAddr
         /\ ~(m.key = "file_end" /\ m.n # 0) => u = m
  <1> DEFINE counted == Digits(left, m.n)
  <1>1. m.n \in Nat /\ NoAddr \notin Nat
    BY DEF MotionRecords, NoAddr
  <1>2. counted.multiplier = m.n /\ counted.jump = IF m.n = 0 THEN NoAddr ELSE m.n
    <2>1. CASE m.n = 0
      BY <2>1 DEF Digits
    <2>2. CASE m.n # 0
      <3> DEFINE a == left.multiplier * 10 + m.n
                 b == IF left.jump = NoAddr THEN m.n ELSE left.jump * 10 + m.n
      <3>1. a = m.n /\ b = m.n
        BY <1>1
      <3>2. counted = [multiplier |-> a, jump |-> b]
        BY <2>2, Zenon DEF Digits
      <3> HIDE DEF a, b
      <3> QED BY <2>2, <3>1, <3>2
    <2> QED BY <2>1, <2>2
  <1>3. u = Meant(m, counted)
    OBVIOUS
  <1> HIDE DEF counted
  <1>4. CASE m.key = "file_end" /\ m.n # 0
    <2>1. counted.jump # NoAddr /\ counted.jump = m.n
      BY <1>1, <1>2, <1>4
    <2> DEFINE x == [m EXCEPT !.key = "jump"]
               y == [x EXCEPT !.to = counted.jump]
    <2>2. "jump" \in MotionKeys /\ counted.jump \in {NoAddr} \cup Nat
      BY <1>1, <2>1 DEF MotionKeys
    <2>3. x \in MotionRecords /\ x.key = "jump"
      BY <2>2, Zenon DEF MotionRecords
    <2>4. u = [m EXCEPT !.key = "jump", !.to = counted.jump]
      BY <1>3, <1>4, <2>1, Zenon DEF Meant
    <2>5. u = y
      BY <2>4, Zenon
    <2> HIDE DEF x
    <2>6. y.to = counted.jump /\ y.key = x.key
      BY <2>2, <2>3, Zenon DEF MotionRecords
    <2> QED BY <1>1, <1>4, <2>1, <2>3, <2>5, <2>6
  <1>5. CASE ~(m.key = "file_end" /\ m.n # 0)
    <2>1. ~(m.key = "file_end" /\ counted.jump # NoAddr)
      BY <1>2, <1>5
    <2>2. CASE m.key \in {"up", "down", "left", "right"}
      <3>1. u = [m EXCEPT !.n = counted.multiplier]
        BY <1>3, <2>1, <2>2, Zenon DEF Meant
      <3>2. [m EXCEPT !.n = m.n] = m
        BY Zenon DEF MotionRecords
      <3> QED BY <1>2, <1>5, <3>1, <3>2
    <2>3. CASE m.key \notin {"up", "down", "left", "right"}
      <3>1. u = m
        BY <1>3, <2>1, <2>3, Zenon DEF Meant
      <3> QED BY <1>5, <3>1
    <2> QED BY <2>2, <2>3
  <1> QED
    BY <1>4, <1>5

\* A motion behind a command comes to where it goes as a command.
LEMMA MotionLands ==
  ASSUME InPlace(d), d.file_size # 0, "again" \notin Slips, motion \in Statics, NEW r \in NextMotionAddr
  PROVE  LandsAt(Landing(r.by), r.end)
  <1> DEFINE none == [multiplier |-> 0, jump |-> NoAddr]
  <1>1. PICK m \in Motion : r = MotionTyped(m, none)
    <2>1. CASE Stale
      BY <2>1 DEF NextMotionAddr
    <2>2. CASE ~Stale
      <3>1. motion = none
        BY <2>2 DEF Stale, Statics
      <3> QED BY <2>2, <3>1 DEF NextMotionAddr
    <2> QED BY <2>1, <2>2
  <1>2. m \in MotionRecords /\ none = [multiplier |-> 0, jump |-> NoAddr]
    BY MotionIs
  <1> HIDE DEF none
  <1> DEFINE u == Meant(m, Digits(none, m.n))
  <1>3. r.by = m /\ r.end = Reached(u)
    <2> DEFINE e == Reached(u)
               t == IF m.key = "jump" THEN [Digits(none, m.n) EXCEPT !.jump = m.to] ELSE Digits(none, m.n)
    <2>1. r = [by |-> m, end |-> e, statics |-> t]
      BY <1>1, Zenon DEF MotionTyped
    <2> HIDE DEF e, t
    <2>2. r.by = m /\ r.end = e
      BY <2>1
    <2> QED BY <2>2 DEF e
  <1>4. u = Meant(m, Digits(none, m.n))
    OBVIOUS
  <1> HIDE DEF u
  <1>5. /\ (m.key = "file_end" /\ m.n # 0) => u.key = "jump" /\ u.to = m.n /\ m.n # NoAddr
        /\ ~(m.key = "file_end" /\ m.n # 0) => u = m
    BY ONLY <1>2, <1>4, MeantIs
  <1>6. /\ AddressValid(d, d.cursor_addr) /\ \A x : AddressValid(d, x) => x # NoAddr
        /\ \A x : PlaceCursor(d, x).cursor_addr = IF AddressValid(d, x) THEN x ELSE d.cursor_addr
        /\ \A x : LandsAt(Move(d, x).cursor_addr, Virtual(d, x))
    <2>1. AddressValid(d, d.cursor_addr) /\ \A x : AddressValid(d, x) => x # NoAddr
      BY DEF InPlace, AddressValid, NoAddr
    <2> QED BY <2>1, PutAt, VirtualLands
  <1>7. CASE m.key = "file_end" /\ m.n # 0
    <2> DEFINE to == Target(d, u)
    <2>1. Landing(m) = PlaceCursor(d, m.n).cursor_addr
      BY <1>7, Zenon DEF Landing
    <2>2. u.key = "jump" /\ u.to = m.n /\ m.n # NoAddr
      BY <1>5, <1>7
    <2>3. to = m.n
      BY <2>2 DEF Target
    <2>4. Reached(u) = Virtual(d, u)
      <3>1. u.key # "escape" /\ u.key # "seek"
        BY <2>2
      <3> QED BY <3>1, Zenon DEF Reached
    <2>5. ~(to = NoAddr /\ u.key \notin Always)
      BY <2>2, <2>3
    <2> HIDE DEF to
    <2>6. Virtual(d, u) = IF AddressValid(d, to) THEN to ELSE d.cursor_addr
      <3>1. CASE AddressValid(d, to)
        BY <2>5, <3>1, Zenon DEF Virtual, to
      <3>2. CASE ~AddressValid(d, to)
        BY <2>5, <3>2, Zenon DEF Virtual, to
      <3> QED BY <3>1, <3>2
    <2> QED BY <1>3, <1>6, <2>1, <2>3, <2>4, <2>6 DEF LandsAt
  <1>8. CASE ~(m.key = "file_end" /\ m.n # 0)
    <2>0. u = m
      BY <1>5, <1>8
    <2>1. CASE m.key = "escape"
      <3>0. m.key # "seek"
        BY <2>1
      <3>1. Landing(m) = d.cursor_addr
        BY <1>8, <2>1, <3>0, Zenon DEF Landing
      <3>2. Reached(m) = NoAddr
        BY <2>1, <3>0, Zenon DEF Reached
      <3> QED BY <1>3, <2>0, <3>1, <3>2 DEF LandsAt
    <2>2. CASE m.key = "seek"
      <3>0. m.key # "escape" /\ m.key # "file_end"
        BY <2>2
      <3>1. Landing(m) = PlaceCursor(d, m.to).cursor_addr
        BY <2>2, <3>0, Zenon DEF Landing
      <3>2. Reached(m) = IF AddressValid(d, m.to) THEN m.to ELSE NoAddr
        BY <2>2, <3>0, Zenon DEF Reached
      <3> QED BY <1>3, <1>6, <2>0, <3>1, <3>2 DEF LandsAt
    <2>3. CASE m.key # "escape" /\ m.key # "seek"
      <3>1. Landing(m) = Move(d, m).cursor_addr
        BY <1>8, <2>3, Zenon DEF Landing
      <3>2. Reached(m) = Virtual(d, m)
        BY <2>3, Zenon DEF Reached
      <3> QED BY <1>3, <1>6, <2>0, <3>1, <3>2
    <2> QED BY <2>1, <2>2, <2>3
  <1> QED
    BY <1>3, <1>7, <1>8

\* The bytes from the cursor to where the motion ends, both included.
LEMMA ActedTo ==
  ASSUME ScreenInv, ~IsVisualOn(d), text # <<>>, NEW n \in Nat, Count(n) = 1,
         NEW to, NEW end, LandsAt(to, end),
         NEW a, a = Least(d.cursor_addr, to), NEW b, b = Most(d.cursor_addr, to)
  PROVE  a \in Nat /\ b \in Nat /\ ActedOn(end, n, a, b - a + 1) /\ end \in {NoAddr} \cup Nat
  <1> DEFINE c == d.cursor_addr
             l == d.file_size
  <1>1. InPlace(d) /\ l # 0 /\ l \in Nat
    BY NowIs, EmptySeq, CursorIs
  <1>2. c \in 0 .. l - 1 /\ (end # NoAddr => end \in 0 .. l - 1)
    BY <1>1 DEF InPlace, AddressValid, LandsAt
  <1>3. CASE end = NoAddr
    <2>1. to = c /\ a = c /\ b = c
      BY <1>3, <1>2 DEF LandsAt, Least, Most
    <2>2. First(d, end) = c /\ Span(d, n, end) = 1
      BY <1>3 DEF First, Span
    <2>3. Cut(d, n, end) = Least(1, l - c)
      BY <2>2, Zenon DEF Cut
    <2> HIDE DEF c, l
    <2>4. Least(1, l - c) = 1 /\ b - a + 1 = 1
      BY <1>1, <1>2, <2>1 DEF Least
    <2> QED BY <1>2, <1>3, <2>1, <2>2, <2>3, <2>4 DEF ActedOn
  <1>4. CASE end # NoAddr
    <2>1. to = end /\ end \in 0 .. l - 1
      BY <1>2, <1>4 DEF LandsAt
    <2>2. First(d, end) = Least(end, c)
      BY <1>4, Zenon DEF First
    <2>3. Span(d, n, end) = Count(n) * (Most(end, c) - First(d, end) + 1)
      BY <1>4, Zenon DEF Span
    <2>4. Cut(d, n, end) = Least(Span(d, n, end), l - First(d, end))
      BY Zenon DEF Cut
    <2> HIDE DEF c, l
    <2>5. Least(end, c) = a /\ Most(end, c) = b /\ a \in Nat /\ b \in Nat /\ a <= b /\ b < l
      BY <1>1, <1>2, <2>1 DEF Least, Most, c
    <2>6. Span(d, n, end) = b - a + 1
      BY <2>2, <2>3, <2>5
    <2>7. Least(b - a + 1, l - a) = b - a + 1
      BY <1>1, <2>5 DEF Least
    <2> QED BY <2>1, <2>2, <2>4, <2>5, <2>6, <2>7 DEF ActedOn
  <1> QED
    BY <1>3, <1>4

MotionActs ==
  ~IsVisualOn(d) /\ was'.key \in {"d", "y", "c"} /\ Count(was'.n) = 1 /\ text # <<>> =>
       LET to == Landing(was'.by)
           a == Least(d.cursor_addr, to)
           b == Most(d.cursor_addr, to)
       IN  /\ was'.key = "d" => text' = Replaced(text, a, b, <<>>)
           /\ was'.key = "y" => yank'[register] = Between(text, a, b)
           /\ was'.key = "c" => \E input \in Typed : text' = Replaced(text, a, b, Spelled(input))

\* d, y and c with a motion act from the cursor to where the motion ends.
LEMMA MotionKey ==
  ASSUME Steady, {"again", "half", "change"} \cap Slips = {}, EditorInv, NEW n \in Nat,
         was'.n = n, Tells(n, was'.key), ~IsVisualOn(d), was'.key \in {"d", "y", "c"}, Count(n) = 1, text # <<>>,
         NEW to, to = Landing(was'.by), NEW a, a = Least(d.cursor_addr, to), NEW b, b = Most(d.cursor_addr, to)
  PROVE  ActsTo(a, b)
  <1>0. ScreenInv /\ RegistersInv /\ motion \in Statics /\ InPlace(d) /\ d.file_size # 0
    BY NowIs, EmptySeq DEF EditorInv, MotionInv
  <1> DEFINE m == b - a + 1
  <1>1. ASSUME NEW r \in NextMotionAddr, was'.by = r.by
        PROVE  a \in Nat /\ b \in Nat /\ ActedOn(r.end, n, a, m) /\ r.end \in {NoAddr} \cup Nat
    <2>1. LandsAt(to, r.end)
      BY <1>0, <1>1, MotionLands
    <2> QED BY <1>0, <2>1, ActedTo
  <1>2. ASSUME a \in Nat, b \in Nat, ActsOn(a, m) PROVE ActsTo(a, b)
    <2>1. a \in Int /\ b \in Int /\ m \in Int /\ b = a + m - 1
      BY <1>2
    <2> HIDE DEF m
    <2> QED BY <1>2, <2>1, ActsAlike
  <1> HIDE DEF m
  <1>3. CASE was'.key = "d"
    <2>1. DoDelete(n)
      BY <1>3 DEF Tells
    <2>2. PICK r \in NextMotionAddr : By("d", n, r) /\ DeleteTo(n, r.end)
      BY <2>1, Zenon DEF DoDelete
    <2>3. was'.by = r.by
      BY <2>2, ByIs
    <2>4. a \in Nat /\ b \in Nat /\ ActedOn(r.end, n, a, m) /\ r.end \in {NoAddr} \cup Nat
      BY <1>1, <2>3
    <2>5. text' = Exchange(text, a, m, <<>>)
      BY <1>0, <2>2, <2>4, DeleteTells
    <2>6. ActsOn(a, m)
      BY <1>3, <2>5 DEF ActsOn
    <2> QED BY <1>2, <2>4, <2>6
  <1>4. CASE was'.key = "y"
    <2>1. DoYank(n)
      BY <1>4 DEF Tells
    <2>2. PICK r \in NextMotionAddr : By("y", n, r) /\ YankTo(n, r.end)
      <3>1. ~Alone("Y", n)
        <4>1. Alone("Y", n) => was'.key = "Y"
          BY AloneIs
        <4> QED BY <1>4, <4>1
      <3> QED BY <2>1, <3>1, Zenon DEF DoYank
    <2>3. was'.by = r.by
      BY <2>2, ByIs
    <2>4. a \in Nat /\ b \in Nat /\ ActedOn(r.end, n, a, m) /\ r.end \in {NoAddr} \cup Nat
      BY <1>1, <2>3
    <2> DEFINE y == Yanked(State, n, r.end)
    <2>5. y = Yanked(State, n, r.end) /\ yank' = y
      BY <2>2 DEF YankTo
    <2> HIDE DEF y
    <2>6. y[register] = SubSeq(text, a + 1, a + m)
      BY <1>0, <2>4, <2>5, YankTells
    <2>7. ActsOn(a, m)
      BY <1>4, <2>5, <2>6 DEF ActsOn
    <2> QED BY <1>2, <2>4, <2>7
  <1>5. CASE was'.key = "c"
    <2>1. DoChange(n)
      BY <1>5 DEF Tells
    <2>2. PICK input \in Typed : \E r \in NextMotionAddr : By("c", n, r) /\ ChangeTo(n, r.end, input)
      <3>1. ~Alone("s", n)
        <4>1. Alone("s", n) => was'.key = "s"
          BY AloneIs
        <4> QED BY <1>5, <4>1
      <3> QED BY <2>1, <3>1, Zenon DEF DoChange
    <2>3. PICK r \in NextMotionAddr : By("c", n, r) /\ ChangeTo(n, r.end, input)
      BY <2>2
    <2>4. was'.by = r.by
      BY <2>3, ByIs
    <2>5. a \in Nat /\ b \in Nat /\ ActedOn(r.end, n, a, m) /\ r.end \in {NoAddr} \cup Nat
      BY <1>1, <2>4
    <2>6. text' = Exchange(text, a, m, Spelled(input))
      <3>1. {"half", "change"} \cap Slips = {}
        OBVIOUS
      <3> DEFINE end == r.end
      <3>2. ChangeTo(n, end, input) /\ ActedOn(end, n, a, m) /\ end \in {NoAddr} \cup Nat
        BY <2>3, <2>5
      <3> HIDE DEF end
      <3>3. Steady /\ ScreenInv /\ text # <<>> /\ n \in Nat /\ input \in Typed
        BY <1>0
      <3> QED BY ONLY <3>1, <3>2, <3>3, ChangeTells, Zenon
    <2>7. ActsOn(a, m)
      BY <1>5, <2>6 DEF ActsOn
    <2> QED BY <1>2, <2>5, <2>7
  <1> QED
    BY <1>3, <1>4, <1>5

\* d, y and c with a motion act on the bytes from the cursor to where the motion,
\* typed as a command, would have put it, both included: for every text and layout.
THEOREM AlwaysActsToMotion ==
  ASSUME Steady, {"again", "half", "change"} \cap Slips = {}
  PROVE  Spec => ActsToMotion
  <1>1. EditorInv /\ Next => MotionActs
    <2> SUFFICES ASSUME EditorInv, Next, ~IsVisualOn(d), was'.key \in {"d", "y", "c"},
                        Count(was'.n) = 1, text # <<>>
                 PROVE  MotionActs
      BY DEF MotionActs
    <2>1. was'.key \notin Others
      BY DEF Others
    <2>2. PICK n \in Counts : n \in Nat /\ was'.n = n /\ Tells(n, was'.key)
      BY <2>1, StepTells
    <2> DEFINE to == Landing(was'.by)
               a == Least(d.cursor_addr, to)
               b == Most(d.cursor_addr, to)
    <2>3. to = Landing(was'.by) /\ a = Least(d.cursor_addr, to) /\ b = Most(d.cursor_addr, to)
      OBVIOUS
    <2> HIDE DEF to, a, b
    <2>4. ActsTo(a, b)
      BY <2>2, <2>3, MotionKey
    <2> QED BY <2>4 DEF ActsTo, MotionActs, to, a, b
  <1>2. Spec => []EditorInv
    BY EditorInvariant
  <1>3. EditorInv /\ [Next]_vars => [MotionActs]_vars
    BY <1>1
  <1>4. []EditorInv /\ [][Next]_vars => [][MotionActs]_vars
    BY <1>3, PTL
  <1>5. [][MotionActs]_vars => ActsToMotion
    BY DEF ActsToMotion, MotionActs
  <1>6. Spec => [][MotionActs]_vars
    BY <1>2, <1>4, PTL DEF Spec
  <1> QED
    BY <1>5, <1>6
=============================================================================
