--------------------------- MODULE LCDDisplayProofs ---------------------------
(***************************************************************************)
(* What the display shows, for any width, any length of its rows and any   *)
(* texts.                                                                  *)
(***************************************************************************)
EXTENDS LCDDisplay, TLAPS, NaturalsInduction, WellFoundedInduction

-----------------------------------------------------------------------------
(* The controller.                                                         *)

\* A set of numbers between 1 and n has a greatest one.
LEMMA GreatestIsMember ==
  ASSUME NEW n \in Nat, NEW S \in SUBSET (1..n), S # {}
  PROVE  Max(S) \in S /\ \A j \in S : Max(S) >= j
<1> DEFINE U == {j \in 0..n : n - j \in S}
<1>1. U \subseteq Nat
  OBVIOUS
<1>2. U # {}
  <2>1. PICK k \in S : TRUE
    OBVIOUS
  <2>2. k \in 1..n /\ n - k \in 0..n /\ n - (n - k) = k
    OBVIOUS
  <2>3. n - (n - k) \in S
    BY <2>2
  <2>4. n - k \in U
    BY <2>2, <2>3
  <2> QED
    BY <2>4
<1>3. IsWellFoundedOn(OpToRel(<, Nat), Nat)
  BY NatLessThanWellFounded
<1>4. PICK j \in U : \A i \in U : ~(<<i, j>> \in OpToRel(<, Nat))
  <2> HIDE DEF U
  <2> QED
    BY <1>1, <1>2, <1>3, WFMin
<1>5. \A k \in S : n - j >= k
  <2> SUFFICES ASSUME NEW k \in S, ~(n - j >= k) PROVE FALSE
    OBVIOUS
  <2>1. k \in 1..n /\ j \in Nat /\ n - k \in 0..n /\ n - (n - k) = k
    OBVIOUS
  <2>2. n - (n - k) \in S
    BY <2>1
  <2>3. n - k \in U
    BY <2>1, <2>2
  <2>4. n - k < j
    BY <2>1
  <2> QED
    BY <1>1, <1>4, <2>1, <2>3, <2>4 DEF OpToRel
<1>6. n - j \in S
  OBVIOUS
<1> QED
  BY <1>5, <1>6 DEF Max

LEMMA RemainderSmall ==
  ASSUME NEW n \in Nat \ {0}, NEW x \in Nat
  PROVE  x % n \in 0..(n - 1) /\ (x < n => x % n = x)
OBVIOUS

\* The cells and the address that a text changes.
CellsAt(m, t, a) == {k \in 1..Length[t] : (m.address + k - 1) % (2 * LINE) = a}

LEMMA ControllerFields ==
  ASSUME NEW m \in Controller
  PROVE  /\ m.cells \in [Addresses -> Chars \cup {Blank}]
         /\ m.address \in Nat /\ m.address < 2 * LINE
         /\ m.shift \in 0..(LINE - 1)
BY DisplayAssumption DEF Controller, Addresses

LEMMA WriteFields ==
  ASSUME NEW m \in Controller, NEW t \in Texts
  PROVE  /\ Write(m, t) \in Controller
         /\ Write(m, t).address = (m.address + Length[t]) % (2 * LINE)
         /\ Write(m, t).shift = m.shift
         /\ \A a \in Addresses :
              Write(m, t).cells[a] =
                IF CellsAt(m, t, a) = {} THEN m.cells[a] ELSE <<t, Max(CellsAt(m, t, a))>>
<1>1. Length[t] \in Nat /\ LINE \in Nat /\ 2 * LINE \in Nat \ {0}
  BY DisplayAssumption
<1> DEFINE cells == [a \in Addresses |->
                       IF CellsAt(m, t, a) = {} THEN m.cells[a]
                         ELSE <<t, Max(CellsAt(m, t, a))>>]
           address == (m.address + Length[t]) % (2 * LINE)
<1>2. Write(m, t) = [m EXCEPT !.cells = cells, !.address = address]
  BY DEF Write, CellsAt
<1>3. address \in Addresses
  <2>1. m.address + Length[t] \in Nat
    BY <1>1, ControllerFields
  <2> QED
    BY <1>1, <2>1, RemainderSmall DEF Addresses
<1>4. cells \in [Addresses -> Chars \cup {Blank}]
  <2> SUFFICES ASSUME NEW a \in Addresses, CellsAt(m, t, a) # {}
               PROVE  <<t, Max(CellsAt(m, t, a))>> \in Chars
    BY ControllerFields
  <2>1. CellsAt(m, t, a) \in SUBSET (1..Length[t])
    BY DEF CellsAt
  <2>2. Max(CellsAt(m, t, a)) \in 1..Length[t]
    BY <1>1, <2>1, GreatestIsMember
  <2> QED
    BY <2>2 DEF Chars
<1> HIDE DEF cells, address
<1>5. /\ Write(m, t).cells = cells /\ Write(m, t).address = address
      /\ Write(m, t).shift = m.shift /\ Write(m, t) \in Controller
  BY <1>2, <1>3, <1>4 DEF Controller
<1> QED
  BY <1>5 DEF cells, address

\* A text that ends before the last cell is written from the address on.
LEMMA WriteCells ==
  ASSUME NEW m \in Controller, NEW t \in Texts, m.address + Length[t] <= 2 * LINE,
         NEW a \in Addresses
  PROVE  Write(m, t).cells[a] =
           IF m.address <= a /\ a < m.address + Length[t]
             THEN <<t, a - m.address + 1>> ELSE m.cells[a]
<1>1. /\ Length[t] \in Nat /\ LINE \in Nat /\ 2 * LINE \in Nat \ {0}
      /\ m.address \in Nat /\ a \in Nat
  BY DisplayAssumption, ControllerFields DEF Addresses
<1>2. \A k \in 1..Length[t] : (m.address + k - 1) % (2 * LINE) = m.address + k - 1
  <2> SUFFICES ASSUME NEW k \in 1..Length[t]
               PROVE  (m.address + k - 1) % (2 * LINE) = m.address + k - 1
    OBVIOUS
  <2>1. m.address + k - 1 \in Nat /\ m.address + k - 1 < 2 * LINE
    BY <1>1
  <2> QED
    BY <1>1, <2>1, RemainderSmall
<1>3. CASE m.address <= a /\ a < m.address + Length[t]
  <2>1. CellsAt(m, t, a) = {a - m.address + 1}
    BY <1>1, <1>2, <1>3 DEF CellsAt
  <2>2. Max({a - m.address + 1}) = a - m.address + 1
    BY <1>1 DEF Max
  <2>3. CellsAt(m, t, a) # {}
    BY <2>1
  <2>4. Write(m, t).cells[a] = <<t, Max(CellsAt(m, t, a))>>
    BY <2>3, WriteFields
  <2> QED
    BY <1>3, <2>1, <2>2, <2>4
<1>4. CASE ~(m.address <= a /\ a < m.address + Length[t])
  <2>1. CellsAt(m, t, a) = {}
    BY <1>1, <1>2, <1>4 DEF CellsAt
  <2> QED
    BY <1>4, <2>1, WriteFields
<1> QED
  BY <1>3, <1>4

LEMMA ClearFields ==
  ASSUME NEW m \in Controller
  PROVE  /\ Clear(m) \in Controller
         /\ Clear(m).cells = [a \in Addresses |-> Blank] /\ Clear(m).shift = 0
<1>1. 0 \in Addresses /\ 0 \in 0..(LINE - 1)
  BY DisplayAssumption DEF Addresses
<1>2. [a \in Addresses |-> Blank] \in [Addresses -> Chars \cup {Blank}]
  OBVIOUS
<1> DEFINE cells == [a \in Addresses |-> Blank]
<1>3. Clear(m) = [m EXCEPT !.cells = cells, !.address = 0, !.shift = 0]
  BY DEF Clear
<1> HIDE DEF cells
<1>4. Clear(m) \in Controller /\ Clear(m).cells = cells /\ Clear(m).shift = 0
  BY <1>1, <1>2, <1>3 DEF Controller, cells
<1> QED
  BY <1>4 DEF cells

LEMMA CursorFields ==
  ASSUME NEW m \in Controller, NEW col \in 0..(LINE - 1), NEW row \in 0..1
  PROVE  /\ SetCursor(m, col, row) \in Controller
         /\ SetCursor(m, col, row).cells = m.cells
         /\ SetCursor(m, col, row).shift = m.shift
         /\ SetCursor(m, col, row).address = row * LINE + col
<1>1. row * LINE + col \in Addresses
  BY DisplayAssumption DEF Addresses
<1> QED
  BY <1>1 DEF SetCursor, Controller

-----------------------------------------------------------------------------
(* Two rows printed.                                                       *)

\* The cell of a row in which the character at a column of a text ends up.
Printed(m, col, t, c, a) ==
  IF col <= c /\ c < col + Length[t] THEN <<t, c - col + 1>> ELSE m.cells[a]

LEMMA PrintedThere ==
  ASSUME NEW m, NEW col \in Nat, NEW t \in Texts, NEW k \in 1..Length[t], NEW c \in Nat, NEW a,
         c = col + k - 1
  PROVE  Printed(m, col, t, c, a) = <<t, k>>
<1>1. Length[t] \in Nat
  BY DisplayAssumption
<1>2. col <= c /\ c < col + Length[t] /\ c - col + 1 = k
  BY <1>1
<1> QED
  BY <1>2 DEF Printed

LEMMA PrintFields ==
  ASSUME NEW m \in Controller, NEW col \in 0..(LINE - 1), NEW msg \in Message
  PROVE  /\ PrintRows(m, col, msg) \in Controller
         /\ PrintRows(m, col, msg).shift = m.shift
         /\ Fits(msg, col) =>
              \A c \in 0..(LINE - 1) :
                /\ PrintRows(m, col, msg).cells[c] = Printed(m, col, msg.one, c, c)
                /\ PrintRows(m, col, msg).cells[LINE + c] =
                     Printed(m, col, msg.two, c, LINE + c)
<1> DEFINE m1 == SetCursor(m, col, 0)
           m2 == Write(m1, msg.one)
           m3 == SetCursor(m2, col, 1)
           m4 == Write(m3, msg.two)
<1>0. /\ msg.one \in Texts /\ msg.two \in Texts /\ LINE \in Nat /\ col \in Nat
      /\ Length[msg.one] \in Nat /\ Length[msg.two] \in Nat
  BY DisplayAssumption DEF Message
<1>1. m1 \in Controller /\ m1.cells = m.cells /\ m1.shift = m.shift /\ m1.address = col
  <2>1. 0 * LINE + col = col
    BY <1>0
  <2> QED
    BY <2>1, CursorFields
<1> HIDE DEF m1
<1>2. m2 \in Controller /\ m2.shift = m.shift
  BY <1>0, <1>1, WriteFields
<1>3. ASSUME col + Length[msg.one] <= LINE, NEW a \in Addresses
      PROVE  m2.cells[a] = IF col <= a /\ a < col + Length[msg.one]
                             THEN <<msg.one, a - col + 1>> ELSE m.cells[a]
  <2>1. m1.address + Length[msg.one] <= 2 * LINE
    BY <1>0, <1>1, <1>3
  <2> QED
    BY <1>0, <1>1, <2>1, WriteCells
<1> HIDE DEF m2
<1>4. /\ m3 \in Controller /\ m3.cells = m2.cells /\ m3.shift = m.shift
      /\ m3.address = LINE + col
  <2>1. 1 * LINE + col = LINE + col
    BY <1>0
  <2> QED
    BY <1>2, <2>1, CursorFields
<1> HIDE DEF m3
<1>5. m4 \in Controller /\ m4.shift = m.shift
  BY <1>0, <1>4, WriteFields
<1>6. ASSUME col + Length[msg.two] <= LINE, NEW a \in Addresses
      PROVE  m4.cells[a] = IF LINE + col <= a /\ a < LINE + col + Length[msg.two]
                             THEN <<msg.two, a - (LINE + col) + 1>> ELSE m2.cells[a]
  <2>1. m3.address + Length[msg.two] <= 2 * LINE
    BY <1>0, <1>4, <1>6
  <2> QED
    BY <1>0, <1>4, <2>1, WriteCells
<1>7. PrintRows(m, col, msg) = m4
  BY DEF PrintRows, m1, m2, m3
<1> HIDE DEF m4
<1>8. ASSUME Fits(msg, col), NEW c \in 0..(LINE - 1)
      PROVE  /\ m4.cells[c] = Printed(m, col, msg.one, c, c)
             /\ m4.cells[LINE + c] = Printed(m, col, msg.two, c, LINE + c)
  <2>1. /\ col + Length[msg.one] <= LINE /\ col + Length[msg.two] <= LINE
        /\ c \in Addresses /\ LINE + c \in Addresses /\ c \in Nat
    BY <1>0, <1>8 DEF Fits, Addresses
  <2>2. m4.cells[c] = m2.cells[c]
    <3>1. ~(LINE + col <= c)
      BY <1>0
    <3> QED
      BY <1>6, <2>1, <3>1
  <2>3. m2.cells[LINE + c] = m.cells[LINE + c]
    <3>1. ~(LINE + c < col + Length[msg.one])
      BY <1>0, <2>1
    <3> QED
      BY <1>3, <2>1, <3>1
  <2>4. /\ LINE + col <= LINE + c <=> col <= c
        /\ LINE + c < LINE + col + Length[msg.two] <=> c < col + Length[msg.two]
        /\ LINE + c - (LINE + col) + 1 = c - col + 1
    BY <1>0
  <2>5. m2.cells[c] = Printed(m, col, msg.one, c, c)
    BY <1>3, <2>1 DEF Printed
  <2>6. m4.cells[LINE + c] = Printed(m, col, msg.two, c, LINE + c)
    <3>1. PICK b \in Addresses : b = LINE + c
      BY <2>1
    <3>2. m4.cells[b] = IF LINE + col <= b /\ b < LINE + col + Length[msg.two]
                          THEN <<msg.two, b - (LINE + col) + 1>> ELSE m2.cells[b]
      BY <1>6, <2>1
    <3>3. /\ LINE + col <= b <=> col <= c
          /\ b < LINE + col + Length[msg.two] <=> c < col + Length[msg.two]
          /\ b - (LINE + col) + 1 = c - col + 1
          /\ m2.cells[b] = m.cells[b]
      BY <1>0, <2>1, <2>3, <2>4, <3>1
    <3>4. m4.cells[b] = Printed(m, col, msg.two, c, b)
      BY <3>2, <3>3 DEF Printed
    <3> QED
      BY <3>1, <3>4
  <2> QED
    BY <2>2, <2>5, <2>6
<1> QED
  BY <1>5, <1>7, <1>8

\* A place of the window that is not shifted past the end of the row.
LEMMA SeenAt ==
  ASSUME NEW m \in Controller, NEW col \in Nat, m.shift + col < LINE
  PROVE  /\ Seen(m, 0, col) = m.cells[m.shift + col]
         /\ Seen(m, 1, col) = m.cells[LINE + (m.shift + col)]
<1>1. LINE \in Nat \ {0} /\ m.shift + col \in Nat /\ m.shift \in Nat
  BY DisplayAssumption, ControllerFields
<1>2. (m.shift + col) % LINE = m.shift + col
  BY <1>1, RemainderSmall
<1>3. 0 * LINE + (m.shift + col) = m.shift + col /\ 1 * LINE = LINE
  BY <1>1
<1> QED
  BY <1>2, <1>3 DEF Seen

\* Shows, of any state of the controller.
ShowsOn(m, msg) ==
  LET cell(t, col) == IF col < Length[t] THEN <<t, col + 1>> ELSE Blank
  IN  \A col \in 0..(COLUMNS - 1) :
        /\ Seen(m, 0, col) = cell(msg.one, col)
        /\ Seen(m, 1, col) = cell(msg.two, col)

\* On a cleared display a message that fits is all there is.
LEMMA PrintShows ==
  ASSUME NEW m \in Controller, NEW msg \in Message, Fits(msg, 0)
  PROVE  ShowsOn(PrintRows(Clear(m), 0, msg), msg)
<1> DEFINE n == PrintRows(Clear(m), 0, msg)
<1>0. 0 \in 0..(LINE - 1) /\ COLUMNS \in Nat /\ LINE \in Nat /\ COLUMNS < LINE
  BY DisplayAssumption
<1>1. n \in Controller /\ n.shift = 0
  BY <1>0, ClearFields, PrintFields
<1>2. ASSUME NEW c \in 0..(LINE - 1)
      PROVE  /\ n.cells[c] = Printed(Clear(m), 0, msg.one, c, c)
             /\ n.cells[LINE + c] = Printed(Clear(m), 0, msg.two, c, LINE + c)
  BY <1>0, ClearFields, PrintFields
<1> HIDE DEF n
<1>3. ASSUME NEW col \in 0..(COLUMNS - 1)
      PROVE  /\ Seen(n, 0, col) = IF col < Length[msg.one] THEN <<msg.one, col + 1>> ELSE Blank
             /\ Seen(n, 1, col) = IF col < Length[msg.two] THEN <<msg.two, col + 1>> ELSE Blank
  <2>1. /\ col \in 0..(LINE - 1) /\ col \in Nat /\ n.shift + col < LINE
        /\ n.shift + col = col /\ col - 0 + 1 = col + 1
        /\ col \in Addresses /\ LINE + col \in Addresses
    BY <1>0, <1>1 DEF Addresses
  <2>2. Seen(n, 0, col) = n.cells[col] /\ Seen(n, 1, col) = n.cells[LINE + col]
    BY <1>1, <2>1, SeenAt
  <2>3. Clear(m).cells[col] = Blank /\ Clear(m).cells[LINE + col] = Blank
    BY <2>1, ClearFields
  <2>4. Length[msg.one] \in Nat /\ Length[msg.two] \in Nat
    BY DisplayAssumption DEF Message
  <2> QED
    <3>1. ASSUME NEW t \in Texts, NEW a \in {col, LINE + col}
          PROVE  Printed(Clear(m), 0, t, col, a) =
                   IF col < Length[t] THEN <<t, col + 1>> ELSE Blank
      <4>1. 0 <= col /\ 0 + Length[t] = Length[t] /\ Clear(m).cells[a] = Blank
        BY <2>1, <2>3, DisplayAssumption
      <4> QED
        BY <2>1, <4>1, Zenon DEF Printed
    <3>2. msg.one \in Texts /\ msg.two \in Texts
      BY DEF Message
    <3>3. /\ n.cells[col] = Printed(Clear(m), 0, msg.one, col, col)
          /\ n.cells[LINE + col] = Printed(Clear(m), 0, msg.two, col, LINE + col)
      BY <1>2, <2>1
    <3> QED
      BY <2>2, <3>1, <3>2, <3>3
<1> QED
  BY <1>3 DEF ShowsOn, n

-----------------------------------------------------------------------------
(* The inductive invariant.                                                *)

\* During a scroll message both rows are in the cells right of the window, the
\* window is where the counter is until a whole row has passed, and the
\* characters that have reached the last column have been seen.
ScrollInv ==
  (pc = "scroll" /\ Fits(message, SCROLL_START_POSITION)) =>
    /\ \A k \in 1..Length[message.one] :
         lcd.cells[COLUMNS + k] = <<message.one, k>>
    /\ \A k \in 1..Length[message.two] :
         lcd.cells[LINE + (COLUMNS + k)] = <<message.two, k>>
    /\ pos < LINE => lcd.shift = pos
    /\ \A k \in 1..Length[message.one] : k < pos => <<0, <<message.one, k>>>> \in passed
    /\ \A k \in 1..Length[message.two] : k < pos => <<1, <<message.two, k>>>> \in passed

DisplayInv == DisplayTypeOK /\ FlashInView /\ ScrollInv

LEMMA Sizes ==
  /\ LINE \in Nat \ {0} /\ COLUMNS \in Nat \ {0} /\ SCROLL_LENGTH \in Nat
  /\ 0 \in 0..(LINE - 1) /\ SCROLL_START_POSITION \in 0..(LINE - 1)
  /\ COLUMNS < LINE /\ SCROLL_START_POSITION = COLUMNS + 1
  /\ NoMessage \in Message
BY DisplayAssumption DEF SCROLL_START_POSITION, NoMessage, Message

LEMMA WindowType == ASSUME NEW m PROVE InWindow(m) \subseteq (0..1) \X Chars
BY DEF InWindow

LEMMA DisplayInitInv == DisplayInit => DisplayInv
<1> SUFFICES ASSUME DisplayInit PROVE DisplayInv
  OBVIOUS
<1>1. lcd \in Controller
  <2>1. 0 \in Addresses /\ 0 \in 0..(LINE - 1)
    BY DisplayAssumption DEF Addresses
  <2>2. [a \in Addresses |-> Blank] \in [Addresses -> Chars \cup {Blank}]
    OBVIOUS
  <2> QED
    BY <2>1, <2>2 DEF DisplayInit, Controller
<1>2. pos \in 0..SCROLL_LENGTH
  BY Sizes DEF DisplayInit
<1> QED
  BY <1>1, <1>2, Sizes DEF DisplayInit, DisplayInv, DisplayTypeOK, FlashInView, ScrollInv

\* A call that ends, or a step between the calls: whatever it prints.
LEMMA QuietInv ==
  ASSUME DisplayInv, pc' \in {"off", "idle"}, lcd' \in Controller, sticky' \in Message,
         message' \in Message, pos' \in 0..SCROLL_LENGTH,
         passed' = {} \/ passed' = passed
  PROVE  DisplayInv'
BY DEF DisplayInv, DisplayTypeOK, FlashInView, ScrollInv

LEMMA PrintsSticky ==
  ASSUME lcd \in Controller, NEW msg \in Message, ShowSticky(Clear(lcd), msg)
  PROVE  lcd' \in Controller /\ (Fits(msg, 0) => ShowsOn(lcd', msg))
BY Sizes, ClearFields, PrintFields, PrintShows DEF ShowSticky

LEMMA BetweenInv ==
  ASSUME DisplayInv,
         \/ Construct \/ EndFlash \/ EndScroll \/ ClearDisplay \/ DisplayRestart
         \/ \E msg \in Message : DisplaySticky(msg)
  PROVE  DisplayInv'
<1>0. lcd \in Controller /\ sticky \in Message /\ message \in Message /\ pos \in 0..SCROLL_LENGTH
  BY DEF DisplayInv, DisplayTypeOK
<1>1. 0 \in 0..SCROLL_LENGTH
  BY Sizes
<1>2. CASE Construct
  <2>1. lcd' \in Controller
    BY <1>0, <1>2, Sizes, PrintsSticky DEF Construct
  <2> QED
    BY <1>0, <1>2, <2>1, Sizes, QuietInv DEF Construct
<1>3. CASE EndFlash
  <2>1. lcd' \in Controller
    BY <1>0, <1>3, PrintsSticky DEF EndFlash
  <2> QED
    BY <1>0, <1>3, <2>1, Sizes, QuietInv DEF EndFlash
<1>4. CASE EndScroll
  <2>1. lcd' \in Controller
    BY <1>0, <1>4, PrintsSticky DEF EndScroll
  <2> QED
    BY <1>0, <1>1, <1>4, <2>1, Sizes, QuietInv DEF EndScroll
<1>5. CASE ClearDisplay
  <2>1. lcd' \in Controller
    BY <1>0, <1>5, ClearFields DEF ClearDisplay
  <2> QED
    BY <1>0, <1>5, <2>1, QuietInv DEF ClearDisplay
<1>6. CASE DisplayRestart
  BY <1>0, <1>1, <1>6, Sizes, QuietInv DEF DisplayRestart
<1>7. ASSUME NEW msg \in Message, DisplaySticky(msg)
      PROVE  DisplayInv'
  <2>1. lcd' \in Controller
    BY <1>0, <1>7, PrintsSticky DEF DisplaySticky
  <2> QED
    BY <1>0, <1>7, <2>1, QuietInv DEF DisplaySticky
<1> QED
  BY <1>2, <1>3, <1>4, <1>5, <1>6, <1>7

LEMMA FlashInv ==
  ASSUME DisplayInv, NEW msg \in Message, DisplayFlash(msg)
  PROVE  DisplayInv'
<1>1. lcd \in Controller
  BY DEF DisplayInv, DisplayTypeOK
<1>2. lcd' \in Controller /\ (Fits(msg, 0) => ShowsOn(lcd', msg))
  BY <1>1, Sizes, ClearFields, PrintFields, PrintShows DEF DisplayFlash
<1>3. FlashInView'
  BY <1>2 DEF DisplayFlash, FlashInView, Shows, ShowsOn, Fits
<1> QED
  BY <1>2, <1>3 DEF DisplayInv, DisplayTypeOK, ScrollInv, DisplayFlash

\* The first step of a scroll message: the text is right of the window.
LEMMA BeginScrollInv ==
  ASSUME DisplayInv, NEW msg \in Message, DisplayScroll(msg)
  PROVE  DisplayInv'
<1> DEFINE n == PrintRows(Clear(lcd), SCROLL_START_POSITION, msg)
<1>0. /\ lcd \in Controller /\ pc' = "scroll" /\ message' = msg /\ pos' = 0 /\ lcd' = n
      /\ passed' = InWindow(lcd') /\ sticky' \in Message
  BY DEF DisplayInv, DisplayTypeOK, DisplayScroll
<1>1. n \in Controller /\ n.shift = 0
  BY <1>0, Sizes, ClearFields, PrintFields
<1>2. DisplayTypeOK'
  BY <1>0, <1>1, Sizes, WindowType DEF DisplayTypeOK
<1>3. ASSUME Fits(msg, SCROLL_START_POSITION)
      PROVE  /\ \A k \in 1..Length[msg.one] : n.cells[COLUMNS + k] = <<msg.one, k>>
             /\ \A k \in 1..Length[msg.two] :
                  n.cells[LINE + (COLUMNS + k)] = <<msg.two, k>>
  <2>0. /\ msg.one \in Texts /\ msg.two \in Texts
        /\ Length[msg.one] \in Nat /\ Length[msg.two] \in Nat
        /\ Length[msg.one] + (COLUMNS + 1) <= LINE /\ Length[msg.two] + (COLUMNS + 1) <= LINE
    BY <1>3, Sizes, DisplayAssumption DEF Message, Fits
  <2>1. ASSUME NEW t \in {msg.one, msg.two}, NEW k \in 1..Length[t], NEW a
        PROVE  /\ COLUMNS + k \in 0..(LINE - 1)
               /\ Printed(Clear(lcd), SCROLL_START_POSITION, t, COLUMNS + k, a) = <<t, k>>
    <3>1. /\ COLUMNS + 1 <= COLUMNS + k /\ COLUMNS + k < COLUMNS + 1 + Length[t]
          /\ COLUMNS + k - (COLUMNS + 1) + 1 = k /\ COLUMNS + k \in 0..(LINE - 1)
      BY <2>0, Sizes
    <3>2. /\ SCROLL_START_POSITION \in Nat /\ COLUMNS + k \in Nat /\ t \in Texts
          /\ COLUMNS + k = SCROLL_START_POSITION + k - 1
      BY <2>0, <3>1, Sizes
    <3>3. Printed(Clear(lcd), SCROLL_START_POSITION, t, COLUMNS + k, a) = <<t, k>>
      BY <3>2, PrintedThere
    <3> QED
      BY <3>1, <3>3
  <2>2. \A c \in 0..(LINE - 1) :
          /\ n.cells[c] = Printed(Clear(lcd), SCROLL_START_POSITION, msg.one, c, c)
          /\ n.cells[LINE + c] =
               Printed(Clear(lcd), SCROLL_START_POSITION, msg.two, c, LINE + c)
    BY <1>0, <1>3, Sizes, ClearFields, PrintFields
  <2> QED
    BY <2>1, <2>2
<1> HIDE DEF n
<1>4. ScrollInv'
  <2>1. \A t \in Texts : \A k \in 1..Length[t] : ~(k < 0)
    BY DisplayAssumption
  <2>2. msg.one \in Texts /\ msg.two \in Texts
    BY DEF Message
  <2> QED
    BY <1>0, <1>1, <1>3, <2>1, <2>2 DEF ScrollInv, Fits
<1>5. FlashInView'
  BY <1>0 DEF FlashInView
<1> QED
  BY <1>2, <1>4, <1>5 DEF DisplayInv

\* One column further: the character in the last column is new in the window.
LEMMA ScrollStepInv ==
  ASSUME DisplayInv, Scroll
  PROVE  DisplayInv'
<1>0. /\ pc = "scroll" /\ pc' = "scroll" /\ pos < SCROLL_LENGTH /\ pos' = pos + 1
      /\ lcd' = ScrollDisplayLeft(lcd) /\ passed' = passed \cup InWindow(lcd')
      /\ UNCHANGED <<sticky, message>>
      /\ lcd \in Controller /\ sticky \in Message /\ message \in Message
      /\ pos \in 0..SCROLL_LENGTH /\ pos \in Nat /\ passed \subseteq (0..1) \X Chars
  BY Sizes DEF Scroll, ScrollOn, DisplayInv, DisplayTypeOK
<1>1. /\ lcd' \in Controller /\ lcd'.cells = lcd.cells
      /\ lcd'.shift = (lcd.shift + 1) % LINE
  <2>1. lcd.shift + 1 \in Nat
    BY <1>0, ControllerFields
  <2>2. (lcd.shift + 1) % LINE \in 0..(LINE - 1)
    BY <2>1, Sizes, RemainderSmall
  <2> QED
    BY <1>0, <2>2 DEF ScrollDisplayLeft, Controller
<1>2. DisplayTypeOK'
  BY <1>0, <1>1, Sizes, WindowType DEF DisplayTypeOK
<1>3. ASSUME Fits(message, SCROLL_START_POSITION)
      PROVE  /\ pos' < LINE => lcd'.shift = pos'
             /\ \A k \in 1..Length[message.one] : k < pos' => <<0, <<message.one, k>>>> \in passed'
             /\ \A k \in 1..Length[message.two] : k < pos' => <<1, <<message.two, k>>>> \in passed'
  <2>0. /\ message.one \in Texts /\ message.two \in Texts
        /\ Length[message.one] \in Nat /\ Length[message.two] \in Nat
        /\ Length[message.one] + (COLUMNS + 1) <= LINE
        /\ Length[message.two] + (COLUMNS + 1) <= LINE
    BY <1>0, <1>3, Sizes, DisplayAssumption DEF Message, Fits
  <2>1. /\ \A k \in 1..Length[message.one] : lcd'.cells[COLUMNS + k] = <<message.one, k>>
        /\ \A k \in 1..Length[message.two] :
             lcd'.cells[LINE + (COLUMNS + k)] = <<message.two, k>>
        /\ pos < LINE => lcd.shift = pos
        /\ \A k \in 1..Length[message.one] : k < pos => <<0, <<message.one, k>>>> \in passed
        /\ \A k \in 1..Length[message.two] : k < pos => <<1, <<message.two, k>>>> \in passed
    BY <1>0, <1>1, <1>3 DEF DisplayInv, ScrollInv
  <2>2. pos' < LINE => lcd'.shift = pos'
    <3> SUFFICES ASSUME pos' < LINE PROVE lcd'.shift = pos'
      OBVIOUS
    <3>1. pos < LINE /\ pos + 1 \in Nat /\ pos + 1 < LINE
      BY <1>0, Sizes
    <3>2. (pos + 1) % LINE = pos + 1
      BY <3>1, Sizes, RemainderSmall
    <3> QED
      BY <1>0, <1>1, <2>1, <3>1, <3>2
  <2>3. ASSUME NEW k \in Nat, k = pos, k + (COLUMNS + 1) <= LINE
        PROVE  /\ Seen(lcd', 0, COLUMNS - 1) = lcd'.cells[COLUMNS + k]
               /\ Seen(lcd', 1, COLUMNS - 1) = lcd'.cells[LINE + (COLUMNS + k)]
    <3>1. /\ COLUMNS - 1 \in Nat /\ lcd'.shift = k + 1
          /\ lcd'.shift + (COLUMNS - 1) = COLUMNS + k /\ lcd'.shift + (COLUMNS - 1) < LINE
      BY <1>0, <2>2, <2>3, Sizes
    <3> QED
      BY <1>1, <3>1, SeenAt
  <2>4. \A row \in 0..1 : Seen(lcd', row, COLUMNS - 1) \in Chars =>
          <<row, Seen(lcd', row, COLUMNS - 1)>> \in InWindow(lcd')
    <3>1. COLUMNS - 1 \in 0..(COLUMNS - 1)
      BY Sizes
    <3> QED
      BY <3>1 DEF InWindow
  <2>5. ASSUME NEW k \in 1..Length[message.one], k < pos'
        PROVE  <<0, <<message.one, k>>>> \in passed'
    <3>1. CASE k < pos
      BY <1>0, <2>1, <3>1
    <3>2. CASE ~(k < pos)
      <4>1. k \in Nat /\ k = pos /\ k + (COLUMNS + 1) <= LINE
        BY <1>0, <2>0, <2>5, <3>2, Sizes
      <4>2. Seen(lcd', 0, COLUMNS - 1) = <<message.one, k>>
        BY <2>1, <2>3, <4>1
      <4>3. <<message.one, k>> \in Chars
        BY <2>0 DEF Chars
      <4> QED
        BY <1>0, <2>4, <4>2, <4>3
    <3> QED
      BY <3>1, <3>2
  <2>6. ASSUME NEW k \in 1..Length[message.two], k < pos'
        PROVE  <<1, <<message.two, k>>>> \in passed'
    <3>1. CASE k < pos
      BY <1>0, <2>1, <3>1
    <3>2. CASE ~(k < pos)
      <4>1. k \in Nat /\ k = pos /\ k + (COLUMNS + 1) <= LINE
        BY <1>0, <2>0, <2>6, <3>2, Sizes
      <4>2. Seen(lcd', 1, COLUMNS - 1) = <<message.two, k>>
        BY <2>1, <2>3, <4>1
      <4>3. <<message.two, k>> \in Chars
        BY <2>0 DEF Chars
      <4> QED
        BY <1>0, <2>4, <4>2, <4>3
    <3> QED
      BY <3>1, <3>2
  <2> QED
    BY <2>2, <2>5, <2>6
<1>4. ScrollInv'
  BY <1>0, <1>1, <1>3 DEF DisplayInv, ScrollInv, Fits
<1>5. FlashInView'
  BY <1>0 DEF FlashInView
<1> QED
  BY <1>2, <1>4, <1>5 DEF DisplayInv

LEMMA DisplayNextInv == DisplayInv /\ [DisplayNext]_displayVars => DisplayInv'
<1> SUFFICES ASSUME DisplayInv, [DisplayNext]_displayVars PROVE DisplayInv'
  OBVIOUS
<1>1. CASE UNCHANGED displayVars
  BY <1>1 DEF displayVars, DisplayInv, DisplayTypeOK, FlashInView, Shows, Fits, ScrollInv, Seen
<1>2. CASE DisplayNext
  BY <1>2, BetweenInv, FlashInv, BeginScrollInv, ScrollStepInv DEF DisplayNext, DisplaySteps
<1> QED
  BY <1>1, <1>2

-----------------------------------------------------------------------------
(* Theorems.                                                               *)

\* Every variable of the display keeps its type: no text, however long, writes
\* past the memory of the controller (displayStickyMessage and the others).
THEOREM DisplayTypeCorrect == DisplaySpec => []DisplayTypeOK
<1>1. DisplayInv => DisplayTypeOK
  BY DEF DisplayInv
<1> QED
  BY <1>1, DisplayInitInv, DisplayNextInv, PTL DEF DisplaySpec

\* A flash message that fits a row is in the window, alone, for as long as
\* displayFlashMessage waits.
THEOREM FlashSeen == DisplaySpec => []FlashInView
<1>1. DisplayInv => FlashInView
  BY DEF DisplayInv
<1> QED
  BY <1>1, DisplayInitInv, DisplayNextInv, PTL DEF DisplaySpec

\* Whenever displayText returns, from a sticky, a flash or a scroll message, or the
\* constructor does, the display shows the sticky message and nothing else,
\* whatever was shown before and however far the window had moved.
THEOREM StickyComesBack == DisplaySpec => StickyReturns
<1>1. DisplayInv /\ [DisplayNext]_displayVars =>
        [(pc' = "idle" /\ ~ClearDisplay /\ Fits(sticky', 0)) => Shows(sticky)']_displayVars
  <2> SUFFICES ASSUME DisplayInv, DisplayNext, pc' = "idle", ~ClearDisplay, Fits(sticky', 0)
               PROVE  Shows(sticky)'
    BY DEF displayVars
  <2>0. lcd \in Controller /\ sticky \in Message
    BY DEF DisplayInv, DisplayTypeOK
  <2>1. sticky' \in Message /\ ShowSticky(Clear(lcd), sticky')
    <3>1. NoMessage \in Message
      BY Sizes DEF NoMessage, Message
    <3>2. Construct \/ EndFlash \/ EndScroll \/ \E msg \in Message : DisplaySticky(msg)
      BY DEF DisplayNext, DisplaySteps, Scroll, ScrollOn, DisplayFlash, DisplayScroll,
             DisplayRestart
    <3>3. CASE Construct
      BY <3>1, <3>3 DEF Construct
    <3>4. CASE EndFlash
      BY <2>0, <3>4 DEF EndFlash
    <3>5. CASE EndScroll
      BY <2>0, <3>5 DEF EndScroll
    <3>6. CASE \E msg \in Message : DisplaySticky(msg)
      BY <3>6 DEF DisplaySticky
    <3> QED
      BY <3>2, <3>3, <3>4, <3>5, <3>6
  <2>2. ShowsOn(lcd', sticky')
    BY <2>0, <2>1, PrintsSticky
  <2> QED
    BY <2>2 DEF Shows, ShowsOn
<1> QED
  BY <1>1, DisplayInitInv, DisplayNextInv, PTL DEF DisplaySpec, StickyReturns

\* If a scroll message takes as many steps as a row is wider than the window,
\* each of its characters has been in the window when it is taken down: the
\* 32 steps of displayScrollMessage are enough for 16 columns of 40.
THEOREM ScrollIsSeen ==
  ASSUME SCROLL_LENGTH >= LINE - COLUMNS
  PROVE  DisplaySpec => ScrollShowsAll
<1> DEFINE AllPassed ==
      /\ \A k \in 1..Length[message.one] : <<0, <<message.one, k>>>> \in passed
      /\ \A k \in 1..Length[message.two] : <<1, <<message.two, k>>>> \in passed
<1>1. DisplayInv /\ [DisplayNext]_displayVars =>
        [(pc = "scroll" /\ pc' = "idle" /\ Fits(message, SCROLL_START_POSITION)) =>
           AllPassed]_displayVars
  <2> SUFFICES ASSUME DisplayInv, DisplayNext, pc = "scroll", pc' = "idle",
                      Fits(message, SCROLL_START_POSITION)
               PROVE  AllPassed
    BY DEF displayVars
  <2>1. ~(pos < SCROLL_LENGTH) /\ pos \in Nat /\ message \in Message
    BY Sizes
       DEF DisplayNext, DisplaySteps, Construct, EndFlash, EndScroll, Scroll, ScrollOn,
           DisplaySticky, DisplayFlash, DisplayScroll, ClearDisplay, DisplayRestart,
           DisplayInv, DisplayTypeOK
  <2>2. \A t \in {message.one, message.two} : \A k \in 1..Length[t] : k < pos
    <3>1. \A t \in {message.one, message.two} :
            Length[t] \in Nat /\ Length[t] + (COLUMNS + 1) <= LINE
      BY <2>1, Sizes, DisplayAssumption DEF Message, Fits
    <3> QED
      BY <2>1, <3>1, Sizes
  <2> QED
    BY <2>2 DEF DisplayInv, ScrollInv
<1> QED
  BY <1>1, DisplayInitInv, DisplayNextInv, PTL DEF DisplaySpec, ScrollShowsAll
=============================================================================
