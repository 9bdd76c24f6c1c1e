----------------------------- MODULE LCDDisplay -----------------------------
(***************************************************************************)
(* The two-row display: sticky messages that stay, flash messages that are *)
(* shown for a second, scroll messages that pass by, on a character        *)
(* controller whose memory is wider than its window.                       *)
(*                                                                         *)
(* A delay() is a point where the device can restart.  The controller has  *)
(* a memory of its own, and what it shows outlives the restart.            *)
(***************************************************************************)
EXTENDS Integers, FiniteSetsExt

CONSTANTS
  COLUMNS,        \* LCD_COLUMNS: cells of a row in the window
  LINE,           \* cells of a row in the controller
  SCROLL_LENGTH,  \* steps of a scroll message
  Texts,          \* texts of a row
  Length,         \* the number of characters of each
  NoText,         \* the empty text
  Blank           \* a cell without a character

ASSUME DisplayAssumption ==
  /\ COLUMNS \in Nat \ {0}
  /\ LINE \in Nat /\ LINE > COLUMNS + 1
  /\ SCROLL_LENGTH \in Nat
  /\ Length \in [Texts -> Nat]
  /\ NoText \in Texts /\ Length[NoText] = 0

VARIABLES
  pc,       \* where displayText is: in a delay, or not running
  lcd,      \* the controller: cells, address of the next character, shift
  sticky,   \* m_stickyTextRowOne and m_stickyTextRowTwo
  message,  \* the arguments of the call in progress
  pos,      \* the loop counter of displayScrollMessage
  passed    \* history: what has been in the window during a scroll message

displayVars == <<pc, lcd, sticky, message, pos, passed>>

SCROLL_START_POSITION == COLUMNS + 1

Message == [one : Texts, two : Texts]
NoMessage == [one |-> NoText, two |-> NoText]

Addresses == 0..(2 * LINE - 1)
Chars == UNION {{<<t, k>> : k \in 1..Length[t]} : t \in Texts}
Controller ==
  [cells : [Addresses -> Chars \cup {Blank}], address : Addresses, shift : 0..(LINE - 1)]

DisplayTypeOK ==
  /\ pc \in {"off", "idle", "flash", "scroll"}
  /\ lcd \in Controller
  /\ sticky \in Message
  /\ message \in Message
  /\ pos \in 0..SCROLL_LENGTH
  /\ passed \subseteq (0..1) \X Chars

-----------------------------------------------------------------------------
(* The controller.                                                         *)

Clear(m) == [m EXCEPT !.cells = [a \in Addresses |-> Blank], !.address = 0, !.shift = 0]

SetCursor(m, col, row) == [m EXCEPT !.address = row * LINE + col]

\* The address after the last cell of one row is the first of the other.
Write(m, t) ==
  LET at(a) == {k \in 1..Length[t] : (m.address + k - 1) % (2 * LINE) = a}
  IN  [m EXCEPT
         !.cells = [a \in Addresses |-> IF at(a) = {} THEN @[a] ELSE <<t, Max(at(a))>>],
         !.address = (@ + Length[t]) % (2 * LINE)]

ScrollDisplayLeft(m) == [m EXCEPT !.shift = (@ + 1) % LINE]

PrintRows(m, col, msg) ==
  Write(SetCursor(Write(SetCursor(m, col, 0), msg.one), col, 1), msg.two)

\* What a reader sees at a place of the window.
Seen(m, row, col) == m.cells[row * LINE + ((m.shift + col) % LINE)]

\* The characters in the window, each with its row.
InWindow(m) ==
  {<<row, Seen(m, row, col)>> : row \in 0..1, col \in 0..(COLUMNS - 1)}
    \cap ((0..1) \X Chars)

-----------------------------------------------------------------------------
(* displayText.                                                            *)

\* Whatever the controller holds when the device is switched on for the first
\* time stays unseen: it is cleared before the first text.
DisplayInit ==
  /\ pc = "off"
  /\ lcd = [cells |-> [a \in Addresses |-> Blank], address |-> 0, shift |-> 0]
  /\ sticky = NoMessage
  /\ message = NoMessage
  /\ pos = 0
  /\ passed = {}

\* displayStickyMessage, the end of every call.
ShowSticky(m, msg) == lcd' = PrintRows(m, 0, msg)

\* The constructor: begin() clears, and an empty sticky message is shown.
Construct ==
  /\ pc = "off"
  /\ pc' = "idle"
  /\ sticky' = NoMessage
  /\ ShowSticky(Clear(lcd), NoMessage)
  /\ UNCHANGED <<message, pos, passed>>

\* A mutant of DisplaySticky: displayText does not clear what was there.
StickyUncleared(msg) ==
  /\ pc = "idle"
  /\ sticky' = msg
  /\ ShowSticky(lcd, msg)
  /\ UNCHANGED <<pc, message, pos, passed>>

\* A sticky message: no delay, so the call is one step.
DisplaySticky(msg) ==
  /\ pc = "idle"
  /\ sticky' = msg
  /\ ShowSticky(Clear(lcd), msg)
  /\ UNCHANGED <<pc, message, pos, passed>>

\* A mutant of DisplayFlash: displayText does not clear what was there.
FlashUncleared(msg) ==
  /\ pc = "idle"
  /\ pc' = "flash"
  /\ message' = msg
  /\ lcd' = PrintRows(lcd, 0, msg)
  /\ UNCHANGED <<sticky, pos, passed>>

\* displayFlashMessage up to its delay.
DisplayFlash(msg) ==
  /\ pc = "idle"
  /\ pc' = "flash"
  /\ message' = msg
  /\ lcd' = PrintRows(Clear(lcd), 0, msg)
  /\ UNCHANGED <<sticky, pos, passed>>

EndFlash ==
  /\ pc = "flash"
  /\ pc' = "idle"
  /\ message' = NoMessage
  /\ ShowSticky(Clear(lcd), sticky)
  /\ UNCHANGED <<sticky, pos, passed>>

\* displayScrollMessage up to its loop: the text starts right of the window.
DisplayScroll(msg) ==
  /\ pc = "idle"
  /\ pc' = "scroll"
  /\ message' = msg
  /\ pos' = 0
  /\ lcd' = PrintRows(Clear(lcd), SCROLL_START_POSITION, msg)
  /\ passed' = InWindow(lcd')
  /\ UNCHANGED sticky

\* A mutant of ScrollOn: scrolls once the width of the window.
ScrollOnce == pc = "scroll" /\ pos < COLUMNS

\* A mutant of ScrollOn: one step more.
ScrollOneMore == pc = "scroll" /\ pos <= SCROLL_LENGTH

ScrollOn == pc = "scroll" /\ pos < SCROLL_LENGTH

Scroll ==
  /\ ScrollOn
  /\ pos' = pos + 1
  /\ lcd' = ScrollDisplayLeft(lcd)
  /\ passed' = passed \cup InWindow(lcd')
  /\ UNCHANGED <<pc, sticky, message>>

EndScroll ==
  /\ pc = "scroll"
  /\ ~ScrollOn
  /\ pc' = "idle"
  /\ message' = NoMessage
  /\ pos' = 0
  /\ passed' = {}
  /\ ShowSticky(Clear(lcd), sticky)
  /\ UNCHANGED sticky

\* clearDisplay leaves the sticky message as it is: the next call that ends
\* shows it again.
ClearDisplay ==
  /\ pc = "idle"
  /\ lcd' = Clear(lcd)
  /\ UNCHANGED <<pc, sticky, message, pos, passed>>

\* The device restarts.  The controller keeps its cells and its shift.
DisplayRestart ==
  /\ pc # "off"
  /\ pc' = "off"
  /\ sticky' = NoMessage
  /\ message' = NoMessage
  /\ pos' = 0
  /\ passed' = {}
  /\ UNCHANGED lcd

DisplaySteps == Construct \/ EndFlash \/ Scroll \/ EndScroll

DisplayNext ==
  \/ DisplaySteps
  \/ \E msg \in Message : DisplaySticky(msg) \/ DisplayFlash(msg) \/ DisplayScroll(msg)
  \/ ClearDisplay
  \/ DisplayRestart

DisplaySpec == DisplayInit /\ [][DisplayNext]_displayVars

-----------------------------------------------------------------------------
(* Properties.                                                             *)

\* The window shows the beginning of both rows of msg and nothing else.
Shows(msg) ==
  LET cell(t, col) == IF col < Length[t] THEN <<t, col + 1>> ELSE Blank
  IN  \A col \in 0..(COLUMNS - 1) :
        /\ Seen(lcd, 0, col) = cell(msg.one, col)
        /\ Seen(lcd, 1, col) = cell(msg.two, col)

\* Both rows fit into the rows of the controller from that column on.
Fits(msg, col) == Length[msg.one] + col <= LINE /\ Length[msg.two] + col <= LINE

\* Whenever displayText returns, from a sticky, a flash or a scroll message, and
\* the constructor too, the display shows the sticky message: nothing of a flash or
\* scroll message, of an older sticky message or of the time before a restart is
\* left, and the window is back at the first column.  clearDisplay alone leaves the
\* display idle without it.
StickyReturns ==
  [][(pc' = "idle" /\ ~ClearDisplay /\ Fits(sticky', 0)) => Shows(sticky)']_displayVars

\* A flash message is in the window, alone, as long as it is up.
FlashInView == (pc = "flash" /\ Fits(message, 0)) => Shows(message)

\* Every character of a scroll message has passed through the window, in its
\* row, when the message is taken down (SCROLL_LENGTH is long enough for every
\* text that fits right of the window).
ScrollShowsAll ==
  [][(pc = "scroll" /\ pc' = "idle" /\ Fits(message, SCROLL_START_POSITION)) =>
       /\ \A k \in 1..Length[message.one] : <<0, <<message.one, k>>>> \in passed
       /\ \A k \in 1..Length[message.two] : <<1, <<message.two, k>>>> \in passed
    ]_displayVars
=============================================================================
