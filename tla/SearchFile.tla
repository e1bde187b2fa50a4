----------------------------- MODULE SearchFile -----------------------------
(***************************************************************************)
(* The search through a whole file (action_move_cursor_next_search and     *)
(* action_move_cursor_prev_search of src/actions.c): page after page, each *)
(* with a margin on both sides, to one end of the file and then from the   *)
(* other end on; beside it a thread that shows how far it is and lets the  *)
(* user cancel it.  The two share search_data, on the stack of the search. *)
(*                                                                         *)
(* Which bytes match is left to module Search: here a file has a set of    *)
(* addresses at which a match of a given length begins.                    *)
(***************************************************************************)
EXTENDS Integers, FiniteSetsExt

CONSTANTS
  Sizes,    \* bound: the file sizes
  Lengths,  \* bound: the lengths of a match
  Page,     \* LONG_SEARCH_BUF_SIZE
  Margin,   \* user_prefs[MAX_MATCH]
  Polls,    \* the tenths of a second before the box is shown, 5 in the code
  Slips     \* what the code has no answer for, see below

\* "first": a search backwards from the first byte, which frees a search_aid
\* never filled; "last": a search forwards from a match of the last byte, which
\* goes on behind the buffer.
AllSlips == {"first", "last"}

ASSUME SearchFileAssumption ==
  /\ Sizes \subseteq Nat /\ Lengths \subseteq Nat \ {0}
  /\ Margin \in Nat /\ Page \in Nat /\ Page > Margin
  /\ Polls \in Nat \ {0} /\ Slips \subseteq AllSlips

VARIABLES
  size,    \* display_info.file_size
  match,   \* where a match begins
  length,  \* how long it is
  cursor,  \* display_info.cursor_addr
  asked,   \* the search asked for: the direction, the cursor then, the nearest address that will do
  pc,      \* where the search is
  leg,     \* 1 up to the end of the file, 2 from the other end on
  addr,
  read,    \* read_size
  data,    \* search_data
  result,  \* what the search came to
  thread,  \* where the thread is
  polls,   \* how often it has looked
  esc,     \* its c is ESC
  percent  \* its complete

file == <<size, match, length>>
main == <<cursor, asked, pc, leg, addr, read, result>>
status == <<thread, polls, esc, percent>>
vars == <<file, main, data, status>>

AddressInvalid(a) == a \notin 0 .. size - 1

(***************************************************************************)
(* fill_search_buf                                                         *)
(***************************************************************************)
\* faulty: no margin, as if no match could cross the end of a page
InPageOnly(a, n) ==
  {m \in match : m >= a /\ m + length <= IF AddressInvalid(a + n) THEN size ELSE a + n}

\* the matches buf_search finds in the page of n bytes at address a
InBuf(a, n) ==
  LET first == IF AddressInvalid(a - Margin) THEN 0 ELSE a - Margin
      behind == IF AddressInvalid(a + n + Margin) THEN size ELSE a + n + Margin
  IN  {m \in match : m >= first /\ m + length <= behind}

NoHit == -1

\* SEARCH_FORWARD: the first match with an end point past the address
FirstIn(a, n) == Min({m \in InBuf(a, n) : m + length >= a} \cup {size + 1})

\* SEARCH_BACKWARD: the last match with a start point before the end of the page
LastIn(a, n) == Max({m \in InBuf(a, n) : m < a + n} \cup {NoHit})

(***************************************************************************)
(* Both searches.                                                          *)
(***************************************************************************)
\* faulty: the second leg is taken to start where the first did
LaunchAgain(from, to) ==
  /\ data' = [data EXCEPT !.current = from, !.end = to, !.abort = FALSE]
  /\ thread' = "poll" /\ polls' = 0 /\ esc' = FALSE /\ percent' = 0

\* search_data is set up and the thread created
Launch(from, to) ==
  /\ data' = [start |-> from, current |-> from, end |-> to, abort |-> FALSE]
  /\ thread' = "poll" /\ polls' = 0 /\ esc' = FALSE /\ percent' = 0

\* faulty: the thread is waited for but not told
StopUntold(outcome) == pc' = "join" /\ result' = outcome /\ UNCHANGED data

\* the end of a leg, at a match or without: the thread is told to end
Stop(outcome) ==
  /\ pc' = "join" /\ result' = outcome
  /\ data' = [data EXCEPT !.current = data.end]

\* place_cursor, which does not move to an address that is none
Place(hit) == cursor' = IF AddressInvalid(hit) THEN cursor ELSE hit

Found(hit) == Place(hit) /\ Stop("found")

\* faulty: the thread is left alone with search_data
JoinNot ==
  /\ pc = "join"
  /\ pc' = "idle"
  /\ UNCHANGED <<file, cursor, asked, leg, addr, read, result, data, status>>

\* the join, and what is done after it: return, or wrap.  Where the second leg
\* begins and ends is for the direction to say.  The message box of the wrap, which
\* waits for a key, is left out: no thread runs beside it, and that the search
\* goes on (SearchReturns) takes the key as given.
Join ==
  /\ pc = "join" /\ thread = "exit"
  /\ CASE result = "found" \/ (leg = 2 /\ ~data.abort) ->
            /\ pc' = "idle" /\ thread' = "none"
            /\ UNCHANGED <<result, leg, addr, read, data, polls, esc, percent>>
       [] result # "found" /\ data.abort ->
            /\ pc' = "idle" /\ thread' = "none" /\ result' = "aborted"
            /\ UNCHANGED <<leg, addr, read, data, polls, esc, percent>>
       [] OTHER ->
            /\ pc' = "seek" /\ leg' = 2 /\ read' = Page
            /\ addr' = IF asked.dir = "next" THEN 0 ELSE size
            /\ Launch(addr', cursor)
            /\ UNCHANGED result
  /\ UNCHANGED <<file, cursor, asked>>

(***************************************************************************)
(* action_move_cursor_next_search                                          *)
(***************************************************************************)
\* the first page, from the cursor, before there is a thread
NextSearch ==
  /\ pc = "idle"
  /\ "last" \in Slips \/ cursor # size - 1 \/ cursor \notin match
  /\ \E advance \in BOOLEAN, stray \in BOOLEAN :
       LET least == IF advance THEN cursor + 1 ELSE cursor
           beyond == {m \in {size} : stray /\ advance /\ cursor = size - 1 /\ cursor \in match}
           hits == {m \in InBuf(cursor, Page) : m >= least} \cup beyond
       IN  /\ asked' = [dir |-> "next", from |-> cursor, least |-> least]
           /\ leg' = 1 /\ read' = Page
           /\ IF hits # {}
              THEN /\ Place(Min(hits)) /\ result' = "found"
                   /\ UNCHANGED <<pc, addr, data, status>>
              ELSE /\ pc' = "seek" /\ addr' = cursor + Page /\ result' = "none"
                   /\ Launch(cursor, size) /\ UNCHANGED cursor
  /\ UNCHANGED file

\* one turn of the loops over the pages: the second leg ends at the cursor
NextTurn ==
  /\ pc = "seek" /\ asked.dir = "next"
  /\ LET more == IF leg = 1 THEN ~AddressInvalid(addr) ELSE addr <= cursor
         hit == FirstIn(addr, read)
     IN  CASE ~more \/ data.abort -> Stop("none") /\ UNCHANGED <<cursor, addr>>
           [] more /\ ~data.abort /\ hit <= (IF leg = 1 THEN size ELSE cursor) ->
                Found(hit) /\ UNCHANGED addr
           [] OTHER -> /\ data' = [data EXCEPT !.current = addr]
                       /\ addr' = addr + read
                       /\ UNCHANGED <<cursor, pc, result>>
  /\ UNCHANGED <<file, asked, leg, read, status>>

(***************************************************************************)
(* action_move_cursor_prev_search                                          *)
(***************************************************************************)
PrevSearch ==
  /\ pc = "idle"
  /\ "first" \in Slips \/ cursor > 0
  /\ asked' = [dir |-> "prev", from |-> cursor, least |-> cursor]
  /\ pc' = "seek" /\ leg' = 1 /\ addr' = cursor /\ read' = Page /\ result' = "none"
  /\ Launch(cursor, 0)
  /\ UNCHANGED <<file, cursor>>

\* one turn: a page of no bytes is not filled, but it is freed
PrevTurn ==
  /\ pc = "seek" /\ asked.dir = "prev"
  /\ LET low == IF leg = 1 THEN 0 ELSE cursor
         more == /\ IF leg = 1 THEN ~AddressInvalid(addr) ELSE addr >= cursor
                 /\ ~data.abort /\ read > 0
         n == IF addr - read < low THEN addr - low ELSE read
         hit == LastIn(addr - n, n)
     IN  CASE ~more -> Stop(result) /\ UNCHANGED <<cursor, addr, read>>
           [] more /\ n > 0 /\ hit # NoHit -> Found(hit) /\ UNCHANGED <<addr, read>>
           [] OTHER -> /\ data' = [data EXCEPT !.current = addr]
                       /\ addr' = addr - n /\ read' = n
                       /\ result' = IF n = 0 /\ addr = data.start THEN "wild" ELSE result
                       /\ UNCHANGED <<cursor, pc>>
  /\ UNCHANGED <<file, asked, leg, status>>

Work == NextTurn \/ PrevTurn \/ Join

(***************************************************************************)
(* search_status_update_thread                                             *)
(***************************************************************************)
Poll ==
  /\ thread = "poll"
  /\ polls' = polls + 1
  /\ thread' = CASE data.current = data.end -> "exit"
                 [] data.current # data.end /\ polls' < Polls -> "poll"
                 [] OTHER -> "test"
  /\ UNCHANGED <<file, main, data, esc, percent>>

Test ==
  /\ thread = "test"
  /\ thread' = IF data.current # data.end /\ ~esc THEN "draw" ELSE "close"
  /\ UNCHANGED <<file, main, data, polls, esc, percent>>

NoPercent == -1  \* a division by zero

\* backwards or forwards
Percent(part, whole) == (part * 100) \div whole
Complete ==
  IF data.start >= data.end THEN Percent(data.start - data.current, data.start - data.end)
                            ELSE Percent(data.current - data.start, data.end - data.start)

\* the box is drawn and the keys are read that have been pressed
Draw ==
  /\ thread = "draw"
  /\ percent' = IF data.start = data.end THEN NoPercent ELSE Complete
  /\ esc' \in BOOLEAN
  /\ thread' = "test"
  /\ UNCHANGED <<file, main, data, polls>>

Close ==
  /\ thread = "close"
  /\ data' = IF esc THEN [data EXCEPT !.abort = TRUE] ELSE data
  /\ thread' = "exit"
  /\ UNCHANGED <<file, main, polls, esc, percent>>

Status == Poll \/ Test \/ Draw \/ Close

(***************************************************************************)
(* The specification.  Both threads run when they can; nobody has to       *)
(* search, and ESC may never be pressed.                                   *)
(***************************************************************************)
Init ==
  /\ size \in Sizes /\ length \in Lengths
  /\ match \in SUBSET {m \in 0 .. size : m + length <= size}
  /\ cursor \in 0 .. size /\ (cursor < size \/ size = 0)
  /\ asked = [dir |-> "next", from |-> cursor, least |-> cursor]
  /\ pc = "idle" /\ leg = 1 /\ addr = 0 /\ read = Page /\ result = "idle"
  /\ data = [start |-> 0, current |-> 0, end |-> 0, abort |-> FALSE]
  /\ thread = "none" /\ polls = 0 /\ esc = FALSE /\ percent = 0

Next == NextSearch \/ PrevSearch \/ Work \/ Status

Fairness == WF_vars(Work) /\ WF_vars(Status)

Spec == Init /\ [][Next]_vars /\ Fairness

(***************************************************************************)
(* The properties.                                                         *)
(***************************************************************************)
\* the match nearest in the direction asked for, or the first from the other end
Target ==
  IF asked.dir = "next"
  THEN LET ahead == {m \in match : m >= asked.least}
       IN  Min(IF ahead # {} THEN ahead ELSE match)
  ELSE LET ahead == {m \in match : m < asked.from}
       IN  Max(IF ahead # {} THEN ahead ELSE match)

\* "n Search forward", "N Search backward": a search ends at the nearest match in
\* its direction, past the end of the file at the first one from the other end,
\* whatever page it lies in and however it lies across the end of one; it says
\* that there is none only of a file that has none; and it leaves the cursor
\* where it was and says so when it was cancelled, which only ESC does.
LandsNext ==
  pc = "idle" =>
    /\ result = "found" => match # {} /\ cursor = Target
    /\ result = "none" => match = {} /\ cursor = asked.from
    /\ result = "aborted" => esc /\ cursor = asked.from
    /\ result # "wild"

\* The thread never outlives search_data, which is on the stack of the search
\* that returns, nor sees the second leg set it up again.
DataAlive == pc = "idle" => thread = "none"

\* Whenever the thread computes its percentage, between the turns of the search
\* and without a lock, the divisor is not zero and the bar fits the box.
PercentInBox == percent \in 0 .. 100

\* Both legs of both searches come to their end, found or not, cancelled or not,
\* and the search is joined with its thread: the user gets the editor back.
SearchReturns == pc # "idle" ~> pc = "idle"
=============================================================================
