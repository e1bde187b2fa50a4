-------------------------- MODULE SearchFileProofs --------------------------
(***************************************************************************)
(* The search and its status thread, for files, pages and matches of every *)
(* size: search_data outlives the thread, and the percentage the thread    *)
(* computes without a lock is one.                                         *)
(***************************************************************************)
EXTENDS SearchFile, DataLemmas, SequencesExt, FiniteSetTheorems, WellFoundedInduction, SequenceTheorems

\* Min and Max, of sets that have them.
LEMMA MinIs ==
  ASSUME NEW S \in SUBSET Nat, S # {}
  PROVE  Min(S) \in S /\ \A y \in S : Min(S) <= y
  BY BottomIs DEF Bottom, Min

LEMMA MaxIs ==
  ASSUME NEW b \in Int, NEW S \in SUBSET Int, S # {}, \A x \in S : x <= b
  PROVE  Max(S) \in S /\ \A y \in S : y <= Max(S)
  BY TopIs DEF Top, Max

\* from here to there, in either direction
Span(x, y) == {z \in Int : (x <= z /\ z <= y) \/ (y <= z /\ z <= x)}

\* where the two legs of a search begin and end
Leg ==
  CASE asked.dir = "next" /\ leg = 1 -> data.start = cursor /\ data.end = size /\ addr >= cursor
    [] asked.dir = "next" /\ leg = 2 -> data.start = 0 /\ data.end = cursor /\ addr >= 0
    [] asked.dir = "prev" /\ leg = 1 -> data.start = cursor /\ data.end = 0 /\ addr \in 0 .. cursor
    [] OTHER -> data.start = size /\ data.end = cursor /\ addr \in cursor .. size

\* The inductive invariant: the thread is there while there is a search, the
\* progress lies between the two ends of the leg, and these differ once the
\* thread has found it to be short of the end.
SearchInv ==
  /\ size \in Nat /\ cursor \in 0 .. size
  /\ leg \in {1, 2} /\ asked.dir \in {"next", "prev"} /\ addr \in Int /\ read \in Nat
  /\ data \in [start : Nat, current : Nat, end : Nat, abort : BOOLEAN]
  /\ pc \in {"idle", "seek", "join"}
  /\ pc = "idle" <=> thread = "none"
  /\ pc = "seek" => Leg
  /\ data.current \in Span(data.start, data.end)
  /\ thread = "draw" => data.start # data.end
  /\ PercentInBox

\* A part of a whole is between none and all of it.
LEMMA PercentBound ==
  ASSUME NEW x \in Nat, NEW y \in Nat, x <= y, y # 0
  PROVE  Percent(x, y) \in 0 .. 100
  <1>1. (x * 100) \div y \in Int /\ y * ((x * 100) \div y) <= x * 100
        /\ x * 100 < y * ((x * 100) \div y) + y
    OBVIOUS
  <1> QED
    BY <1>1 DEF Percent

\* A leg begins, with its thread.
LEMMA LaunchKeepsData ==
  ASSUME NEW from \in Nat, NEW to \in Nat, Launch(from, to)
  PROVE  /\ data' \in [start : Nat, current : Nat, end : Nat, abort : BOOLEAN]
         /\ data'.start = from /\ data'.end = to
         /\ data'.current \in Span(data'.start, data'.end)
         /\ thread' = "poll" /\ PercentInBox'
  BY DEF Launch, Span, PercentInBox

\* A leg ends, the cursor on a match or where it was.
LEMMA StopKeepsInv ==
  ASSUME SearchInv, pc = "seek", NEW outcome, Stop(outcome),
         cursor' \in 0 .. size, addr' \in Int, read' \in Nat,
         UNCHANGED <<file, asked, leg, status>>
  PROVE  SearchInv'
  <1> USE DEF SearchInv, Stop, file, status
  <1>1. /\ data' \in [start : Nat, current : Nat, end : Nat, abort : BOOLEAN]
        /\ data'.start = data.start /\ data'.end = data.end /\ data'.current = data.end
    OBVIOUS
  <1>2. data'.current \in Span(data'.start, data'.end)
    BY <1>1 DEF Span
  <1> QED
    BY <1>1, <1>2 DEF PercentInBox

\* The cursor is put on a match, if there is one at a valid address.
LEMMA PlaceInFile ==
  ASSUME SearchInv, NEW hit, Place(hit)
  PROVE  cursor' \in 0 .. size
  BY DEF Place, AddressInvalid, SearchInv

LEMMA NextTurnKeepsInv == SearchInv /\ NextTurn => SearchInv'
  <1> SUFFICES ASSUME SearchInv, NextTurn PROVE SearchInv'
    OBVIOUS
  <1> DEFINE hit == FirstIn(addr, read)
  <1>1. pc = "seek" /\ UNCHANGED <<file, asked, leg, read, status>> /\ read \in Nat /\ addr \in Int
    BY DEF NextTurn, SearchInv
  <1>2. CASE Stop("none") /\ UNCHANGED <<cursor, addr>>
    BY <1>1, <1>2, StopKeepsInv DEF SearchInv
  <1>3. CASE Found(hit) /\ UNCHANGED addr
    BY <1>1, <1>3, StopKeepsInv, PlaceInFile DEF Found
  <1>4. CASE /\ (IF leg = 1 THEN ~AddressInvalid(addr) ELSE addr <= cursor)
             /\ data' = [data EXCEPT !.current = addr] /\ addr' = addr + read
             /\ UNCHANGED <<cursor, pc, result>>
    <2> USE <1>1, <1>4 DEF SearchInv, file, status
    <2>1. asked.dir = "next" BY DEF NextTurn
    <2>2. addr \in Nat /\ addr \in Span(data.start, data.end)
      BY <2>1 DEF Leg, Span, AddressInvalid
    <2>3. /\ data' \in [start : Nat, current : Nat, end : Nat, abort : BOOLEAN]
          /\ data'.start = data.start /\ data'.end = data.end /\ data'.current = addr
      BY <2>2
    <2>4. Leg'
      BY <2>1, <2>3 DEF Leg
    <2> QED
      BY <2>2, <2>3, <2>4 DEF PercentInBox, Span
  <1> QED
    BY <1>2, <1>3, <1>4 DEF NextTurn

LEMMA PrevTurnKeepsInv == SearchInv /\ PrevTurn => SearchInv'
  <1> SUFFICES ASSUME SearchInv, PrevTurn PROVE SearchInv'
    OBVIOUS
  <1> DEFINE low == IF leg = 1 THEN 0 ELSE cursor
             n == IF addr - read < low THEN addr - low ELSE read
             hit == LastIn(addr - n, n)
  <1>1. /\ pc = "seek" /\ UNCHANGED <<file, asked, leg, status>>
        /\ read \in Nat /\ addr \in Int /\ asked.dir = "prev"
    BY DEF PrevTurn, SearchInv
  <1>2. CASE Stop(result) /\ UNCHANGED <<cursor, addr, read>>
    BY <1>1, <1>2, StopKeepsInv DEF SearchInv
  <1>3. CASE Found(hit) /\ UNCHANGED <<addr, read>>
    BY <1>1, <1>3, StopKeepsInv, PlaceInFile DEF Found
  <1>4. CASE /\ data' = [data EXCEPT !.current = addr]
             /\ addr' = addr - n /\ read' = n
             /\ UNCHANGED <<cursor, pc>>
    <2> USE <1>1, <1>4 DEF SearchInv, file, status
    <2>1. addr \in Nat /\ addr \in Span(data.start, data.end)
      BY DEF Leg, Span
    <2>2. /\ data' \in [start : Nat, current : Nat, end : Nat, abort : BOOLEAN]
          /\ data'.start = data.start /\ data'.end = data.end /\ data'.current = addr
      BY <2>1
    <2>3. read' \in Nat /\ addr' \in Int /\ low <= addr' /\ addr' <= addr
      BY DEF Leg
    <2>4. Leg'
      BY <2>2, <2>3 DEF Leg
    <2> QED
      BY <2>1, <2>2, <2>3, <2>4 DEF PercentInBox, Span
  <1> QED
    BY <1>2, <1>3, <1>4 DEF PrevTurn

LEMMA JoinKeepsInv == SearchInv /\ Join => SearchInv'
  <1> SUFFICES ASSUME SearchInv, Join PROVE SearchInv'
    OBVIOUS
  <1> USE DEF SearchInv, file
  <1>1. pc = "join" /\ UNCHANGED <<size, cursor, asked>>
    BY DEF Join
  <1>2. CASE /\ pc' = "idle" /\ thread' = "none"
             /\ UNCHANGED <<leg, addr, read, data, percent>>
    BY <1>1, <1>2 DEF PercentInBox
  <1>3. CASE /\ pc' = "seek" /\ leg' = 2 /\ read' = Page
             /\ addr' = IF asked.dir = "next" THEN 0 ELSE size
             /\ Launch(addr', cursor)
    <2>1. addr' \in Nat /\ cursor \in Nat /\ read' \in Nat
      BY <1>3, SearchFileAssumption
    <2>2. /\ data' \in [start : Nat, current : Nat, end : Nat, abort : BOOLEAN]
          /\ data'.start = addr' /\ data'.end = cursor
          /\ data'.current \in Span(data'.start, data'.end)
          /\ thread' = "poll" /\ PercentInBox'
      BY <1>3, <2>1, LaunchKeepsData
    <2>3. Leg'
      BY <1>1, <1>3, <2>2 DEF Leg
    <2> QED
      BY <1>1, <1>3, <2>1, <2>2, <2>3
  <1> QED
    BY <1>2, <1>3 DEF Join

LEMMA NextSearchKeepsInv == SearchInv /\ NextSearch => SearchInv'
  <1> SUFFICES ASSUME SearchInv, NextSearch PROVE SearchInv'
    OBVIOUS
  <1> USE DEF SearchInv, file
  <1>1. /\ pc = "idle" /\ UNCHANGED <<size, match, length>> /\ leg' = 1 /\ read' = Page
        /\ asked'.dir = "next"
    BY DEF NextSearch
  <1>2. CASE (\E hit : Place(hit)) /\ UNCHANGED <<pc, addr, data, status>>
    BY <1>1, <1>2, PlaceInFile, SearchFileAssumption DEF status, PercentInBox
  <1>3. CASE pc' = "seek" /\ addr' = cursor + Page /\ Launch(cursor, size) /\ UNCHANGED cursor
    <2>1. addr' \in Nat /\ addr' >= cursor /\ cursor \in Nat /\ read' \in Nat
      BY <1>1, <1>3, SearchFileAssumption
    <2>2. /\ data' \in [start : Nat, current : Nat, end : Nat, abort : BOOLEAN]
          /\ data'.start = cursor /\ data'.end = size
          /\ data'.current \in Span(data'.start, data'.end)
          /\ thread' = "poll" /\ PercentInBox'
      BY <1>3, <2>1, LaunchKeepsData
    <2>3. Leg'
      BY <1>1, <1>3, <2>1, <2>2 DEF Leg
    <2> QED
      BY <1>1, <1>3, <2>1, <2>2, <2>3
  <1> QED
    BY <1>2, <1>3 DEF NextSearch

LEMMA PrevSearchKeepsInv == SearchInv /\ PrevSearch => SearchInv'
  <1> SUFFICES ASSUME SearchInv, PrevSearch PROVE SearchInv'
    OBVIOUS
  <1> USE DEF SearchInv, file, PrevSearch
  <1>1. cursor \in Nat /\ 0 \in Nat /\ read' \in Nat
    BY SearchFileAssumption
  <1>2. /\ data' \in [start : Nat, current : Nat, end : Nat, abort : BOOLEAN]
        /\ data'.start = cursor /\ data'.end = 0
        /\ data'.current \in Span(data'.start, data'.end)
        /\ thread' = "poll" /\ PercentInBox'
    BY <1>1, LaunchKeepsData
  <1>3. Leg'
    BY <1>1, <1>2 DEF Leg
  <1> QED
    BY <1>1, <1>2, <1>3

\* The steps of the thread, which writes nothing but abort.
LEMMA StatusKeepsInv == SearchInv /\ Status => SearchInv'
  <1> SUFFICES ASSUME SearchInv, Status PROVE SearchInv'
    OBVIOUS
  <1> USE DEF SearchInv, file, main
  <1>1. CASE Poll
    BY <1>1 DEF Poll, Leg, PercentInBox
  <1>2. CASE Test
    <2>1. thread' = "draw" => data.start # data.end
      BY <1>2 DEF Test, Span
    <2> QED
      BY <1>2, <2>1 DEF Test, Leg, PercentInBox
  <1>3. CASE Draw
    <2>1. data.start # data.end
      BY <1>3 DEF Draw
    <2>2. ASSUME data.start > data.end PROVE Complete \in 0 .. 100
      <3>1. /\ data.start - data.current \in Nat /\ data.start - data.end \in Nat
            /\ data.start - data.current <= data.start - data.end /\ data.start - data.end # 0
        BY <2>2 DEF Span
      <3>2. Percent(data.start - data.current, data.start - data.end) \in 0 .. 100
        BY <3>1, PercentBound
      <3> QED
        BY <2>2, <3>2 DEF Complete
    <2>3. ASSUME data.start < data.end PROVE Complete \in 0 .. 100
      <3>1. /\ data.current - data.start \in Nat /\ data.end - data.start \in Nat
            /\ data.current - data.start <= data.end - data.start /\ data.end - data.start # 0
        BY <2>3 DEF Span
      <3>2. Percent(data.current - data.start, data.end - data.start) \in 0 .. 100
        BY <3>1, PercentBound
      <3> QED
        BY <2>3, <3>2 DEF Complete
    <2>4. Complete \in 0 .. 100
      BY <2>1, <2>2, <2>3
    <2>5. PercentInBox'
      BY ONLY <1>3, <2>1, <2>4 DEF Draw, PercentInBox
    <2> QED
      BY <1>3, <2>5 DEF Draw, Leg
  <1>4. CASE Close
    <2>1. /\ data' \in [start : Nat, current : Nat, end : Nat, abort : BOOLEAN]
          /\ data'.start = data.start /\ data'.end = data.end /\ data'.current = data.current
      BY <1>4 DEF Close
    <2> QED
      BY <1>4, <2>1 DEF Close, Leg, PercentInBox
  <1> QED
    BY <1>1, <1>2, <1>3, <1>4 DEF Status

\* The inductive invariant; LaunchAgain and JoinNot break it.
THEOREM SearchInvariant == Spec => []SearchInv
  <1>1. Init => SearchInv
    BY SearchFileAssumption DEF Init, SearchInv, Span, PercentInBox
  <1>2. SearchInv /\ UNCHANGED vars => SearchInv'
    BY DEF SearchInv, vars, file, main, status, Leg, PercentInBox
  <1>3. SearchInv /\ [Next]_vars => SearchInv'
    BY <1>2, NextTurnKeepsInv, PrevTurnKeepsInv, JoinKeepsInv, NextSearchKeepsInv,
       PrevSearchKeepsInv, StatusKeepsInv DEF Next, Work
  <1> QED
    BY <1>1, <1>3, PTL DEF Spec

\* The status thread never outlives search_data, which lives on the stack of the
\* search, whatever the size of the file and of a page (pthread_join in
\* action_move_cursor_next_search and action_move_cursor_prev_search).
THEOREM SearchDataAlive == Spec => []DataAlive
  <1>1. SearchInv => DataAlive
    BY DEF SearchInv, DataAlive
  <1> QED
    BY <1>1, SearchInvariant, PTL

\* search_status_update_thread never divides by zero and never draws a bar longer
\* than its box, however its reads of search_data fall between the writes.
THEOREM PercentAlwaysInBox == Spec => []PercentInBox
  <1>1. SearchInv => PercentInBox
    BY DEF SearchInv
  <1> QED
    BY <1>1, SearchInvariant, PTL

(***************************************************************************)
(* Where a search ends.  A user who does not search backwards from the     *)
(* first byte nor forwards from a match of the last one, in a file whose   *)
(* matches are no longer than the margin lets a page see.                  *)
(***************************************************************************)
WithinMargin == Slips = {} /\ \A l \in Lengths : l <= Margin + 1

\* the matches in the direction asked for, and those this leg is after
Ahead == IF asked.dir = "next" THEN {m \in match : m >= asked.least}
                               ELSE {m \in match : m < asked.from}
Wanted == IF leg = 1 THEN Ahead ELSE match

\* None of them has been passed by.  The pages of a leg follow one another, and
\* those of a leg backwards shrink at its end.
NonePassed ==
  IF asked.dir = "next"
  THEN /\ read = Page
       /\ leg = 1 => addr >= asked.from + Page
       /\ addr = 0 \/ \A m \in Wanted : m + length > addr + Margin
  ELSE /\ \A m \in Wanted : m < addr
       /\ read = 0 => addr = IF leg = 1 THEN 0 ELSE cursor

FileInv ==
  /\ match \subseteq {m \in 0 .. size : m + length <= size}
  /\ length \in Lengths
  /\ cursor < size \/ size = 0
  /\ asked.from \in 0 .. size /\ asked.least \in {asked.from, asked.from + 1}

\* The inductive invariant, with SearchInv: a search that has found nothing has
\* not moved the cursor, it begins its second leg when the first had nothing to
\* find, and no match it wants has been passed by.
LandInv ==
  /\ FileInv
  /\ pc # "idle" => /\ result \in {"found", "none"}
                    /\ result # "found" => cursor = asked.from
                    /\ asked.dir = "prev" => asked.from > 0
                    /\ leg = 2 => Ahead = {}
  /\ data.abort => esc /\ thread \in {"exit", "none"}
  /\ pc = "seek" => result = "none" /\ NonePassed
  /\ pc = "join" /\ result = "found" => match # {} /\ cursor = Target
  /\ pc = "join" /\ result = "none" /\ ~data.abort => Wanted = {}
  /\ LandsNext

\* Matches are at addresses, and no longer than a page can see.
LEMMA MatchFits ==
  ASSUME WithinMargin, FileInv, size \in Nat
  PROVE  /\ match \in SUBSET Nat /\ length \in Nat /\ length >= 1 /\ length <= Margin + 1
         /\ \A m \in match : m + length <= size
         /\ size \in Nat /\ Margin \in Nat /\ Page \in Nat /\ Page > Margin
  BY SearchFileAssumption DEF WithinMargin, FileInv

\* A page holds the matches between its margins.
LEMMA InBufIs ==
  ASSUME WithinMargin, FileInv, size \in Nat, NEW a \in Nat, NEW n \in Nat, a - Margin < size
  PROVE  InBuf(a, n) = {m \in match : m >= a - Margin /\ m + length <= a + n + Margin}
  <1>1. \A m \in match : m \in Nat /\ m + length <= size
    BY MatchFits
  <1>2. size \in Nat /\ Margin \in Nat /\ length \in Nat
    BY MatchFits
  <1>3. ASSUME NEW m \in match
        PROVE  m >= (IF AddressInvalid(a - Margin) THEN 0 ELSE a - Margin) <=> m >= a - Margin
    BY <1>1, <1>2 DEF AddressInvalid
  <1>4. ASSUME NEW m \in match
        PROVE  m + length <= (IF AddressInvalid(a + n + Margin) THEN size ELSE a + n + Margin)
                 <=> m + length <= a + n + Margin
    BY <1>1, <1>2 DEF AddressInvalid
  <1> QED
    BY <1>3, <1>4 DEF InBuf

\* What comes first among all comes first among those up to a bound.
LEMMA FirstOfAll ==
  ASSUME NEW A \in SUBSET Nat, NEW S \in SUBSET A, S # {},
         \A m \in S, k \in A : k <= m => k \in S
  PROVE  Min(S) \in S /\ Min(S) = Min(A)
  <1>1. Min(S) \in S /\ \A k \in S : Min(S) <= k
    BY MinIs
  <1>2. Min(A) \in A /\ \A k \in A : Min(A) <= k
    BY MinIs
  <1>3. Min(A) <= Min(S) /\ Min(A) \in S
    BY <1>1, <1>2
  <1>4. Min(S) <= Min(A) /\ Min(S) \in Nat /\ Min(A) \in Nat
    BY <1>1, <1>3
  <1> QED
    BY <1>1, <1>3, <1>4

\* What comes last among all comes last among those from a bound on.
LEMMA LastOfAll ==
  ASSUME NEW b \in Nat, NEW A \in SUBSET Nat, \A k \in A : k <= b, NEW S \in SUBSET A, S # {},
         \A m \in S, k \in A : m <= k => k \in S
  PROVE  Max(S) \in S /\ Max(S) = Max(A)
  <1>1. Max(S) \in S /\ \A k \in S : k <= Max(S)
    <2>1. S \in SUBSET Int /\ b \in Int /\ \A k \in S : k <= b
      OBVIOUS
    <2> QED
      BY <2>1, MaxIs
  <1>2. Max(A) \in A /\ \A k \in A : k <= Max(A)
    <2>1. A # {}
      OBVIOUS
    <2>2. A \in SUBSET Int /\ b \in Int
      OBVIOUS
    <2> QED
      BY <2>1, <2>2, MaxIs
  <1>3. Max(S) <= Max(A) /\ Max(A) \in S
    BY <1>1, <1>2
  <1>4. Max(A) <= Max(S) /\ Max(S) \in Nat /\ Max(A) \in Nat
    BY <1>1, <1>3
  <1> QED
    BY <1>1, <1>3, <1>4

\* Searching forwards: what a page brings.
LEMMA NextHits ==
  ASSUME WithinMargin, SearchInv, LandInv, pc = "seek", asked.dir = "next",
         IF leg = 1 THEN ~AddressInvalid(addr) ELSE addr <= cursor
  PROVE  {m \in InBuf(addr, read) : m + length >= addr}
           = {m \in Wanted : m + length <= addr + Page + Margin}
  <1>1. FileInv /\ size \in Nat /\ cursor \in 0 .. size /\ addr \in Nat /\ read = Page
        /\ leg \in {1, 2} /\ cursor = asked.from
    BY DEF SearchInv, LandInv, NonePassed, Leg
  <1>2. /\ match \in SUBSET Nat /\ length \in Nat /\ length >= 1 /\ length <= Margin + 1
        /\ \A m \in match : m + length <= size
        /\ Margin \in Nat /\ Page \in Nat /\ Page > Margin
    BY <1>1, MatchFits
  <1>3. Wanted \subseteq match
    BY DEF Wanted, Ahead
  <1>4. CASE match = {}
    BY <1>3, <1>4 DEF InBuf
  <1>5. CASE match # {}
    <2>1. addr - Margin < size
      <3>1. PICK m \in match : TRUE
        BY <1>5
      <3>2. size # 0
        BY <1>1, <1>2, <3>1
      <3>3. addr < size
        BY <1>1, <3>2 DEF AddressInvalid, FileInv
      <3> QED
        BY <1>1, <1>2, <3>3
    <2>2. InBuf(addr, read) = {m \in match : m >= addr - Margin /\ m + length <= addr + Page + Margin}
      BY <1>1, <1>2, <2>1, InBufIs
    <2>3. ASSUME NEW m \in Wanted PROVE m >= addr - Margin /\ m + length >= addr
      <3>1. addr = 0 \/ m + length > addr + Margin
        BY <1>1 DEF LandInv, NonePassed
      <3>2. m \in Nat
        BY <1>2, <1>3
      <3> QED
        BY ONLY <1>1, <1>2, <3>1, <3>2
    <2>4. ASSUME NEW m \in match, m >= addr - Margin PROVE m \in Wanted
      <3>1. CASE leg = 2
        BY <3>1 DEF Wanted
      <3>2. CASE leg = 1
        <4>1. addr >= asked.from + Page /\ asked.least \in {asked.from, asked.from + 1}
          BY <3>2 DEF LandInv, NonePassed, FileInv
        <4>2. m >= asked.least
          BY <1>1, <1>2, <2>4, <4>1
        <4> QED
          BY <3>2, <4>2 DEF Wanted, Ahead
      <3> QED
        BY <1>1, <3>1, <3>2
    <2>5. \A m \in InBuf(addr, read) : m >= addr - Margin /\ m \in Wanted
      BY <2>2, <2>4
    <2> QED
      BY <1>3, <2>2, <2>3, <2>5
  <1> QED
    BY <1>4, <1>5

\* The first of them is the target, and ends the search.
LEMMA NextHit ==
  ASSUME WithinMargin, SearchInv, LandInv, pc = "seek", asked.dir = "next",
         IF leg = 1 THEN ~AddressInvalid(addr) ELSE addr <= cursor
  PROVE  IF \E m \in Wanted : m + length <= addr + Page + Margin
         THEN FirstIn(addr, read) \in match /\ FirstIn(addr, read) = Target
         ELSE FirstIn(addr, read) = size + 1
  <1> DEFINE hits == {m \in Wanted : m + length <= addr + Page + Margin}
  <1>1. FirstIn(addr, read) = Min(hits \cup {size + 1})
    BY NextHits DEF FirstIn
  <1>2. FileInv /\ size \in Nat /\ leg \in {1, 2}
    BY DEF SearchInv, LandInv
  <1>3. /\ match \in SUBSET Nat /\ \A m \in match : m + length <= size
        /\ length \in Nat /\ Margin \in Nat /\ Page \in Nat /\ addr \in Int
    BY <1>2, MatchFits DEF SearchInv
  <1>4. Wanted \subseteq match
    BY DEF Wanted, Ahead
  <1>5. CASE hits = {}
    <2>1. Min({size + 1}) = size + 1
      BY <1>2 DEF Min
    <2> QED
      BY <1>1, <1>5, <2>1
  <1>6. CASE hits # {}
    <2> DEFINE all == Wanted \cup {size + 1}
               some == hits \cup {size + 1}
    <2>1. Min(hits) \in hits /\ \A m \in hits : Min(hits) <= m
      <3>1. hits \in SUBSET Nat
        BY <1>3, <1>4
      <3> HIDE DEF hits
      <3> QED
        BY <1>6, <3>1, MinIs
    <2>2. Min(some) \in some /\ \A m \in some : Min(some) <= m
      <3>1. some \subseteq Nat
        <4>1. size + 1 \in Nat
          BY <1>2
        <4>2. hits \subseteq Nat
          BY <1>3, <1>4
        <4> HIDE DEF hits
        <4> QED
          BY <4>1, <4>2
      <3>2. some # {}
        OBVIOUS
      <3> HIDE DEF some
      <3> QED
        BY <3>1, <3>2, MinIs
    <2>3. \A m \in hits : m \in Nat /\ m <= size
      BY <1>2, <1>3, <1>4
    <2>4. Min(some) = Min(hits)
      <3>1. Min(some) <= Min(hits) /\ Min(hits) <= size
        BY <2>1, <2>2, <2>3
      <3>2. Min(some) \in hits
        BY <1>2, <2>1, <2>2, <2>3, <3>1
      <3>3. Min(hits) <= Min(some) /\ Min(hits) \in Nat /\ Min(some) \in Nat
        BY <2>1, <2>3, <3>2
      <3> HIDE DEF hits, some
      <3> QED
        BY <3>1, <3>3
    <2>5. Min(hits) \in hits /\ Min(hits) = Min(Wanted)
      <3>1. Wanted \in SUBSET Nat /\ hits \in SUBSET Wanted
        BY <1>3, <1>4
      <3>2. \A m \in hits, k \in Wanted : k <= m => k \in hits
        BY <1>3, <1>4
      <3> HIDE DEF hits
      <3> QED
        BY <1>6, <3>1, <3>2, FirstOfAll
    <2>6. Min(Wanted) = Target
      BY <1>2, <1>6 DEF Target, Wanted, Ahead, LandInv
    <2> QED
      BY <1>1, <1>4, <1>6, <2>4, <2>5, <2>6
  <1> QED
    BY <1>5, <1>6

LEMMA NextTurnLands == WithinMargin /\ SearchInv /\ LandInv /\ NextTurn => LandInv'
  <1> SUFFICES ASSUME WithinMargin, SearchInv, LandInv, NextTurn PROVE LandInv'
    OBVIOUS
  <1> DEFINE more == IF leg = 1 THEN ~AddressInvalid(addr) ELSE addr <= cursor
             hit == FirstIn(addr, read)
             far == IF leg = 1 THEN size ELSE cursor
  <1>1. /\ pc = "seek" /\ asked.dir = "next" /\ result = "none"
        /\ size' = size /\ match' = match /\ length' = length
        /\ asked' = asked /\ leg' = leg /\ read' = read
        /\ thread' = thread /\ esc' = esc
    BY DEF NextTurn, LandInv, file, status
  <1>2. /\ FileInv /\ size \in Nat /\ leg \in {1, 2} /\ addr \in Nat /\ read = Page
        /\ cursor = asked.from /\ cursor \in 0 .. size /\ (leg = 2 => Ahead = {})
        /\ (leg = 1 => addr >= asked.from + Page)
        /\ (addr = 0 \/ \A m \in Wanted : m + length > addr + Margin)
    BY <1>1 DEF SearchInv, LandInv, NonePassed, Leg
  <1>3. /\ match \in SUBSET Nat /\ length \in Nat /\ length >= 1 /\ length <= Margin + 1
        /\ \A m \in match : m + length <= size
        /\ Margin \in Nat /\ Page \in Nat /\ Page > Margin
    BY <1>2, MatchFits
  <1>4. Wanted \subseteq match /\ \A m \in match : m \in Nat /\ m < size
    BY <1>2, <1>3 DEF Wanted, Ahead
  <1>5. Ahead' = Ahead /\ Wanted' = Wanted /\ Target' = Target
    BY <1>1 DEF Ahead, Wanted, Target
  <1>6. leg = 2 => \A m \in match : m <= cursor
    <2>1. ASSUME leg = 2, NEW m \in match PROVE m <= cursor
      <3>1. m \notin Ahead /\ m \in Nat
        BY <1>2, <1>3, <2>1
      <3>2. m < asked.least /\ asked.least \in {asked.from, asked.from + 1}
        BY <1>1, <1>2, <3>1 DEF Ahead, FileInv
      <3> QED
        BY <1>2, <3>1, <3>2
    <2> QED
      BY <2>1
  <1>7. CASE (~more \/ data.abort) /\ Stop("none") /\ UNCHANGED <<cursor, addr>>
    <2>1. /\ pc' = "join" /\ result' = "none" /\ cursor' = cursor /\ data'.abort = data.abort
      BY <1>7 DEF Stop, SearchInv
    <2>2. ASSUME ~more PROVE Wanted = {}
      <3>1. SUFFICES ASSUME NEW m \in Wanted PROVE FALSE
        OBVIOUS
      <3>2. m \in Nat /\ m + length <= size
        BY <1>3, <1>4
      <3>3. CASE leg = 1
        <4>1. addr >= size /\ addr > 0
          BY <1>2, <1>3, <2>2, <3>3 DEF AddressInvalid, FileInv
        <4>2. m + length > addr + Margin
          BY <1>2, <4>1
        <4> QED
          BY <1>2, <1>3, <3>2, <4>1, <4>2
      <3>4. CASE leg = 2
        <4>1. addr > cursor /\ m <= cursor /\ addr # 0
          BY <1>2, <1>4, <1>6, <2>2, <3>4
        <4>2. m + length > addr + Margin
          BY <1>2, <4>1
        <4> QED
          BY <1>2, <1>3, <3>2, <4>1, <4>2
      <3> QED
        BY <1>2, <3>3, <3>4
    <2>3. ~data.abort => Wanted = {}
      BY <1>7, <2>2
    <2> HIDE DEF more
    <2> QED
      BY <1>1, <1>2, <1>5, <2>1, <2>3 DEF LandInv, FileInv, LandsNext
  <1>8. CASE more /\ hit <= far /\ Found(hit) /\ UNCHANGED addr
    <2>1. hit \in match /\ hit = Target
      <3>1. hit # size + 1
        BY <1>2, <1>8
      <3> QED
        BY <1>1, <1>8, <3>1, NextHit
    <2>2. hit \in Nat /\ hit < size
      BY <1>4, <2>1
    <2>3. /\ pc' = "join" /\ result' = "found" /\ cursor' = hit /\ data'.abort = data.abort
      BY <1>2, <1>8, <2>2 DEF Found, Place, Stop, AddressInvalid, SearchInv
    <2> HIDE DEF more, hit, far
    <2> QED
      BY <1>1, <1>2, <1>5, <2>1, <2>2, <2>3 DEF LandInv, FileInv, LandsNext
  <1>9. CASE /\ more /\ ~(hit <= far) /\ ~data.abort
             /\ data' = [data EXCEPT !.current = addr] /\ addr' = addr + read
             /\ UNCHANGED <<cursor, pc, result>>
    <2>1. data'.abort = data.abort
      BY <1>9 DEF SearchInv
    <2>2. ASSUME NEW m \in Wanted PROVE m + length > addr + Page + Margin
      <3>1. SUFFICES ASSUME m + length <= addr + Page + Margin PROVE FALSE
        BY <1>2, <1>3, <1>4
      <3>2. hit \in match /\ hit = Target
        BY <1>1, <1>9, <3>1, NextHit
      <3>3. hit \in Nat /\ hit < size /\ (leg = 2 => hit <= cursor)
        BY <1>4, <1>6, <3>2
      <3>4. hit <= far
        <4> HIDE DEF hit
        <4> QED
          BY <1>2, <3>3
      <3> QED
        BY <1>9, <3>4
    <2>3. NonePassed'
      BY <1>1, <1>2, <1>3, <1>5, <1>9, <2>2 DEF NonePassed
    <2> HIDE DEF more, hit, far
    <2> QED
      BY <1>1, <1>2, <1>5, <1>9, <2>1, <2>3 DEF LandInv, FileInv, LandsNext
  <1> QED
    BY <1>7, <1>8, <1>9 DEF NextTurn

\* Searching backwards: what a page brings.
LEMMA PrevHits ==
  ASSUME WithinMargin, SearchInv, LandInv, pc = "seek", asked.dir = "prev",
         NEW n \in Nat, n > 0, n <= addr
  PROVE  {m \in InBuf(addr - n, n) : m < addr - n + n} = {m \in Wanted : m >= addr - n - Margin}
  <1>1. FileInv /\ size \in Nat /\ addr \in 0 .. size /\ leg \in {1, 2}
        /\ (leg = 1 => addr <= asked.from) /\ (\A m \in Wanted : m < addr)
    BY DEF SearchInv, LandInv, NonePassed, Leg
  <1>2. /\ match \in SUBSET Nat /\ length \in Nat /\ length <= Margin + 1
        /\ Margin \in Nat
    BY <1>1, MatchFits
  <1>3. Wanted \subseteq match
    BY DEF Wanted, Ahead
  <1>4. addr - n \in Nat /\ addr - n - Margin < size /\ addr - n + n = addr
    BY <1>1, <1>2
  <1>5. InBuf(addr - n, n)
          = {m \in match : m >= addr - n - Margin /\ m + length <= addr - n + n + Margin}
    BY <1>1, <1>4, InBufIs
  <1>6. ASSUME NEW m \in match, m < addr PROVE m \in Wanted /\ m + length <= addr + Margin
    <2>1. m \in Nat /\ m + length <= addr + Margin
      BY <1>1, <1>2, <1>6
    <2>2. leg = 1 => m < asked.from
      BY <1>1, <1>6, <2>1, SearchFileAssumption DEF FileInv
    <2> QED
      BY <1>1, <2>1, <2>2 DEF Wanted, Ahead
  <1> QED
    BY <1>1, <1>3, <1>4, <1>5, <1>6

\* The last of them is the target, and ends the search.
LEMMA PrevHit ==
  ASSUME WithinMargin, SearchInv, LandInv, pc = "seek", asked.dir = "prev",
         NEW n \in Nat, n > 0, n <= addr
  PROVE  IF \E m \in Wanted : m >= addr - n - Margin
         THEN LastIn(addr - n, n) \in match /\ LastIn(addr - n, n) = Target
         ELSE LastIn(addr - n, n) = NoHit
  <1> DEFINE hits == {m \in Wanted : m >= addr - n - Margin}
  <1>1. LastIn(addr - n, n) = Max(hits \cup {NoHit})
    BY PrevHits DEF LastIn
  <1>2. FileInv /\ size \in Nat /\ leg \in {1, 2} /\ addr \in Int
    BY DEF SearchInv, LandInv
  <1>3. /\ match \in SUBSET Nat /\ \A m \in match : m + length <= size
        /\ length \in Nat /\ Margin \in Nat
    BY <1>2, MatchFits
  <1>4. Wanted \subseteq match /\ \A m \in match : m \in Nat /\ m <= size
    BY <1>2, <1>3 DEF Wanted, Ahead
  <1>5. CASE hits = {}
    <2>1. Max({NoHit}) = NoHit
      BY DEF Max, NoHit
    <2> QED
      BY <1>1, <1>5, <2>1
  <1>6. CASE hits # {}
    <2> DEFINE some == hits \cup {NoHit}
    <2>1. hits \subseteq Nat /\ \A m \in hits : m <= size
      BY <1>4
    <2>2. Max(some) \in some /\ \A m \in some : m <= Max(some)
      <3>1. some \in SUBSET Int /\ (\A m \in some : m <= size)
        <4> HIDE DEF hits
        <4> QED
          BY <1>2, <2>1 DEF NoHit
      <3>2. some # {}
        OBVIOUS
      <3>3. size \in Int
        BY <1>2
      <3> HIDE DEF hits, some
      <3> QED
        BY ONLY <3>1, <3>2, <3>3, MaxIs
    <2>3. Max(hits) \in hits /\ \A m \in hits : m <= Max(hits)
      <3>1. hits \in SUBSET Int /\ (\A m \in hits : m <= size) /\ size \in Int
        <4> HIDE DEF hits
        <4> QED
          BY <1>2, <2>1
      <3> HIDE DEF hits
      <3> QED
        BY <1>6, <3>1, MaxIs
    <2>4. Max(some) = Max(hits)
      <3>1. Max(hits) <= Max(some) /\ Max(hits) \in Nat
        BY <2>1, <2>2, <2>3
      <3>2. Max(some) # NoHit
        <4> HIDE DEF hits, some
        <4> QED
          BY <3>1 DEF NoHit
      <3>3. Max(some) <= Max(hits) /\ Max(some) \in Nat
        BY <2>1, <2>2, <2>3, <3>2
      <3> HIDE DEF hits, some
      <3> QED
        BY <3>1, <3>3
    <2>5. Max(hits) \in hits /\ Max(hits) = Max(Wanted)
      <3>1. Wanted \in SUBSET Nat /\ hits \in SUBSET Wanted /\ \A k \in Wanted : k <= size
        BY <1>4
      <3>2. \A m \in hits, k \in Wanted : m <= k => k \in hits
        BY <1>2, <1>3, <1>4
      <3> HIDE DEF hits
      <3> QED
        BY <1>2, <1>6, <3>1, <3>2, LastOfAll
    <2>6. Max(Wanted) = Target
      <3>1. asked.dir # "next" /\ (leg = 2 => Ahead = {})
        BY DEF LandInv
      <3>2. Wanted # {}
        BY <1>6
      <3> HIDE DEF hits, some
      <3> QED
        BY <1>2, <3>1, <3>2 DEF Target, Wanted, Ahead
    <2> QED
      BY <1>1, <1>4, <1>6, <2>4, <2>5, <2>6
  <1> QED
    BY <1>5, <1>6

LEMMA PrevTurnLands == WithinMargin /\ SearchInv /\ LandInv /\ PrevTurn => LandInv'
  <1> SUFFICES ASSUME WithinMargin, SearchInv, LandInv, PrevTurn PROVE LandInv'
    OBVIOUS
  <1> DEFINE low == IF leg = 1 THEN 0 ELSE cursor
             more == /\ IF leg = 1 THEN ~AddressInvalid(addr) ELSE addr >= cursor
                     /\ ~data.abort /\ read > 0
             n == IF addr - read < low THEN addr - low ELSE read
             hit == LastIn(addr - n, n)
  <1>1. /\ pc = "seek" /\ asked.dir = "prev" /\ result = "none"
        /\ size' = size /\ match' = match /\ length' = length
        /\ asked' = asked /\ leg' = leg
        /\ thread' = thread /\ esc' = esc
    BY DEF PrevTurn, LandInv, file, status
  <1>2. /\ FileInv /\ size \in Nat /\ leg \in {1, 2} /\ read \in Nat /\ addr \in low .. size
        /\ cursor = asked.from /\ cursor \in 0 .. size /\ (leg = 2 => Ahead = {})
        /\ cursor > 0 /\ (leg = 1 => addr <= cursor)
        /\ (\A m \in Wanted : m < addr) /\ (read = 0 => addr = low)
        /\ data.start = IF leg = 1 THEN cursor ELSE size
    BY <1>1 DEF SearchInv, LandInv, NonePassed, Leg
  <1>3. /\ match \in SUBSET Nat /\ length \in Nat /\ length >= 1 /\ Margin \in Nat
        /\ \A m \in match : m + length <= size
    BY <1>2, MatchFits
  <1>4. Wanted \subseteq match /\ \A m \in match : m \in Nat /\ m < size
    BY <1>2, <1>3 DEF Wanted, Ahead
  <1>5. Ahead' = Ahead /\ Wanted' = Wanted /\ Target' = Target
    BY <1>1 DEF Ahead, Wanted, Target
  <1>6. \A m \in Wanted : m >= low
    <2>1. leg = 2 => \A m \in match : m >= asked.from
      BY <1>1, <1>2, <1>4 DEF Ahead, FileInv
    <2> QED
      BY <1>2, <1>4, <2>1
  <1>7. low \in Nat /\ n \in Nat /\ n <= addr - low /\ (n = 0 /\ read > 0 => addr = low)
    BY <1>2
  <1>8. CASE ~more /\ Stop(result) /\ UNCHANGED <<cursor, addr, read>>
    <2>1. /\ pc' = "join" /\ result' = "none" /\ cursor' = cursor /\ data'.abort = data.abort
      BY <1>1, <1>8 DEF Stop, SearchInv
    <2>2. ASSUME ~data.abort PROVE addr = low
      <3>1. IF leg = 1 THEN ~AddressInvalid(addr) ELSE addr >= cursor
        BY <1>2 DEF AddressInvalid, FileInv
      <3> QED
        BY <1>2, <1>8, <2>2, <3>1
    <2>3. ~data.abort => Wanted = {}
      <3> HIDE DEF low
      <3> QED
        BY <1>2, <1>4, <1>6, <1>7, <2>2
    <2> HIDE DEF more, low, n
    <2> QED
      BY <1>1, <1>2, <1>5, <2>1, <2>3 DEF LandInv, FileInv, LandsNext
  <1>9. CASE more /\ n > 0 /\ hit # NoHit /\ Found(hit) /\ UNCHANGED <<addr, read>>
    <2>1. hit \in match /\ hit = Target
      <3>1. n \in Nat /\ n > 0 /\ n <= addr
        BY <1>2, <1>7, <1>9
      <3> HIDE DEF n, more
      <3> QED
        BY <1>1, <1>9, <3>1, PrevHit
    <2>2. hit \in Nat /\ hit < size
      BY <1>4, <2>1
    <2>3. /\ pc' = "join" /\ result' = "found" /\ cursor' = hit /\ data'.abort = data.abort
      <3> HIDE DEF hit
      <3> QED
        BY <1>2, <1>9, <2>2 DEF Found, Place, Stop, AddressInvalid, SearchInv
    <2> HIDE DEF more, hit, n, low
    <2> QED
      BY <1>1, <1>2, <1>5, <2>1, <2>2, <2>3 DEF LandInv, FileInv, LandsNext
  <1>10. CASE /\ more /\ ~(n > 0 /\ hit # NoHit)
              /\ data' = [data EXCEPT !.current = addr] /\ addr' = addr - n /\ read' = n
              /\ result' = IF n = 0 /\ addr = data.start THEN "wild" ELSE result
              /\ UNCHANGED <<cursor, pc>>
    <2>1. data'.abort = data.abort
      BY <1>10 DEF SearchInv
    <2>2. read > 0
      BY <1>10
    <2>3. ~(n = 0 /\ addr = data.start)
      <3>1. leg = 2 => cursor < size
        BY <1>2 DEF FileInv
      <3> HIDE DEF n
      <3> QED
        BY <1>2, <1>7, <2>2, <3>1
    <2>4. ASSUME NEW m \in Wanted PROVE m < addr - n
      <3>1. CASE n = 0
        BY <1>2, <3>1
      <3>2. CASE n > 0
        <4>1. n \in Nat /\ n <= addr /\ hit = NoHit /\ NoHit \notin match
          BY <1>2, <1>4, <1>7, <1>10, <3>2 DEF NoHit
        <4>2. ~(m >= addr - n - Margin)
          <5> HIDE DEF n
          <5> QED
            BY <1>1, <3>2, <4>1, PrevHit
        <4>3. m \in Nat
          BY <1>4
        <4> HIDE DEF n
        <4> QED
          BY <1>2, <1>3, <4>1, <4>2, <4>3
      <3> HIDE DEF n
      <3> QED
        BY <1>7, <3>1, <3>2
    <2>5. NonePassed'
      <3>1. (\A m \in Wanted' : m < addr') /\ (read' = 0 => addr' = low) /\ cursor' = cursor
        <4> HIDE DEF n, low
        <4> QED
          BY <1>2, <1>5, <1>7, <1>10, <2>2, <2>4
      <3> QED
        BY <1>1, <3>1 DEF NonePassed
    <2>6. result' = "none" /\ pc' = "seek" /\ cursor' = cursor
      <3> HIDE DEF n
      <3> QED
        BY <1>1, <1>10, <2>3
    <2> HIDE DEF more, hit, n, low
    <2> QED
      BY <1>1, <1>2, <1>5, <2>1, <2>5, <2>6 DEF LandInv, FileInv, LandsNext
  <1> QED
    BY <1>8, <1>9, <1>10 DEF PrevTurn

LEMMA JoinLands == WithinMargin /\ SearchInv /\ LandInv /\ Join => LandInv'
  <1> SUFFICES ASSUME WithinMargin, SearchInv, LandInv, Join PROVE LandInv'
    OBVIOUS
  <1>1. /\ pc = "join" /\ thread = "exit" /\ result \in {"found", "none"}
        /\ size' = size /\ match' = match /\ length' = length
        /\ cursor' = cursor /\ asked' = asked
    BY DEF Join, LandInv, file
  <1>2. /\ FileInv /\ size \in Nat /\ leg \in {1, 2} /\ asked.dir \in {"next", "prev"}
        /\ cursor \in 0 .. size /\ (data.abort => esc)
        /\ (asked.dir = "prev" => asked.from > 0)
    BY <1>1 DEF SearchInv, LandInv
  <1>3. FileInv' /\ Target' = Target /\ Ahead' = Ahead
    BY <1>1, <1>2 DEF FileInv, Target, Ahead
  <1>4. CASE /\ result = "found" \/ (leg = 2 /\ ~data.abort)
             /\ pc' = "idle" /\ thread' = "none"
             /\ UNCHANGED <<result, leg, addr, read, data, polls, esc, percent>>
    <2>1. LandsNext'
      BY <1>1, <1>3, <1>4 DEF LandInv, LandsNext, Wanted
    <2> QED
      BY <1>2, <1>3, <1>4, <2>1 DEF LandInv
  <1>5. CASE /\ result # "found" /\ data.abort
             /\ pc' = "idle" /\ thread' = "none" /\ result' = "aborted"
             /\ UNCHANGED <<leg, addr, read, data, polls, esc, percent>>
    <2>1. LandsNext'
      BY <1>1, <1>2, <1>5 DEF LandInv, LandsNext
    <2> QED
      BY <1>2, <1>3, <1>5, <2>1 DEF LandInv
  <1>6. CASE /\ ~(result = "found" \/ (leg = 2 /\ ~data.abort))
             /\ ~(result # "found" /\ data.abort)
             /\ pc' = "seek" /\ leg' = 2 /\ read' = Page
             /\ addr' = IF asked.dir = "next" THEN 0 ELSE size
             /\ Launch(addr', cursor)
             /\ UNCHANGED result
    <2>1. leg = 1 /\ result = "none" /\ ~data.abort
      BY <1>1, <1>2, <1>6
    <2>2. Ahead = {} /\ cursor = asked.from
      BY <1>1, <2>1 DEF LandInv, Wanted
    <2>3. ~data'.abort
      BY <1>6 DEF Launch
    <2>4. Wanted' = match /\ Page > 0 /\ \A m \in match : m < size
      <3>1. match \in SUBSET Nat /\ length \in Nat /\ length >= 1
            /\ \A m \in match : m + length <= size
        BY <1>2, MatchFits
      <3> QED
        BY <1>1, <1>2, <1>6, <3>1, SearchFileAssumption DEF Wanted
    <2>5. NonePassed'
      BY <1>1, <1>2, <1>6, <2>4, SearchFileAssumption DEF NonePassed
    <2> QED
      BY <1>1, <1>2, <1>3, <1>6, <2>1, <2>2, <2>3, <2>5 DEF LandInv, LandsNext
  <1> QED
    BY <1>4, <1>5, <1>6 DEF Join

LEMMA NextSearchLands == WithinMargin /\ SearchInv /\ LandInv /\ NextSearch => LandInv'
  <1> SUFFICES ASSUME WithinMargin, SearchInv, LandInv, NextSearch PROVE LandInv'
    OBVIOUS
  <1>1. PICK least \in {cursor, cursor + 1} :
          LET hits == {m \in InBuf(cursor, Page) : m >= least}
          IN  /\ asked' = [dir |-> "next", from |-> cursor, least |-> least]
              /\ leg' = 1 /\ read' = Page
              /\ IF hits # {}
                 THEN /\ Place(Min(hits)) /\ result' = "found"
                      /\ UNCHANGED <<pc, addr, data, status>>
                 ELSE /\ pc' = "seek" /\ addr' = cursor + Page /\ result' = "none"
                      /\ Launch(cursor, size) /\ UNCHANGED cursor
    <2>1. PICK advance \in BOOLEAN, stray \in BOOLEAN :
            LET least == IF advance THEN cursor + 1 ELSE cursor
                beyond == {m \in {size} : stray /\ advance /\ cursor = size - 1 /\ cursor \in match}
                hits == {m \in InBuf(cursor, Page) : m >= least} \cup beyond
            IN  /\ asked' = [dir |-> "next", from |-> cursor, least |-> least]
                /\ leg' = 1 /\ read' = Page
                /\ IF hits # {}
                   THEN /\ Place(Min(hits)) /\ result' = "found"
                        /\ UNCHANGED <<pc, addr, data, status>>
                   ELSE /\ pc' = "seek" /\ addr' = cursor + Page /\ result' = "none"
                        /\ Launch(cursor, size) /\ UNCHANGED cursor
      BY DEF NextSearch
    <2>2. {m \in {size} : stray /\ advance /\ cursor = size - 1 /\ cursor \in match} = {}
      BY DEF NextSearch, WithinMargin
    <2> QED
      BY <2>1, <2>2
  <1> DEFINE hits == {m \in InBuf(cursor, Page) : m >= least}
             all == {m \in match : m >= least}
  <1>2. /\ pc = "idle" /\ size' = size /\ match' = match /\ length' = length
    BY DEF NextSearch, file
  <1>3. /\ FileInv /\ size \in Nat /\ cursor \in 0 .. size /\ thread = "none"
        /\ (data.abort => esc)
    BY <1>2 DEF SearchInv, LandInv
  <1>4. /\ match \in SUBSET Nat /\ length \in Nat /\ length >= 1
        /\ \A m \in match : m + length <= size
        /\ Margin \in Nat /\ Page \in Nat /\ Page > Margin
    BY <1>3, MatchFits
  <1>5. hits = {m \in all : m + length <= cursor + Page + Margin}
    <2>1. CASE match = {}
      BY <2>1 DEF InBuf
    <2>2. CASE match # {}
      <3>1. cursor - Margin < size
        <4>1. PICK m \in match : TRUE
          BY <2>2
        <4>2. size # 0
          BY <1>3, <1>4, <4>1
        <4> QED
          BY <1>3, <1>4, <4>2 DEF FileInv
      <3>2. InBuf(cursor, Page)
              = {m \in match : m >= cursor - Margin /\ m + length <= cursor + Page + Margin}
        BY <1>3, <1>4, <3>1, InBufIs
      <3>3. \A m \in match : m >= least => m >= cursor - Margin
        BY <1>1, <1>3, <1>4
      <3> QED
        BY <3>2, <3>3
    <2> QED
      BY <2>1, <2>2
  <1>6. Ahead' = all /\ asked'.dir = "next" /\ asked'.from = cursor /\ asked'.least = least
    BY <1>1, <1>2 DEF Ahead
  <1>7. CASE hits # {}
    <2>1. Min(hits) \in hits /\ Min(hits) = Min(all)
      <3>1. all \in SUBSET Nat /\ hits \in SUBSET all
        BY <1>4, <1>5
      <3>2. ASSUME NEW m \in hits, NEW k \in all, k <= m PROVE k \in hits
        <4>1. m \in Nat /\ k \in Nat /\ m + length <= cursor + Page + Margin
          BY <1>4, <1>5
        <4>2. k + length <= cursor + Page + Margin
          BY <1>3, <1>4, <3>2, <4>1
        <4> QED
          BY <1>5, <4>2
      <3> HIDE DEF hits, all
      <3> QED
        BY <1>7, <3>1, <3>2, FirstOfAll
    <2>2. Min(hits) \in match /\ Min(hits) \in Nat /\ Min(hits) < size
      <3>1. ASSUME NEW m \in hits PROVE m \in match /\ m \in Nat /\ m < size
        <4>1. m \in match
          BY <1>5
        <4> QED
          BY <1>3, <1>4, <4>1
      <3> HIDE DEF hits
      <3> QED
        BY <2>1, <3>1
    <2>3. Place(Min(hits)) /\ result' = "found" /\ UNCHANGED <<pc, addr, data, status>>
      BY <1>1, <1>7
    <2> HIDE DEF hits
    <2>4. cursor' = Min(hits)
      BY <1>3, <2>2, <2>3 DEF Place, AddressInvalid
    <2>5. match # {} /\ Target' = Min(all)
      BY <1>2, <1>5, <1>6, <1>7, <2>2 DEF Target, Ahead
    <2>6. LandsNext'
      BY <1>2, <2>1, <2>3, <2>4, <2>5 DEF LandsNext
    <2>7. FileInv'
      BY <1>1, <1>2, <1>3, <1>6, <2>2, <2>4 DEF FileInv
    <2> HIDE DEF all
    <2> QED
      BY <1>2, <1>3, <2>3, <2>6, <2>7 DEF LandInv, status
  <1>8. CASE hits = {}
    <2>1. pc' = "seek" /\ addr' = cursor + Page /\ result' = "none"
          /\ Launch(cursor, size) /\ cursor' = cursor /\ leg' = 1 /\ read' = Page
      BY <1>1, <1>8
    <2>2. ~data'.abort
      BY <2>1 DEF Launch
    <2>3. \A m \in all : m + length > addr' + Margin
      BY <1>3, <1>4, <1>5, <1>8, <2>1
    <2>4. NonePassed'
      BY <1>2, <1>3, <1>6, <2>1, <2>3 DEF NonePassed, Wanted
    <2>5. FileInv'
      BY <1>1, <1>2, <1>3, <1>6, <2>1 DEF FileInv
    <2> HIDE DEF hits, all
    <2> QED
      BY <1>6, <2>1, <2>2, <2>4, <2>5 DEF LandInv, LandsNext
  <1> QED
    BY <1>7, <1>8

LEMMA PrevSearchLands == WithinMargin /\ SearchInv /\ LandInv /\ PrevSearch => LandInv'
  <1> SUFFICES ASSUME WithinMargin, SearchInv, LandInv, PrevSearch PROVE LandInv'
    OBVIOUS
  <1>1. /\ asked' = [dir |-> "prev", from |-> cursor, least |-> cursor]
        /\ pc' = "seek" /\ leg' = 1 /\ addr' = cursor /\ read' = Page /\ result' = "none"
        /\ size' = size /\ match' = match /\ length' = length /\ cursor' = cursor
        /\ Page > 0 /\ cursor \in 0 .. size
    BY SearchFileAssumption DEF PrevSearch, file, SearchInv
  <1>2. cursor > 0
    BY DEF PrevSearch, WithinMargin
  <1>3. ~data'.abort
    BY DEF PrevSearch, Launch
  <1>4. NonePassed'
    BY <1>1 DEF NonePassed, Wanted, Ahead
  <1>5. FileInv'
    BY <1>1 DEF LandInv, FileInv
  <1> QED
    BY <1>1, <1>2, <1>3, <1>4, <1>5 DEF LandInv, LandsNext

\* The thread writes abort, after ESC and before it ends.
LEMMA StatusLands == SearchInv /\ LandInv /\ Status => LandInv'
  <1> SUFFICES ASSUME SearchInv, LandInv, Status PROVE LandInv'
    OBVIOUS
  <1>1. /\ UNCHANGED <<size, match, length, cursor, asked, pc, leg, addr, read, result>>
        /\ pc # "idle" /\ (data'.abort => esc' /\ thread' \in {"exit", "none"})
        /\ (data.abort => data'.abort)
    <2>1. data \in [start : Nat, current : Nat, end : Nat, abort : BOOLEAN]
          /\ (pc = "idle" <=> thread = "none")
          /\ (data.abort => esc /\ thread \in {"exit", "none"})
      BY DEF SearchInv, LandInv
    <2>2. CASE Poll \/ Test \/ Draw
      BY <2>1, <2>2 DEF Poll, Test, Draw, file, main
    <2>3. CASE Close
      BY <2>1, <2>3 DEF Close, file, main
    <2> QED
      BY <2>2, <2>3 DEF Status
  <1>2. FileInv' /\ Ahead' = Ahead /\ Wanted' = Wanted /\ Target' = Target
    BY <1>1 DEF LandInv, FileInv, Ahead, Wanted, Target
  <1>3. NonePassed' = NonePassed
    BY <1>1, <1>2 DEF NonePassed
  <1> QED
    BY <1>1, <1>2, <1>3 DEF LandInv, LandsNext

\* A search of the whole file ends at the nearest match in its direction, past
\* the end at the first one from the other end, whatever the size of the file
\* and of a page and wherever the matches lie across the pages; it finds none
\* only in a file that has none, and a cancelled one leaves the cursor
\* (action_move_cursor_next_search, action_move_cursor_prev_search).
THEOREM AlwaysLandsNext ==
  ASSUME WithinMargin
  PROVE  Spec => []LandsNext
  <1>1. Init => LandInv
    <2> SUFFICES ASSUME Init PROVE LandInv
      OBVIOUS
    <2>1. size \in Nat
      BY SearchFileAssumption DEF Init
    <2>2. FileInv
      BY <2>1 DEF Init, FileInv
    <2> QED
      BY <2>2 DEF Init, LandInv, LandsNext
  <1>2. SearchInv /\ LandInv /\ [Next]_vars => LandInv'
    <2>1. LandInv /\ UNCHANGED vars => LandInv'
      BY DEF LandInv, FileInv, NonePassed, Wanted, Ahead, Target, LandsNext,
             vars, file, main, status
    <2> QED
      BY <2>1, NextTurnLands, PrevTurnLands, JoinLands, NextSearchLands, PrevSearchLands,
         StatusLands DEF Next, Work
  <1>3. LandInv => LandsNext
    BY DEF LandInv
  <1> QED
    BY <1>1, <1>2, <1>3, SearchInvariant, PTL DEF Spec
=============================================================================
