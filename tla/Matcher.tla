------------------------------ MODULE Matcher ------------------------------
(***************************************************************************)
(* The matcher of src/search.c: feed_search takes one byte at a time and   *)
(* keeps for every criterion how far it is fulfilled; rollback is its      *)
(* answer to a byte that does not fit; buf_search tries one start after    *)
(* the other.  Indices begin with 1.                                       *)
(*                                                                         *)
(* A search state is [ci, match, result]: criteria_index, match_state and  *)
(* what feed_search returns, "GO" as long as it has not.                   *)
(***************************************************************************)
EXTENDS Pattern

CONSTANT MaxMatch  \* user_prefs[MAX_MATCH], 0 for no limit

ASSUME MatcherAssumption == MaxMatch \in Nat

MatchState == {"UNFULFILLED", "FULFILLED", "UNIQUELY_FULFILLED"}

Reset(criteria) ==
  [ci |-> 1, match |-> [i \in DOMAIN criteria |-> "UNFULFILLED"], result |-> "GO"]

Matches(byte, criterion) == byte \in Range(criterion.range)

Incomplete(s) == [s EXCEPT !.result = "INCOMPLETE_MATCH"]

\* one turn of the loop of rollback; "WILD" when it reads behind the criteria
RollbackAt(criteria, byte, s, i) ==
  CASE s.result # "GO" -> s
    [] i > Len(criteria) -> [s EXCEPT !.result = "WILD"]
    [] s.match[i] = "FULFILLED" /\ criteria[i].wildcard = "NONE_OR_ONE" ->
         Incomplete([s EXCEPT !.match[i] = "UNIQUELY_FULFILLED"])
    [] s.match[i] = "UNIQUELY_FULFILLED" -> s
    [] Matches(byte, criteria[i]) ->
         IF i = Len(criteria) THEN [s EXCEPT !.result = "WILD"]
         ELSE IF Matches(byte, criteria[i + 1])
         THEN Incomplete([s EXCEPT !.ci = i + 2, !.match[i + 1] = "UNIQUELY_FULFILLED"])
         ELSE Incomplete([s EXCEPT !.ci = i + 1])
    [] OTHER -> [s EXCEPT !.match[i] = "UNFULFILLED"]

\* faulty: a mismatch is the end
RollbackNever(criteria, byte, s) == [s EXCEPT !.result = "NO_MATCH"]

Rollback(criteria, byte, s) ==
  LET back == FoldLeft(LAMBDA t, i : RollbackAt(criteria, byte, t, i), s,
                       [k \in 1 .. s.ci - 1 |-> s.ci - k])
  IN  IF back.result = "GO" THEN [back EXCEPT !.result = "NO_MATCH"] ELSE back

\* the i-th criterion takes the byte; the next one is to take it too when this
\* one may be empty
Fit(wildcard, s, i) ==
  LET last == i = s.ci
      more(t) == [t EXCEPT !.ci = @ + 1]
      set(state) == [s EXCEPT !.match[i] = state]
      fit == CASE wildcard = "ONE_ONLY" -> set("UNIQUELY_FULFILLED")
               [] wildcard = "NONE_OR_ONE" ->
                    IF s.match[i] # "UNFULFILLED" THEN set("UNIQUELY_FULFILLED")
                    ELSE IF last THEN more(set("FULFILLED")) ELSE set("FULFILLED")
               [] wildcard = "NONE_OR_MORE" ->
                    IF last THEN more(set("FULFILLED")) ELSE set("FULFILLED")
               [] wildcard = "ONE_OR_MORE" ->
                    IF s.match[i] = "FULFILLED" THEN more(set("FULFILLED")) ELSE set("FULFILLED")
  IN  IF i = fit.ci THEN Incomplete(more(fit)) ELSE fit

\* the i-th criterion does not
Misfit(criteria, byte, s, i) ==
  LET wildcard == criteria[i].wildcard
      open == s.match[i] = "UNFULFILLED"
      done == [s EXCEPT !.match[i] = "UNIQUELY_FULFILLED"]
      next == IF i = s.ci THEN [done EXCEPT !.ci = @ + 1] ELSE done
  IN  CASE wildcard = "ONE_ONLY" -> IF open THEN Rollback(criteria, byte, s) ELSE s
        [] wildcard = "NONE_OR_ONE" -> IF open THEN next ELSE done
        [] wildcard = "NONE_OR_MORE" -> next
        [] wildcard = "ONE_OR_MORE" -> IF open THEN Rollback(criteria, byte, s) ELSE next

\* one turn of the loop of feed_search
FeedAt(criteria, byte, s, i) ==
  CASE s.result # "GO" \/ i > s.ci -> s
    [] s.result = "GO" /\ i <= s.ci /\ i > Len(criteria) -> [s EXCEPT !.result = "NO_MATCH"]
    [] OTHER ->
         CASE s.match[i] = "UNIQUELY_FULFILLED" -> s
           [] s.match[i] # "UNIQUELY_FULFILLED" /\ Matches(byte, criteria[i]) ->
                IF i = Len(criteria) THEN [s EXCEPT !.result = "MATCH_FOUND"]
                                     ELSE Fit(criteria[i].wildcard, s, i)
           [] OTHER -> Misfit(criteria, byte, s, i)

Feed(criteria, byte, s) ==
  LET fed == FoldLeft(LAMBDA t, i : FeedAt(criteria, byte, t, i), [s EXCEPT !.result = "GO"],
                      [i \in 1 .. Len(criteria) + 1 |-> i])
  IN  IF fed.result = "GO" THEN Incomplete(fed) ELSE fed

\* The inner loop of buf_search, which tries the start at index i.  The limit is
\* compared with the length less the offset of the start.
Try(criteria, buf, i) ==
  LET more(s, n) == /\ s.result = "INCOMPLETE_MATCH"
                    /\ MaxMatch = 0 \/ n - (i - 1) < MaxMatch
      step(t, byte) ==
        IF t.n = 0 \/ more(t.s, t.n)
        THEN [s |-> Feed(criteria, byte, t.s), n |-> t.n + 1] ELSE t
  IN  FoldLeft(step, [s |-> Reset(criteria), n |-> 0], SubSeq(buf, i, Len(buf)))

NoMatch == [start |-> 0, end |-> 0]      \* hl_start = hl_end = -1
AnyMatch == [start |-> -1, end |-> -1]   \* whatever is behind the criteria in memory

\* buf_search from the index `from` on: the start of the first match and the
\* index behind it
BufSearch(criteria, buf, from) ==
  LET tried == [i \in from .. Len(buf) |-> Try(criteria, buf, i)]
      ended == {i \in DOMAIN tried : tried[i].s.result \in {"MATCH_FOUND", "WILD"}}
      first == CHOOSE i \in ended : \A k \in ended : i <= k
  IN  CASE ended = {} -> NoMatch
        [] tried[first].s.result = "WILD" -> AnyMatch
        [] OTHER -> [start |-> first, end |-> first + tried[first].n]
============================================================================
