------------------------------- MODULE Search -------------------------------
(***************************************************************************)
(* A search from the pattern typed to the bytes highlighted: set_search_   *)
(* term compiles the pattern, buf_search finds one match after the other   *)
(* in a buffer.  What they promise is what src/help.c says of patterns; it *)
(* is stated over the pattern as it was meant, a sequence of elements      *)
(* [atom, wildcard].                                                       *)
(***************************************************************************)
EXTENDS Matcher

CONSTANTS
  Patterns,  \* bound: the patterns typed
  Mistyped,  \* strings that are no patterns
  Bufs,      \* bound: the buffers searched
  Slips      \* what a pattern may hold that the code has no answer for, see below

\* "escape": a special character behind an escaped one; "negated": a set behind
\* a negated one; "end": an optional element at the end; "row": one behind a
\* wildcard; "overlap": behind a wildcard, an element that takes the same byte;
\* "long": a shortest match of more than MaxMatch bytes; "beyond": a match at
\* the end of the buffer, from which the search goes on; "unclosed": a string that
\* ends inside a set or a range, or with a backslash, which is taken for a pattern.
AllSlips == {"escape", "negated", "end", "row", "overlap", "long", "beyond", "unclosed"}

ASSUME SearchAssumption == Slips \subseteq AllSlips

VARIABLES
  typed,  \* the pattern meant
  item,   \* search_item[current_search], as [used, criteria]
  buf,    \* search_aid.buf
  from,   \* the index buf_search began with
  hl      \* the match found: hl_start and hl_end as indices

vars == <<typed, item, buf, from, hl>>

(***************************************************************************)
(* Atoms: how they are written and what they mean (src/help.c, "Pattern    *)
(* options").                                                              *)
(***************************************************************************)
Spelled(b) == IF b \in Special THEN <<Escape, b>> ELSE <<b>>
SpelledAll(bs) == FlattenSeq([i \in DOMAIN bs |-> Spelled(bs[i])])

Literal(b) == [written |-> Spelled(b), means |-> {b}]
AnyByte    == [written |-> <<".">>, means |-> Byte]
SetOf(bs)  == [written |-> <<"[">> \o SpelledAll(bs) \o <<"]">>, means |-> Range(bs)]
NoneOf(bs) == [written |-> <<"[", "^">> \o SpelledAll(bs) \o <<"]">>, means |-> Byte \ Range(bs)]

FromTo(i, k) ==
  [written |-> <<"[">> \o Spelled(Bytes[i]) \o <<"-">> \o Spelled(Bytes[k]) \o <<"]">>,
   means |-> {Bytes[n] : n \in (i .. k) \cup (k .. i)}]

WildcardChar ==
  [ONE_ONLY |-> <<>>, NONE_OR_ONE |-> <<"?">>, NONE_OR_MORE |-> <<"*">>, ONE_OR_MORE |-> <<"+">>]

Optional == {"NONE_OR_ONE", "NONE_OR_MORE"}

Written(p) == FlattenSeq([i \in DOMAIN p |-> p[i].atom.written \o WildcardChar[p[i].wildcard]])

(***************************************************************************)
(* What matches: from the positions at, those behind one element.          *)
(***************************************************************************)
Behind(text, at, element) ==
  LET in(k) == k <= Len(text) /\ text[k] \in element.atom.means
      one  == {k + 1 : k \in {n \in at : in(n)}}
      more == {k \in 1 .. Len(text) + 1 : \E n \in at : n < k /\ \A i \in n .. k - 1 : in(i)}
  IN  CASE element.wildcard = "ONE_ONLY"     -> one
        [] element.wildcard = "NONE_OR_ONE"  -> at \cup one
        [] element.wildcard = "ONE_OR_MORE"  -> more
        [] element.wildcard = "NONE_OR_MORE" -> at \cup more

\* the indices behind the matches that begin at i, the empty match left out
MatchEnds(p, text, i) == FoldLeft(LAMBDA at, e : Behind(text, at, e), {i}, p) \ {i}

Shortest(p, text, i) ==
  [start |-> i, end |-> Min(MatchEnds(p, text, i) \cup {Len(text) + 2})]

\* a match there is, and one within "Maximum search match size (0=no max)"
IsMatch(text, m) == m.end <= Len(text) + 1
Allowed(m) == MaxMatch = 0 \/ m.end - m.start <= MaxMatch

\* the first match from index i on, and of those that begin there the shortest
Expected(p, text, i) ==
  LET found == {m \in {Shortest(p, text, k) : k \in i .. Len(text)} :
                  IsMatch(text, m) /\ Allowed(m)}
  IN  IF found = {} THEN NoMatch ELSE CHOOSE m \in found : \A n \in found : m.start <= n.start

(***************************************************************************)
(* The slips.                                                              *)
(***************************************************************************)
IsSet(e) == Head(e.atom.written) = "["

SlipAt(p, i, slip) ==
  LET e == p[i]
      behind == SubSeq(p, i + 1, Len(p))
      wild == e.wildcard # "ONE_ONLY" /\ behind # <<>>
  IN  CASE slip = "negated" -> /\ IsSet(e) /\ e.atom.written[2] = "^"
                               /\ \E k \in DOMAIN behind : IsSet(behind[k])
        [] slip = "end"     -> e.wildcard \in Optional /\ behind = <<>>
        [] slip = "row"     -> wild /\ Head(behind).wildcard \in Optional
        [] slip = "overlap" -> wild /\ Head(behind).atom.means \cap e.atom.means # {}
        [] slip \in {"escape", "long", "beyond", "unclosed"} -> FALSE

EscapesEarly(chars) ==
  \E i \in DOMAIN chars :
    chars[i] = Escape /\ \E k \in i + 2 .. Len(chars) : chars[k] \in Special

\* the last set has no end, or the last backslash nothing behind it
Unclosed(chars) ==
  \/ Last(chars) = Escape
  \/ \E i \in DOMAIN chars :
       /\ chars[i] = "["
       /\ \A k \in i + 1 .. Len(chars) : chars[k] = "]" => chars[k - 1] = Escape

SlipsOf(p) ==
  {slip \in AllSlips : \E i \in DOMAIN p : SlipAt(p, i, slip)}
    \cup {slip \in {"escape"} : EscapesEarly(Written(p))}

IsLong(p, text) ==
  \E i \in DOMAIN text : LET m == Shortest(p, text, i) IN IsMatch(text, m) /\ ~Allowed(m)

(***************************************************************************)
(* The steps.  Bound: one pattern and one buffer.                          *)
(***************************************************************************)
Init ==
  /\ typed = <<>> /\ item = [used |-> FALSE, criteria |-> <<>>]
  /\ buf = <<>> /\ from = 1 /\ hl = NoMatch

\* set_search_term
SetSearchTerm(chars) ==
  item' = [used |-> ~Compiled(chars).failed, criteria |-> Compiled(chars).criteria]

Type ==
  /\ typed = <<>>
  /\ \E p \in Patterns :
       SlipsOf(p) \subseteq Slips /\ SetSearchTerm(Written(p)) /\ typed' = p
  /\ UNCHANGED <<buf, from, hl>>

Mistype ==
  /\ typed = <<>> /\ ~item.used
  /\ \E chars \in Mistyped :
       ("unclosed" \in Slips \/ ~Unclosed(chars)) /\ SetSearchTerm(chars)
  /\ UNCHANGED <<typed, buf, from, hl>>

\* the bytes buf_search may read from the index i on: behind the end of the
\* buffer there is one more, never set
Readable(text, i) == IF i > Len(text) THEN {Append(text, stray) : stray \in Byte} ELSE {text}

\* buf_search from the index i on
Find(text, i) ==
  \E bytes \in Readable(text, i) :
    /\ buf' = text /\ from' = i
    /\ hl' = IF item.used THEN BufSearch(item.criteria, bytes, i) ELSE NoMatch
    /\ UNCHANGED <<typed, item>>

\* fill_search_buf: the first match
First ==
  /\ typed # <<>> /\ buf = <<>>
  /\ \E text \in Bufs : ("long" \in Slips \/ ~IsLong(typed, text)) /\ Find(text, 1)

\* the next match begins behind the start of this one
Again ==
  /\ hl.start > 0
  /\ "beyond" \in Slips \/ hl.start < Len(buf)
  /\ Find(buf, hl.start + 1)

Next == Type \/ Mistype \/ First \/ Again

Spec == Init /\ [][Next]_vars

\* What set_search_term compiles is the pattern meant: an escaped character
\* stands for itself, a set for its bytes, a negated one for the others, a range
\* in either direction for all between ("Pattern options", src/help.c); and a
\* character at a place where it means nothing has the pattern refused.  A string
\* that only stops too early is accepted: set_search_term looks at no flag when
\* the loop is over (slip "unclosed").
TermMeans ==
  IF typed = <<>> THEN ~item.used
  ELSE /\ item.used
       /\ Len(item.criteria) = Len(typed)
       /\ \A i \in DOMAIN typed :
            /\ Range(item.criteria[i].range) = typed[i].atom.means
            /\ item.criteria[i].wildcard = typed[i].wildcard

\* "Searching is non greedy, meaning wildcards will match the least number of
\* bytes possible" (src/help.c): every buf_search finds the first place where
\* the pattern matches, and there its shortest match, however far feed_search
\* and rollback went astray at the places before it.
FindsShortest == buf # <<>> => hl = Expected(typed, buf, from)
=============================================================================
