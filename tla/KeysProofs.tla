----------------------------- MODULE KeysProofs -----------------------------
(***************************************************************************)
(* A macro does what was recorded, whatever the macros, the keys and the   *)
(* room for them: the keys that are queued are the rest of the script, and *)
(* the reader is the one that read on when it was written.                 *)
(***************************************************************************)
EXTENDS Keys, SequenceTheorems, TLAPS

Events == [key : Keys, reader : Readers]

LEMMA NextKeyTyped ==
  ASSUME TypeOK, NEW key \in NextKeys
  PROVE  key \in Keys /\ Rest \in Seq(Keys)
  BY HeadTailProperties, EmptySeq DEF TypeOK, NextKeys, Rest

LEMMA AfterTyped ==
  ASSUME NEW m \in Readers, NEW key \in Keys
  PROVE  After(m, key) \in Readers
  BY DEF After, Readers

LEMMA RecordedTyped ==
  ASSUME TypeOK, NEW key \in Keys
  PROVE  Recorded(key) \in [Letters -> Seq(Keys)]
  BY AppendProperties DEF TypeOK, Recorded

LEMMA WatchedTyped ==
  ASSUME TypeOK, NEW key \in Keys, Watched(key)
  PROVE  /\ script' \in [Letters -> Seq(Events)]
         /\ played' \in [of : Letters \cup {NoMacro}, ran : Seq(Events)]
  <1>1. Seen(key) \in Events
    BY DEF Seen, TypeOK, Events
  <1>2. script' \in [Letters -> Seq(Events)]
    BY <1>1, AppendProperties DEF TypeOK, Watched, Events
  <1>3. Nothing \in [of : Letters \cup {NoMacro}, ran : Seq(Events)]
    BY EmptySeq DEF Nothing
  <1>4. [played EXCEPT !.ran = Append(@, Seen(key))] \in [of : Letters \cup {NoMacro}, ran : Seq(Events)]
    <2>1. Append(played.ran, Seen(key)) \in Seq(Events)
      BY <1>1, AppendProperties DEF TypeOK, Events
    <2> QED BY <2>1 DEF TypeOK, Events
  <1>5. played' \in [of : Letters \cup {NoMacro}, ran : Seq(Events)]
    BY <1>3, <1>4 DEF Watched, TypeOK, Events
  <1> QED BY <1>2, <1>5

LEMMA WithoutLastTyped ==
  ASSUME NEW keys \in Seq(Keys)
  PROVE  /\ WithoutLast(keys) \in Seq(Keys)
         /\ keys # <<>> => Len(WithoutLast(keys)) = Len(keys) - 1
         /\ \A i \in 1 .. Len(keys) - 1 : WithoutLast(keys)[i] = keys[i]
  <1>1. Len(keys) \in Nat /\ (keys # <<>> => Len(keys) # 0)
    BY LenProperties, EmptySeq
  <1>2. \A i \in 1 .. Len(keys) - 1 : keys[i] \in Keys
    BY <1>1, ElementOfSeq
  <1> DEFINE n == Len(keys) - 1
             short == SubSeq(keys, 1, n)
  <1>3. n \in Int /\ 1 \in Int
    BY <1>1
  <1>4. /\ short \in Seq(Keys)
        /\ Len(short) = IF 1 <= n THEN n - 1 + 1 ELSE 0
        /\ \A i \in 1 .. n - 1 + 1 : short[i] = keys[1 + i - 1]
    BY <1>2, <1>3, SubSeqProperties
  <1>5. keys # <<>> => n \in Nat
    BY <1>1
  <1> HIDE DEF short, n
  <1>6. keys # <<>> => Len(short) = n
    BY <1>4, <1>5
  <1>7. \A i \in 1 .. n : short[i] = keys[i]
    BY <1>3, <1>4
  <1> QED BY <1>4, <1>6, <1>7 DEF WithoutLast, short, n

LEMMA PushedTyped ==
  ASSUME NEW keys \in Seq(Keys), NEW queued \in Seq(Keys)
  PROVE  Pushed(keys, queued) \in Seq(Keys)
  <1> DEFINE room == Capacity - Len(queued)
             kept == SubSeq(keys, Len(keys) - room + 1, Len(keys))
  <1>1. Len(keys) \in Nat /\ Len(queued) \in Nat /\ Capacity \in Nat
    BY LenProperties, KeysAssumption
  <1>2. CASE Len(keys) <= room
    BY <1>2, ConcatProperties DEF Pushed
  <1>3. CASE ~(Len(keys) <= room) /\ room >= 0
    <2>1. \A i \in Len(keys) - room + 1 .. Len(keys) : keys[i] \in Keys
      BY <1>1, <1>3, ElementOfSeq
    <2>2. kept \in Seq(Keys)
      BY <1>1, <2>1, SubSeqProperties
    <2> QED BY <1>3, <2>2, ConcatProperties DEF Pushed
  <1>4. CASE ~(Len(keys) <= room) /\ ~(room >= 0)
    <2>1. kept = <<>>
      BY <1>1, <1>4, SubSeqEmpty
    <2> QED BY <1>4, <2>1, ConcatProperties, EmptySeq DEF Pushed
  <1> QED BY <1>2, <1>3, <1>4

LEMMA ReadTyped ==
  ASSUME TypeOK, NEW key \in NextKeys, Read(key)
  PROVE  TypeOK'
  <1>1. key \in Keys /\ Rest \in Seq(Keys)
    BY NextKeyTyped
  <1>2. After(reader, key) \in Readers
    BY <1>1, AfterTyped DEF TypeOK
  <1>3. Recorded(key) \in [Letters -> Seq(Keys)]
    BY <1>1, RecordedTyped
  <1>4. /\ script' \in [Letters -> Seq(Events)]
        /\ played' \in [of : Letters \cup {NoMacro}, ran : Seq(Events)]
    BY <1>1, WatchedTyped DEF Read
  <1> QED BY <1>1, <1>2, <1>3, <1>4 DEF Read, TypeOK, Events

\* Types in every reachable state, slips or not: mwgetch never indexes
\* macro_record with anything but a macro (handle_key '@' and 'q').
THEOREM KeysTyped == Spec => []TypeOK
  <1>1. Init => TypeOK
    BY EmptySeq DEF Init, TypeOK, Nothing, Readers
  <1>2. TypeOK /\ [Next]_vars => TypeOK'
    <2> SUFFICES ASSUME TypeOK, [Next]_vars PROVE TypeOK'
      OBVIOUS
    <2>1. ASSUME NEW key \in NextKeys,
                 Command(key) \/ Mark(key) \/ Motion(key) \/ Go(key) \/ Box(key)
          PROVE  TypeOK'
      BY <2>1, ReadTyped DEF Command, Mark, Motion, Go, Box
    <2>2. ASSUME NEW key \in NextKeys, GoMotion(key)
          PROVE  TypeOK'
      <3>1. key \in Keys /\ Rest \in Seq(Keys)
        BY NextKeyTyped
      <3>2. <<key>> \in Seq(Keys)
        BY <3>1
      <3>3. Pushed(<<key>>, Rest) \in Seq(Keys)
        BY <3>1, <3>2, PushedTyped
      <3>4. Recorded(key) \in [Letters -> Seq(Keys)]
        BY <3>1, RecordedTyped
      <3> QED BY <2>2, <3>3, <3>4 DEF GoMotion, ReaderOfMotion, Unwatched, TypeOK, Readers
    <2>3. ASSUME NEW key \in NextKeys, StartRecord(key)
          PROVE  TypeOK'
      <3>1. key \in Keys /\ Rest \in Seq(Keys)
        BY NextKeyTyped
      <3>2. /\ script' \in [Letters -> Seq(Events)]
            /\ played' \in [of : Letters \cup {NoMacro}, ran : Seq(Events)]
        BY <2>3, <3>1, WatchedTyped DEF StartRecord
      <3> QED BY <2>3, <3>1, <3>2 DEF StartRecord, TypeOK, Events, Readers
    <2>4. ASSUME NEW key \in NextKeys, RecordName(key)
          PROVE  TypeOK'
      <3>1. Rest \in Seq(Keys)
        BY NextKeyTyped
      <3>2. /\ macro_record' \in [Letters -> Seq(Keys)]
            /\ script' \in [Letters -> Seq([key : Keys, reader : Readers])]
        <4>1. <<>> \in Seq(Keys) /\ <<>> \in Seq([key : Keys, reader : Readers])
          BY EmptySeq
        <4>2. macro_record' \in [Letters -> Seq(Keys)]
          BY <2>4, <4>1 DEF RecordName, TypeOK
        <4>3. script' \in [Letters -> Seq([key : Keys, reader : Readers])]
          BY <2>4, <4>1 DEF RecordName, TypeOK
        <4> QED BY <4>2, <4>3
      <3>3. reader' \in Readers /\ macro_key' \in Letters \cup {NoMacro}
        BY <2>4 DEF RecordName, IsName, TypeOK, Readers
      <3> QED BY <2>4, <3>1, <3>2, <3>3 DEF RecordName, TypeOK
    <2>5. ASSUME NEW key \in NextKeys, StopRecord(key)
          PROVE  TypeOK'
      <3>1. key \in Keys /\ Rest \in Seq(Keys)
        BY NextKeyTyped
      <3>2. Recorded(key) \in [Letters -> Seq(Keys)]
        BY <3>1, RecordedTyped
      <3>3. WithoutLast(Recorded(key)[macro_key]) \in Seq(Keys)
        BY <2>5, <3>2, WithoutLastTyped DEF StopRecord, TypeOK
      <3>4. macro_record' \in [Letters -> Seq(Keys)]
        BY <2>5, <3>2, <3>3 DEF StopRecord
      <3>5. played' \in [of : Letters \cup {NoMacro}, ran : Seq(Events)]
        BY <2>5, EmptySeq DEF StopRecord, TypeOK, Nothing, Events
      <3> QED BY <2>5, <3>1, <3>4, <3>5 DEF StopRecord, TypeOK, Events
    <2>6. ASSUME NEW key \in NextKeys, Play(key)
          PROVE  TypeOK'
      <3>1. key \in Keys /\ Rest \in Seq(Keys)
        BY NextKeyTyped
      <3>2. Recorded(key) \in [Letters -> Seq(Keys)]
        BY <3>1, RecordedTyped
      <3>3. played' \in [of : Letters \cup {NoMacro}, ran : Seq(Events)]
        BY <2>6, EmptySeq DEF Play, TypeOK, Nothing, Events
      <3> QED BY <2>6, <3>1, <3>2, <3>3 DEF Play, TypeOK, Events, Readers
    <2>7. ASSUME NEW key \in NextKeys, NoSuchMacro(key)
          PROVE  TypeOK'
      <3>1. Rest \in Seq(Keys)
        BY NextKeyTyped
      <3> QED BY <2>7, <3>1 DEF NoSuchMacro, Unwatched, TypeOK, Readers
    <2>8. ASSUME NEW key \in NextKeys, PlayMacro(key)
          PROVE  TypeOK'
      <3> DEFINE macro == Named(key)
      <3>1. Rest \in Seq(Keys) /\ macro \in Letters
        BY <2>8, NextKeyTyped DEF PlayMacro, IsName
      <3>2. WithoutLast(macro_record[macro]) \in Seq(Keys)
        BY <3>1, WithoutLastTyped DEF TypeOK
      <3>3. WithoutPlay(macro) \in [Letters -> Seq(Keys)]
        BY <3>1, <3>2 DEF WithoutPlay, TypeOK
      <3>4. Pushed(WithoutPlay(macro)[macro], Rest) \in Seq(Keys)
        BY <3>1, <3>3, PushedTyped
      <3>5. played' \in [of : Letters \cup {NoMacro}, ran : Seq(Events)]
        BY <2>8, <3>1, EmptySeq DEF PlayMacro, TypeOK, Events
      <3> QED BY <2>8, <3>1, <3>3, <3>4, <3>5 DEF PlayMacro, TypeOK, Events, Readers
    <2>9. ASSUME NEW key \in NextKeys, StatusReads(key)
          PROVE  TypeOK'
      <3>1. key \in Keys /\ Rest \in Seq(Keys)
        BY NextKeyTyped
      <3>2. Recorded(key) \in [Letters -> Seq(Keys)]
        BY <3>1, RecordedTyped
      <3> QED BY <2>9, <3>1, <3>2 DEF StatusReads, Unwatched, TypeOK
    <2>10. CASE SearchEnds
      BY <2>10 DEF SearchEnds, Unwatched, TypeOK, Readers
    <2>11. CASE UNCHANGED vars
      BY <2>11 DEF vars, TypeOK
    <2> QED
      BY <2>1, <2>2, <2>3, <2>4, <2>5, <2>6, <2>7, <2>8, <2>9, <2>10, <2>11 DEF Next, Take
  <1> QED
    BY <1>1, <1>2, PTL DEF Spec

-----------------------------------------------------------------------------
\* A search leaves the keys to the main loop.
Settled(m) == IF m = "search" THEN "command" ELSE m

ReaderAfter(s) ==
  IF Len(s) = 0 THEN "command" ELSE Settled(After(s[Len(s)].reader, s[Len(s)].key))

\* What a macro may hold: no q or @ that the main loop would obey, and no
\* motion behind g, which would be in it twice
Aligned(e) ==
  /\ e.reader \in {"command", "mark", "motion", "go"}
  /\ e.reader = "command" => e.key \notin {"q", "@"}
  /\ e.reader = "go" => e.key \in {"g"} \cup Digits

\* every key was read by the reader that the key before it left
Chained(s) ==
  \A i \in 1 .. Len(s) :
    /\ Aligned(s[i])
    /\ s[i].reader = IF i = 1 THEN "command" ELSE Settled(After(s[i - 1].reader, s[i - 1].key))

KeysOf(keys, s) == Len(keys) = Len(s) /\ \A i \in 1 .. Len(s) : keys[i] = s[i].key

\* a macro that is not being recorded is what was meant, and whole
RecordsMeant ==
  \A n \in Letters :
    /\ Chained(script[n])
    /\ n # macro_key => KeysOf(macro_record[n], script[n]) /\ ReaderAfter(script[n]) = "command"

\* the one that is has an @ too much between the @ and the name
RecordingMeant ==
  macro_key # NoMacro =>
    /\ reader \notin {"record", "box"}
    /\ reader # "play" => /\ KeysOf(macro_record[macro_key], script[macro_key])
                          /\ ReaderAfter(script[macro_key]) = Settled(reader)
    /\ reader = "play" => /\ macro_record[macro_key] # <<>>
                          /\ KeysOf(WithoutLast(macro_record[macro_key]), script[macro_key])
                          /\ ReaderAfter(script[macro_key]) = "command"

\* what is queued is the rest of the script
Follows ==
  /\ reader \in {"record", "box", "play"} => played.of = NoMacro
  /\ played.of # NoMacro =>
       LET meant == script[played.of]
           n == Len(played.ran)
       IN  /\ macro_key = NoMacro
           /\ Len(meant) = n + Len(queue)
           /\ \A i \in 1 .. n : played.ran[i] = meant[i]
           /\ \A i \in 1 .. Len(queue) : queue[i] = meant[n + i].key
           /\ Settled(reader) = IF n = 0 THEN "command"
                                ELSE Settled(After(meant[n].reader, meant[n].key))

ReplayInv == RecordsMeant /\ RecordingMeant /\ Follows

LEMMA ChainGrows ==
  ASSUME NEW s \in Seq(Events), Chained(s), NEW e \in Events, Aligned(e),
         e.reader = ReaderAfter(s)
  PROVE  /\ Chained(Append(s, e))
         /\ ReaderAfter(Append(s, e)) = Settled(After(e.reader, e.key))
  <1> DEFINE t == Append(s, e)
             n == Len(s)
  <1>1. n \in Nat /\ Len(t) = n + 1 /\ t[n + 1] = e /\ \A i \in 1 .. n : t[i] = s[i]
    BY AppendProperties, LenProperties
  <1>2. ReaderAfter(t) = Settled(After(e.reader, e.key))
    BY <1>1 DEF ReaderAfter
  <1>3. ASSUME NEW i \in 1 .. n
        PROVE  /\ Aligned(t[i])
               /\ t[i].reader = IF i = 1 THEN "command"
                                ELSE Settled(After(t[i - 1].reader, t[i - 1].key))
    <2>1. t[i] = s[i] /\ (i # 1 => t[i - 1] = s[i - 1])
      BY <1>1
    <2> QED BY <2>1 DEF Chained
  <1>4. e.reader = IF n + 1 = 1 THEN "command"
                   ELSE Settled(After(t[n + 1 - 1].reader, t[n + 1 - 1].key))
    BY <1>1 DEF ReaderAfter
  <1> HIDE DEF t, n
  <1>5. ASSUME NEW i \in 1 .. Len(t)
        PROVE  /\ Aligned(t[i])
               /\ t[i].reader = IF i = 1 THEN "command"
                                ELSE Settled(After(t[i - 1].reader, t[i - 1].key))
    <2>1. i \in 1 .. n \/ i = n + 1
      BY <1>1
    <2>2. CASE i = n + 1
      BY <1>1, <1>4, <2>2
    <2> QED BY <1>3, <2>1, <2>2
  <1>6. Chained(t)
    BY <1>5 DEF Chained
  <1> QED BY <1>2, <1>6 DEF t

LEMMA KeysOfGrow ==
  ASSUME NEW keys \in Seq(Keys), NEW s \in Seq(Events), KeysOf(keys, s),
         NEW e \in Events
  PROVE  KeysOf(Append(keys, e.key), Append(s, e))
  <1>1. e.key \in Keys
    BY DEF Events
  <1>2. /\ Len(keys) \in Nat /\ Len(Append(keys, e.key)) = Len(keys) + 1
        /\ Append(keys, e.key)[Len(keys) + 1] = e.key
        /\ \A i \in 1 .. Len(keys) : Append(keys, e.key)[i] = keys[i]
    BY <1>1, AppendProperties, LenProperties
  <1>3. /\ Len(Append(s, e)) = Len(s) + 1 /\ Append(s, e)[Len(s) + 1] = e
        /\ \A i \in 1 .. Len(s) : Append(s, e)[i] = s[i]
    BY AppendProperties
  <1> QED BY <1>2, <1>3 DEF KeysOf

\* what is recorded without the key that was recorded last
LEMMA WithoutAppended ==
  ASSUME NEW keys \in Seq(Keys), NEW key \in Keys, NEW s \in Seq(Events), KeysOf(keys, s)
  PROVE  /\ KeysOf(WithoutLast(Append(keys, key)), s)
         /\ Append(keys, key) # <<>>
  <1> DEFINE more == Append(keys, key)
  <1>1. /\ more \in Seq(Keys) /\ Len(more) = Len(keys) + 1 /\ Len(keys) \in Nat
        /\ \A i \in 1 .. Len(keys) : more[i] = keys[i]
    BY AppendProperties, LenProperties
  <1> HIDE DEF more
  <1>2. more # <<>>
    BY <1>1, EmptySeq
  <1>3. /\ Len(WithoutLast(more)) = Len(more) - 1
        /\ \A i \in 1 .. Len(more) - 1 : WithoutLast(more)[i] = more[i]
    BY <1>1, <1>2, WithoutLastTyped
  <1>4. KeysOf(WithoutLast(more), s)
    BY <1>1, <1>3 DEF KeysOf
  <1> QED BY <1>2, <1>4 DEF more

\* The next key of a macro that is played is the next one of its script, and
\* is read as it was then.
LEMMA PlayedKey ==
  ASSUME TypeOK, ReplayInv, NEW key \in NextKeys, played.of # NoMacro
  PROVE  /\ queue = <<>> => reader \in {"command", "search"}
         /\ queue # <<>> /\ reader # "search" =>
              /\ Len(played.ran) + 1 \in 1 .. Len(script[played.of])
              /\ Seen(key) = script[played.of][Len(played.ran) + 1]
              /\ Aligned(Seen(key))
  <1> DEFINE meant == script[played.of]
             n == Len(played.ran)
  <1>1. played.of \in Letters /\ played.of # macro_key
    BY DEF TypeOK, ReplayInv, Follows
  <1>2. meant \in Seq(Events) /\ n \in Nat /\ Len(queue) \in Nat /\ Len(meant) \in Nat
    BY <1>1, LenProperties DEF TypeOK, Events
  <1>3. /\ Len(meant) = n + Len(queue)
        /\ \A i \in 1 .. Len(queue) : queue[i] = meant[n + i].key
        /\ Settled(reader) = IF n = 0 THEN "command"
                             ELSE Settled(After(meant[n].reader, meant[n].key))
    BY DEF ReplayInv, Follows
  <1>4. Chained(meant) /\ ReaderAfter(meant) = "command"
    BY <1>1 DEF ReplayInv, RecordsMeant
  <1>5. ASSUME queue = <<>>
        PROVE  reader \in {"command", "search"}
    <2>1. Len(meant) = n
      BY <1>2, <1>3, <1>5, EmptySeq
    <2>2. Settled(reader) = "command"
      BY <1>3, <1>4, <2>1 DEF ReaderAfter
    <2> QED BY <2>2 DEF Settled
  <1>6. ASSUME queue # <<>>, reader # "search"
        PROVE  n + 1 \in 1 .. Len(meant) /\ Seen(key) = meant[n + 1] /\ Aligned(Seen(key))
    <2>1. key = queue[1] /\ Len(queue) >= 1
      <3>1. Len(queue) # 0
        BY <1>6, EmptySeq DEF TypeOK
      <3>2. Head(queue) = queue[1]
        BY <1>6 DEF TypeOK
      <3> QED BY <1>2, <1>6, <3>1, <3>2 DEF NextKeys
    <2>2. n + 1 \in 1 .. Len(meant)
      BY <1>2, <1>3, <2>1
    <2>3. meant[n + 1].key = key
      BY <1>2, <1>3, <2>1
    <2>4. meant[n + 1].reader = reader /\ Aligned(meant[n + 1])
      <3>1. /\ Aligned(meant[n + 1])
            /\ meant[n + 1].reader =
                 IF n + 1 = 1 THEN "command"
                 ELSE Settled(After(meant[n + 1 - 1].reader, meant[n + 1 - 1].key))
        BY <1>4, <2>2 DEF Chained
      <3>2. meant[n + 1].reader = Settled(reader)
        BY <1>2, <1>3, <3>1
      <3> QED BY <1>6, <3>1, <3>2 DEF Settled
    <2>5. meant[n + 1] \in [key : Keys, reader : Readers]
      BY <1>2, <2>2, ElementOfSeq DEF Events
    <2>6. Seen(key) = meant[n + 1]
      BY <2>3, <2>4, <2>5 DEF Seen
    <2> QED BY <2>2, <2>4, <2>6
  <1> QED BY <1>5, <1>6

\* a key that the program reads, records and acts on
LEMMA ReadKeeps ==
  ASSUME TypeOK, ReplayInv, NEW key \in NextKeys, Read(key), Aligned(Seen(key))
  PROVE  ReplayInv'
  <1>1. key \in Keys /\ Rest \in Seq(Keys) /\ Seen(key) \in Events
    BY NextKeyTyped DEF Seen, Events, TypeOK
  <1>2. /\ Seen(key).key = key /\ Seen(key).reader = reader
        /\ reader \in {"command", "mark", "motion", "go"} /\ Settled(reader) = reader
    BY DEF Seen, Aligned, Settled
  <1>3. reader' = After(reader, key) /\ reader' \notin {"record", "box", "play"}
    BY DEF Read, After
  <1>4. UNCHANGED macro_key
    BY DEF Read
  <1>5. CASE macro_key = NoMacro
    <2>1. RecordsMeant' /\ RecordingMeant'
      BY <1>4, <1>5 DEF Read, Watched, Recorded, ReplayInv, RecordsMeant, RecordingMeant
    <2>2. CASE played.of # NoMacro /\ queue # <<>>
      <3> DEFINE meant == script[played.of]
                 n == Len(played.ran)
      <3>1. /\ n + 1 \in 1 .. Len(meant)
            /\ Seen(key) = meant[n + 1]
        BY <1>2, <2>2, PlayedKey
      <3>2. /\ Len(meant) = n + Len(queue)
            /\ \A i \in 1 .. n : played.ran[i] = meant[i]
            /\ \A i \in 1 .. Len(queue) : queue[i] = meant[n + i].key
        BY <2>2 DEF ReplayInv, Follows
      <3>3. /\ played'.of = played.of /\ played'.ran = Append(played.ran, Seen(key))
            /\ script' = script /\ queue' = Tail(queue)
        BY <1>5, <2>2 DEF Read, Watched, Rest, TypeOK
      <3>4. /\ n \in Nat /\ Len(played'.ran) = n + 1
            /\ played'.ran[n + 1] = Seen(key)
            /\ \A i \in 1 .. n : played'.ran[i] = played.ran[i]
        BY <1>1, <3>3, AppendProperties, LenProperties DEF TypeOK, Events
      <3>5. /\ Len(queue) \in Nat /\ Len(queue') = Len(queue) - 1
            /\ \A i \in 1 .. Len(queue') : queue'[i] = queue[i + 1]
        BY <2>2, <3>3, HeadTailProperties, LenProperties DEF TypeOK
      <3> HIDE DEF meant, n
      <3>6. Len(meant) = (n + 1) + Len(queue')
        BY <3>2, <3>4, <3>5
      <3>7. \A i \in 1 .. n + 1 : played'.ran[i] = meant[i]
        BY <3>1, <3>2, <3>4
      <3>8. \A i \in 1 .. Len(queue') : queue'[i] = meant[(n + 1) + i].key
        <4> TAKE i \in 1 .. Len(queue')
        <4>1. i + 1 \in 1 .. Len(queue) /\ n + (i + 1) = (n + 1) + i
          BY <3>4, <3>5
        <4> QED BY <3>2, <3>5, <4>1
      <3>9. Settled(reader') = Settled(After(meant[n + 1].reader, meant[n + 1].key))
        BY <1>2, <1>3, <3>1
      <3>10. played.of # NoMacro /\ n + 1 # 0
        BY <2>2, <3>4
      <3>11. Follows'
        BY <1>3, <1>4, <1>5, <3>3, <3>4, <3>6, <3>7, <3>8, <3>9, <3>10 DEF Follows, meant
      <3> QED BY <2>1, <3>11 DEF ReplayInv
    <2>3. CASE ~(played.of # NoMacro /\ queue # <<>>)
      <3>1. played'.of = NoMacro
        <4>1. CASE played.of = NoMacro
          BY <2>3, <4>1 DEF Read, Watched, Nothing
        <4>2. CASE played.of # NoMacro
          <5>1. reader = "command"
            BY <1>2, <2>3, <4>2, PlayedKey
          <5> QED BY <2>3, <5>1 DEF Read, Watched, Nothing
        <4> QED BY <4>1, <4>2
      <3> QED BY <1>3, <2>1, <3>1 DEF ReplayInv, Follows
    <2> QED BY <2>2, <2>3
  <1>6. CASE macro_key # NoMacro
    <2>1. macro_key \in Letters /\ played.of = NoMacro
      BY <1>6 DEF TypeOK, ReplayInv, Follows
    <2>2. played'.of = NoMacro
      BY <2>1 DEF Read, Watched, Nothing
    <2> DEFINE keys == macro_record[macro_key]
               meant == script[macro_key]
    <2>3. keys \in Seq(Keys) /\ meant \in Seq(Events)
      BY <2>1 DEF TypeOK, Events
    <2>4. Chained(meant) /\ KeysOf(keys, meant) /\ ReaderAfter(meant) = reader
      BY <1>2, <1>6, <2>1 DEF ReplayInv, RecordsMeant, RecordingMeant
    <2>5. /\ macro_record' = [macro_record EXCEPT ![macro_key] = Append(keys, key)]
          /\ script' = [script EXCEPT ![macro_key] = Append(meant, Seen(key))]
      BY <1>6 DEF Read, Recorded, Watched
    <2>6. /\ macro_record'[macro_key] = Append(keys, key)
          /\ script'[macro_key] = Append(meant, Seen(key))
          /\ \A n \in Letters : n # macro_key =>
               macro_record'[n] = macro_record[n] /\ script'[n] = script[n]
      BY <2>1, <2>5 DEF TypeOK
    <2>7. KeysOf(macro_record'[macro_key], script'[macro_key])
      BY <1>1, <1>2, <2>3, <2>4, <2>6, KeysOfGrow
    <2>8. /\ Chained(script'[macro_key])
          /\ ReaderAfter(script'[macro_key]) = Settled(reader')
      BY <1>1, <1>2, <1>3, <2>3, <2>4, <2>6, ChainGrows
    <2>9. RecordsMeant'
      BY <1>4, <2>1, <2>6, <2>8 DEF ReplayInv, RecordsMeant
    <2>10. RecordingMeant'
      BY <1>3, <1>4, <2>7, <2>8 DEF RecordingMeant
    <2> QED BY <1>3, <2>2, <2>9, <2>10 DEF ReplayInv, Follows
  <1> QED BY <1>5, <1>6

\* while a macro is played no key of it starts or plays another one
LEMMA PlayedObeysNoMacro ==
  ASSUME TypeOK, ReplayInv, NEW key \in NextKeys, reader = "command", key \in {"q", "@"}
  PROVE  played.of = NoMacro \/ queue = <<>>
  <1>1. ASSUME played.of # NoMacro, queue # <<>>
        PROVE  FALSE
    <2>1. Aligned(Seen(key))
      BY <1>1, PlayedKey
    <2> QED BY <2>1 DEF Aligned, Seen
  <1> QED BY <1>1

\* nor does it push one back that g took
LEMMA PlayedPushesNone ==
  ASSUME TypeOK, ReplayInv, NEW key \in NextKeys, reader = "go",
         key \notin {"g"} \cup Digits
  PROVE  played.of = NoMacro
  <1>1. ASSUME played.of # NoMacro
        PROVE  FALSE
    <2>1. queue # <<>>
      BY <1>1, PlayedKey
    <2>2. Aligned(Seen(key))
      BY <1>1, <2>1, PlayedKey
    <2> QED BY <2>2 DEF Aligned, Seen
  <1> QED BY <1>1

LEMMA NothingRecorded ==
  /\ Chained(<<>>) /\ KeysOf(<<>>, <<>>) /\ ReaderAfter(<<>>) = "command"
  BY DEF Chained, KeysOf, ReaderAfter

\* The inductive invariant: the recorded keys are those meant, the queued ones
\* are the rest of them, and each reader hands on to the next.
THEOREM ReplayInvariant ==
  ASSUME Slips = {}
  PROVE  Spec => []ReplayInv
  <1>1. Init => ReplayInv
    BY NothingRecorded
    DEF Init, ReplayInv, RecordsMeant, RecordingMeant, Follows, Nothing
  <1>2. TypeOK /\ ReplayInv /\ [Next]_vars => ReplayInv'
    <2> SUFFICES ASSUME TypeOK, ReplayInv, [Next]_vars PROVE ReplayInv'
      OBVIOUS
    <2>1. ASSUME NEW key \in NextKeys,
                 Command(key) \/ Mark(key) \/ Motion(key) \/ Go(key)
          PROVE  ReplayInv'
      <3>1. Aligned(Seen(key)) /\ Read(key)
        BY <2>1 DEF Command, Mark, Motion, Go, Aligned, Seen
      <3> QED BY <3>1, ReadKeeps
    <2>2. ASSUME NEW key \in NextKeys, GoMotion(key)
          PROVE  ReplayInv'
      <3>1. macro_key = NoMacro /\ played.of = NoMacro
        BY <2>2, PlayedPushesNone DEF GoMotion
      <3>2. /\ UNCHANGED <<macro_key, macro_record, script, played>>
            /\ reader' = "motion"
        BY <2>2, <3>1 DEF GoMotion, ReaderOfMotion, Recorded, Unwatched
      <3> QED
        BY <3>1, <3>2 DEF ReplayInv, RecordsMeant, RecordingMeant, Follows
    <2>3. ASSUME NEW key \in NextKeys, StartRecord(key)
          PROVE  ReplayInv'
      <3>1. played.of = NoMacro \/ queue = <<>>
        BY <2>3, PlayedObeysNoMacro DEF StartRecord
      <3>2. played'.of = NoMacro /\ UNCHANGED <<macro_key, macro_record, script>>
        BY <2>3, <3>1 DEF StartRecord, Watched, Nothing
      <3>3. macro_key = NoMacro
        BY <2>3 DEF StartRecord
      <3> QED
        BY <3>2, <3>3 DEF ReplayInv, RecordsMeant, RecordingMeant, Follows
    <2>4. ASSUME NEW key \in NextKeys, RecordName(key)
          PROVE  ReplayInv'
      <3>1. macro_key = NoMacro /\ played.of = NoMacro /\ played' = played
        BY <2>4 DEF RecordName, ReplayInv, RecordingMeant, Follows
      <3>2. CASE IsName(key)
        <4>1. /\ macro_key' = key /\ reader' = "command" /\ key \in Letters
              /\ macro_record'[key] = <<>> /\ script'[key] = <<>>
              /\ \A n \in Letters : n # key =>
                   macro_record'[n] = macro_record[n] /\ script'[n] = script[n]
          BY <2>4, <3>2 DEF RecordName, IsName, TypeOK
        <4>2. RecordsMeant'
          <5> SUFFICES ASSUME NEW n \in Letters
                       PROVE  /\ Chained(script'[n])
                              /\ n # macro_key' =>
                                   /\ KeysOf(macro_record'[n], script'[n])
                                   /\ ReaderAfter(script'[n]) = "command"
            BY DEF RecordsMeant
          <5>1. CASE n = key
            BY <4>1, <5>1, NothingRecorded
          <5>2. CASE n # key
            <6>1. n # macro_key
              BY <3>1, KeysAssumption DEF Keys
            <6> QED BY <4>1, <5>2, <6>1 DEF ReplayInv, RecordsMeant
          <5> QED BY <5>1, <5>2
        <4>3. RecordingMeant'
          BY <4>1, NothingRecorded DEF RecordingMeant, Settled
        <4> QED BY <3>1, <4>2, <4>3 DEF ReplayInv, Follows
      <3>3. CASE ~IsName(key)
        BY <2>4, <3>1, <3>3
        DEF RecordName, ReplayInv, RecordsMeant, RecordingMeant, Follows
      <3> QED BY <3>2, <3>3
    <2>5. ASSUME NEW key \in NextKeys, Box(key)
          PROVE  ReplayInv'
      <3>1. macro_key = NoMacro /\ played.of = NoMacro
        BY <2>5 DEF Box, ReplayInv, RecordingMeant, Follows
      <3>2. UNCHANGED <<macro_key, macro_record, script, played>> /\ reader' = "command"
        BY <2>5, <3>1 DEF Box, Read, Recorded, Watched, After
      <3> QED
        BY <3>1, <3>2 DEF ReplayInv, RecordsMeant, RecordingMeant, Follows
    <2>6. ASSUME NEW key \in NextKeys, StopRecord(key)
          PROVE  ReplayInv'
      <3> DEFINE keys == macro_record[macro_key]
                 meant == script[macro_key]
      <3>1. macro_key \in Letters /\ key \in Keys /\ macro_key # NoMacro
        BY <2>6, NextKeyTyped DEF StopRecord, TypeOK
      <3>2. /\ KeysOf(keys, meant) /\ ReaderAfter(meant) = "command"
            /\ played.of = NoMacro
        BY <2>6, <3>1 DEF StopRecord, ReplayInv, RecordingMeant, Follows, Settled
      <3>3. keys \in Seq(Keys) /\ meant \in Seq(Events)
        BY <3>1 DEF TypeOK, Events
      <3>4. KeysOf(WithoutLast(Append(keys, key)), meant)
        BY <3>1, <3>2, <3>3, WithoutAppended
      <3>5. /\ macro_record'[macro_key] = WithoutLast(Append(keys, key))
            /\ \A n \in Letters : n # macro_key => macro_record'[n] = macro_record[n]
            /\ script' = script /\ macro_key' = NoMacro /\ reader' = "command"
        BY <2>6, <3>1 DEF StopRecord, Recorded, TypeOK
      <3>6. RecordsMeant'
        BY <3>2, <3>4, <3>5 DEF ReplayInv, RecordsMeant
      <3>7. played'.of = NoMacro
        BY <2>6, <3>2 DEF StopRecord, Nothing
      <3> QED BY <3>5, <3>6, <3>7 DEF ReplayInv, RecordingMeant, Follows
    <2>7. ASSUME NEW key \in NextKeys, Play(key)
          PROVE  ReplayInv'
      <3>1. played'.of = NoMacro
        <4>1. played.of = NoMacro \/ queue = <<>>
          BY <2>7, PlayedObeysNoMacro DEF Play
        <4> QED BY <2>7, <4>1 DEF Play, Nothing
      <3>2. CASE macro_key = NoMacro
        BY <2>7, <3>1, <3>2
        DEF Play, Recorded, ReplayInv, RecordsMeant, RecordingMeant, Follows
      <3>3. CASE macro_key # NoMacro
        <4> DEFINE keys == macro_record[macro_key]
                   meant == script[macro_key]
        <4>1. macro_key \in Letters /\ key \in Keys
          BY <3>3, NextKeyTyped DEF TypeOK
        <4>2. keys \in Seq(Keys) /\ meant \in Seq(Events)
          BY <4>1 DEF TypeOK, Events
        <4>3. KeysOf(keys, meant) /\ ReaderAfter(meant) = "command"
          BY <2>7, <3>3 DEF Play, ReplayInv, RecordingMeant, Settled
        <4>4. /\ KeysOf(WithoutLast(Append(keys, key)), meant)
              /\ Append(keys, key) # <<>>
          BY <4>1, <4>2, <4>3, WithoutAppended
        <4>5. /\ macro_record'[macro_key] = Append(keys, key)
              /\ \A n \in Letters : n # macro_key => macro_record'[n] = macro_record[n]
              /\ UNCHANGED <<script, macro_key>> /\ reader' = "play"
          BY <2>7, <3>3, <4>1 DEF Play, Recorded, TypeOK
        <4>6. RecordsMeant' /\ RecordingMeant'
          BY <4>3, <4>4, <4>5 DEF ReplayInv, RecordsMeant, RecordingMeant
        <4> QED BY <3>1, <4>6 DEF ReplayInv, Follows
      <3> QED BY <3>2, <3>3
    <2>8. ASSUME NEW key \in NextKeys, NoSuchMacro(key)
          PROVE  ReplayInv'
      <3>1. macro_key = NoMacro /\ played.of = NoMacro
        BY <2>8 DEF NoSuchMacro, ReplayInv, Follows
      <3> QED
        BY <2>8, <3>1
        DEF NoSuchMacro, Unwatched, ReplayInv, RecordsMeant, RecordingMeant, Follows
    <2>9. ASSUME NEW key \in NextKeys, PlayMacro(key)
          PROVE  ReplayInv'
      <3> DEFINE macro == Named(key)
      <3>1. /\ macro \in Letters /\ macro_key \in {NoMacro, macro}
            /\ played.of = NoMacro /\ macro # NoMacro
            /\ ~(Len(Rest) + Len(macro_record[macro]) > Capacity)
        BY <2>9, KeysAssumption DEF PlayMacro, IsName, ReplayInv, Follows, Keys
      <3>2. reader' = "command" /\ UNCHANGED <<macro_key, script>>
        BY <2>9 DEF PlayMacro
      <3>3. CASE macro_key = NoMacro
        <4> DEFINE keys == macro_record[macro]
                   meant == script[macro]
        <4>1. macro_record' = macro_record
          BY <2>9, <3>3 DEF PlayMacro, WithoutPlay
        <4>2. RecordsMeant' /\ RecordingMeant'
          BY <3>2, <3>3, <4>1 DEF ReplayInv, RecordsMeant, RecordingMeant
        <4>3. CASE queue = <<>>
          <5>1. keys \in Seq(Keys) /\ Len(keys) \in Nat
            BY <3>1, LenProperties DEF TypeOK
          <5>2. Rest = <<>> /\ Len(<<>>) = 0
            BY <4>3, EmptySeq DEF Rest
          <5>3. queue' = keys
            <6>1. queue' = Pushed(keys, <<>>)
              BY <2>9, <3>3, <5>2 DEF PlayMacro, WithoutPlay
            <6>2. Capacity \in Nat /\ Len(keys) <= Capacity - Len(<<>>)
              BY <3>1, <5>1, <5>2, KeysAssumption
            <6>3. keys \o <<>> = keys
              BY <5>1, ConcatEmptySeq
            <6> QED BY <6>1, <6>2, <6>3 DEF Pushed
          <5>4. played' = [of |-> macro, ran |-> <<>>]
            BY <2>9, <3>3, <4>3 DEF PlayMacro
          <5>5. KeysOf(keys, meant)
            BY <3>1, <3>3 DEF ReplayInv, RecordsMeant
          <5>6. meant \in Seq(Events) /\ Len(meant) \in Nat
            BY <3>1, LenProperties DEF TypeOK, Events
          <5> HIDE DEF macro, keys, meant
          <5>7. Len(meant) = 0 + Len(queue') /\ \A i \in 1 .. Len(queue') : queue'[i] = meant[0 + i].key
            BY <5>3, <5>5, <5>6 DEF KeysOf
          <5>8. Follows'
            BY <3>2, <3>3, <5>2, <5>4, <5>7 DEF Follows, Settled, meant
          <5> QED BY <4>2, <5>8 DEF ReplayInv
        <4>4. CASE queue # <<>>
          <5>1. played' = played
            BY <2>9, <4>4 DEF PlayMacro
          <5> QED BY <3>1, <3>2, <4>2, <5>1 DEF ReplayInv, Follows
        <4> QED BY <4>3, <4>4
      <3>4. CASE macro_key = macro
        <4>1. played' = played
          BY <2>9, <3>1, <3>4 DEF PlayMacro
        <4>2. /\ macro_record'[macro] = WithoutLast(macro_record[macro])
              /\ \A n \in Letters : n # macro => macro_record'[n] = macro_record[n]
          BY <2>9, <3>1, <3>4 DEF PlayMacro, WithoutPlay, TypeOK
        <4>3. /\ KeysOf(WithoutLast(macro_record[macro]), script[macro])
              /\ ReaderAfter(script[macro]) = "command"
          BY <2>9, <3>1, <3>4 DEF PlayMacro, ReplayInv, RecordingMeant
        <4>4. RecordsMeant' /\ RecordingMeant'
          BY <3>1, <3>2, <3>4, <4>2, <4>3 DEF ReplayInv, RecordsMeant, RecordingMeant, Settled
        <4> QED BY <3>1, <3>2, <4>1, <4>4 DEF ReplayInv, Follows
      <3> QED BY <3>1, <3>3, <3>4
    <2>10. ASSUME NEW key \in NextKeys, StatusReads(key)
           PROVE  ReplayInv'
      <3>1. queue = <<>> /\ macro_key = NoMacro
        BY <2>10 DEF StatusReads
      <3>2. UNCHANGED <<queue, reader, macro_key, macro_record, script, played>>
        BY <2>10, <3>1 DEF StatusReads, Rest, Recorded, Unwatched
      <3> QED
        BY <3>2 DEF ReplayInv, RecordsMeant, RecordingMeant, Follows
    <2>11. CASE SearchEnds
      BY <2>11
      DEF SearchEnds, Unwatched, ReplayInv, RecordsMeant, RecordingMeant, Follows, Settled
    <2>12. CASE UNCHANGED vars
      BY <2>12 DEF vars, ReplayInv, RecordsMeant, RecordingMeant, Follows
    <2> QED
      BY <2>1, <2>2, <2>3, <2>4, <2>5, <2>6, <2>7, <2>8, <2>9, <2>10, <2>11, <2>12
      DEF Next, Take
  <1> QED
    BY <1>1, <1>2, KeysTyped, PTL DEF Spec

\* A macro that is played does what was done when it was recorded, whatever
\* was recorded, played and searched for in between (handle_key '@' and 'q').
THEOREM MacrosReplay ==
  ASSUME Slips = {}
  PROVE  Spec => []MacroReplays
  <1>1. TypeOK /\ ReplayInv => MacroReplays
    <2> SUFFICES ASSUME TypeOK, ReplayInv, played.of # NoMacro
                 PROVE  LET meant == script[played.of] IN
                        /\ Len(played.ran) <= Len(meant)
                        /\ \A i \in 1 .. Len(played.ran) : played.ran[i] = meant[i]
                        /\ queue = <<>> =>
                             Len(played.ran) = Len(meant) /\ reader \in {"command", "search"}
      BY DEF MacroReplays
    <2> DEFINE meant == script[played.of]
    <2>1. played.of \in Letters /\ Len(queue) \in Nat /\ (queue = <<>> => Len(queue) = 0)
      BY LenProperties, EmptySeq DEF TypeOK
    <2>2. Len(played.ran) \in Nat
      BY LenProperties DEF TypeOK
    <2>3. /\ Len(meant) = Len(played.ran) + Len(queue)
          /\ \A i \in 1 .. Len(played.ran) : played.ran[i] = meant[i]
      BY DEF ReplayInv, Follows
    <2>4. ASSUME queue = <<>> PROVE reader \in {"command", "search"}
      <3>1. NextKeys = Keys /\ "q" \in Keys
        BY <2>4 DEF NextKeys, Keys, Commands
      <3> QED BY <2>4, <3>1, PlayedKey
    <2> QED BY <2>1, <2>2, <2>3, <2>4
  <1> QED
    BY <1>1, KeysTyped, ReplayInvariant, PTL
=============================================================================
