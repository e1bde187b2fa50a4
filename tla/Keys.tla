-------------------------------- MODULE Keys --------------------------------
(***************************************************************************)
(* Who reads the next key, and the macros (src/key_handler.c: mwgetch,     *)
(* mgetch, handle_key; src/main.c: the main loop).  A key comes from those *)
(* that were pushed back with ungetch, or else from the user; the reader   *)
(* that takes it is the main loop, or the command that waits for more.     *)
(***************************************************************************)
EXTENDS Naturals, Sequences

CONSTANTS
  Letters,   \* what names a macro or a mark; alone it is a motion
  Digits,    \* the keys of a count
  Capacity,  \* external: the keys that ungetch has room for
  MaxKeys,   \* bound: the keys of each macro, in the code those of an array
  NoMacro,   \* -1 in macro_key and last_macro_key
  Slips      \* what the code gets wrong, see below

\* "nested": a macro played while another is recorded loses a key, the other
\* one keeps the @; "noname": so it does when no name follows the @; "go": the
\* key after g is recorded when g reads it and when the motion does; "search":
\* the thread that shows how far a search is takes the keys that are queued;
\* "full": ungetch is out of room, and the first keys of the macro are lost.
AllSlips == {"nested", "noname", "go", "search", "full"}

\* backquote stands for what reads one more key (m and " too, which are flashed
\* behind d as the other commands are), d for what reads up to one it knows (d c
\* y, and an insert, an overwrite or a line, up to its end), n for the searches,
\* q @ g for themselves.
Commands == {"backquote", "d", "n", "g", "q", "@"}
Keys == Letters \cup Digits \cup Commands

ASSUME KeysAssumption ==
  /\ Letters \cap Commands = {} /\ Letters \cap Digits = {} /\ Digits \cap Commands = {}
  /\ Capacity \in Nat /\ MaxKeys \in [Letters -> Nat]
  /\ NoMacro \notin Keys /\ Slips \subseteq AllSlips

VARIABLES
  queue,           \* the keys pushed back, the next one first
  reader,          \* who takes the next key
  macro_key,       \* the macro that is recorded
  last_macro_key,  \* the one played last
  macro_record,    \* the keys of each macro, up to its key_index
  script,          \* watches: the keys that were meant, each with its reader
  played           \* watches: the macro the user plays, and the keys taken since

vars == <<queue, reader, macro_key, last_macro_key, macro_record, script, played>>

Readers == {"command", "mark", "motion", "go", "search", "record", "play", "box"}

Nothing == [of |-> NoMacro, ran |-> <<>>]

\* wgetch: the key that is next, and what is queued behind it
NextKeys == IF queue = <<>> THEN Keys ELSE {Head(queue)}
Rest == IF queue = <<>> THEN <<>> ELSE Tail(queue)

\* mwgetch and mgetch: a key is recorded, wherever it comes from
Recorded(key) ==
  IF macro_key = NoMacro THEN macro_record
  ELSE [macro_record EXCEPT ![macro_key] = Append(@, key)]

\* bound: the user types n more keys only if the array they go into is not full
RoomFor(n) ==
  queue = <<>> /\ macro_key # NoMacro => Len(macro_record[macro_key]) + n <= MaxKeys[macro_key]

\* who reads next, once the reader m took the key
After(m, key) ==
  CASE m \in {"command", "motion"} /\ key = "backquote" -> "mark"
    [] m = "command" /\ key = "d" -> "motion"
    [] m = "command" /\ key = "g" -> "go"
    [] m \in {"command", "motion"} /\ key = "n" -> "search"
    [] m = "motion" /\ key \notin Letters \cup {"n", "backquote"} -> "motion"  \* flash
    [] OTHER -> "command"

Seen(key) == [key |-> key, reader |-> reader]

\* The key is part of what is recorded, and of what is played; one that the
\* user types at the main loop is past what was played.
Watched(key) ==
  /\ script' = IF macro_key = NoMacro THEN script
               ELSE [script EXCEPT ![macro_key] = Append(@, Seen(key))]
  /\ played' = IF queue # <<>> /\ played.of # NoMacro
               THEN [played EXCEPT !.ran = Append(@, Seen(key))]
               ELSE IF reader = "command" THEN Nothing ELSE played

Unwatched == UNCHANGED <<script, played>>

\* a key that the program reads, records and acts on
Read(key) ==
  /\ queue' = Rest /\ macro_record' = Recorded(key) /\ reader' = After(reader, key)
  /\ Watched(key)
  /\ UNCHANGED <<macro_key, last_macro_key>>

Command(key) ==
  reader = "command" /\ key \notin {"q", "@"} /\ RoomFor(2) /\ Read(key)

Mark(key) == reader = "mark" /\ Read(key)

\* get_next_motion_addr
Motion(key) ==
  reader = "motion" /\ (After(reader, key) \in {"motion", "mark"} => RoomFor(2)) /\ Read(key)

\* g: gg, and a count that is refused; else the key is pushed back for
\* get_next_motion_addr, which records it again
Go(key) == reader = "go" /\ key \in {"g"} \cup Digits /\ Read(key)

Pushed(keys, queued) ==
  LET room == Capacity - Len(queued)
  IN  IF Len(keys) <= room THEN keys \o queued
      ELSE SubSeq(keys, Len(keys) - room + 1, Len(keys)) \o queued

\* faulty: g reads the key that it pushed back
GoAgain == "go"

ReaderOfMotion == "motion"

GoMotion(key) ==
  /\ reader = "go" /\ key \notin {"g"} \cup Digits
  /\ macro_key # NoMacro => "go" \in Slips
  /\ RoomFor(3)
  /\ queue' = Pushed(<<key>>, Rest) /\ macro_record' = Recorded(key) /\ reader' = ReaderOfMotion
  /\ UNCHANGED <<macro_key, last_macro_key>> /\ Unwatched

\* q: the next key names the macro, and is not recorded itself
StartRecord(key) ==
  /\ reader = "command" /\ key = "q" /\ macro_key = NoMacro
  /\ queue' = Rest /\ reader' = "record" /\ Watched(key)
  /\ UNCHANGED <<macro_key, last_macro_key, macro_record>>

\* faulty: the name of a macro to be recorded is not checked
AnyName(key) == key \in Letters \/ reader = "record"

IsName(key) == key \in Letters

RecordName(key) ==
  /\ reader = "record" /\ queue' = Rest
  /\ IF IsName(key)
     THEN /\ macro_key' = key /\ reader' = "command"
          /\ macro_record' = [macro_record EXCEPT ![key] = <<>>]
          /\ script' = [script EXCEPT ![key] = <<>>]
     ELSE /\ reader' = "box" /\ UNCHANGED <<macro_key, macro_record, script>>
  /\ UNCHANGED <<last_macro_key, played>>

\* msg_box: any key
Box(key) == reader = "box" /\ Read(key)

\* faulty: the last key stays
WithLast(keys) == SubSeq(keys, 1, Len(keys))

\* key_index--: the key that was read last is not part of the macro
WithoutLast(keys) == SubSeq(keys, 1, Len(keys) - 1)

\* q again
StopRecord(key) ==
  /\ reader = "command" /\ key = "q" /\ macro_key # NoMacro
  /\ queue' = Rest
  /\ macro_record' = [Recorded(key) EXCEPT ![macro_key] = WithoutLast(@)]
  /\ macro_key' = NoMacro
  /\ played' = IF queue = <<>> THEN Nothing ELSE played
  /\ UNCHANGED <<reader, last_macro_key, script>>

\* @: recorded by the main loop, the name that follows is not
Play(key) ==
  /\ reader = "command" /\ key = "@"
  /\ macro_key # NoMacro => RoomFor(Len(macro_record[macro_key]))
  /\ queue' = Rest /\ macro_record' = Recorded(key) /\ reader' = "play"
  /\ played' = IF queue = <<>> THEN Nothing ELSE played
  /\ UNCHANGED <<macro_key, last_macro_key, script>>

\* @@ is the one played last
Named(key) == IF key = "@" THEN last_macro_key ELSE key

NoSuchMacro(key) ==
  /\ reader = "play" /\ ~IsName(Named(key))
  /\ macro_key # NoMacro => "noname" \in Slips
  /\ queue' = Rest /\ reader' = "command"
  /\ UNCHANGED <<macro_key, last_macro_key, macro_record>> /\ Unwatched

\* a macro that is recorded loses its @: the key_index of the macro that is
\* played counts down
WithoutPlay(macro) ==
  IF macro_key = NoMacro THEN macro_record
  ELSE [macro_record EXCEPT ![macro] = WithoutLast(@)]

PlayMacro(key) ==
  /\ reader = "play" /\ IsName(Named(key))
  /\ LET macro == Named(key) IN
     /\ macro_key \notin {NoMacro, macro} => "nested" \in Slips
     /\ Len(Rest) + Len(macro_record[macro]) > Capacity => "full" \in Slips
     /\ last_macro_key' = macro
     /\ macro_record' = WithoutPlay(macro)
     /\ queue' = Pushed(WithoutPlay(macro)[macro], Rest)
     /\ played' = IF queue = <<>> /\ macro_key = NoMacro THEN [of |-> macro, ran |-> <<>>]
                  ELSE played
  /\ reader' = "command"
  /\ UNCHANGED <<macro_key, script>>

\* search_status_update_thread: its mwgetch waits for an ESC, and takes what
\* there is
StatusReads(key) ==
  /\ reader = "search"
  /\ queue # <<>> \/ macro_key # NoMacro => "search" \in Slips
  /\ RoomFor(1)
  /\ queue' = Rest /\ macro_record' = Recorded(key)
  /\ UNCHANGED <<reader, macro_key, last_macro_key>> /\ Unwatched

SearchEnds ==
  /\ reader = "search" /\ reader' = "command"
  /\ UNCHANGED <<queue, macro_key, last_macro_key, macro_record>> /\ Unwatched

Init ==
  /\ queue = <<>> /\ reader = "command"
  /\ macro_key = NoMacro /\ last_macro_key = NoMacro
  /\ macro_record = [n \in Letters |-> <<>>] /\ script = [n \in Letters |-> <<>>]
  /\ played = Nothing

\* the main thread reads a key
Take ==
  \E key \in NextKeys :
    \/ Command(key) \/ Mark(key) \/ Motion(key) \/ Go(key) \/ GoMotion(key)
    \/ StartRecord(key) \/ RecordName(key) \/ Box(key) \/ StopRecord(key)
    \/ Play(key) \/ NoSuchMacro(key) \/ PlayMacro(key)

Next == Take \/ SearchEnds \/ \E key \in NextKeys : StatusReads(key)

\* The program does not wait for a key that is queued, and a search ends; the
\* user may stop to type.
Spec == Init /\ [][Next]_vars /\ WF_vars(queue # <<>> /\ Take) /\ WF_vars(SearchEnds)

-----------------------------------------------------------------------------

\* Types; macro_key, with which mwgetch indexes macro_record, is a macro or none.
TypeOK ==
  /\ queue \in Seq(Keys) /\ reader \in Readers
  /\ macro_key \in Letters \cup {NoMacro} /\ last_macro_key \in Letters \cup {NoMacro}
  /\ macro_record \in [Letters -> Seq(Keys)]
  /\ script \in [Letters -> Seq([key : Keys, reader : Readers])]
  /\ played \in [of : Letters \cup {NoMacro}, ran : Seq([key : Keys, reader : Readers])]

\* A macro that the user plays does what was done when it was recorded: the
\* keys come back in the order they were typed, each one is read by the reader
\* that read it then, and when the last one was taken no command waits for
\* more (handle_key '@' and 'q', mwgetch, mgetch, ungetch).
MacroReplays ==
  played.of # NoMacro =>
    LET meant == script[played.of] IN
    /\ Len(played.ran) <= Len(meant)
    /\ \A i \in 1 .. Len(played.ran) : played.ran[i] = meant[i]
    /\ queue = <<>> => Len(played.ran) = Len(meant) /\ reader \in {"command", "search"}

\* What is played ends: the keys that were pushed back, by a macro or by g, are
\* used up, also when it is the macro that is being recorded.
PlaybackEnds == queue # <<>> ~> queue = <<>>
=============================================================================
