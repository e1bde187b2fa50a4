# bviplusplus in TLA+

bviplusplus is an editor for binary files with the keys of vi: curses, one
process, one user. What makes it hard is not its size but four things. A file
is never loaded: edits hang as *virtual buffers* over the file on disk, in a tree
that every edit, undo and redo changes by arithmetic, and a save writes that tree
back *into the same file*, in place. Several files are open at once, in a ring
whose "current" pointer every walk moves. Two commands, saving and searching,
run beside a thread that shares plain variables of their stack frame with them.
And a key means what the keys before it made of a dozen globals and statics: the
cursor, the page, the selection, a count, a macro that is recorded or played.

These modules model that core, check it with TLC and prove its central
invariants with TLAPS. Paths below are relative to the repository; `src/src/` and
`src/include/` hold the sources.

## 1. Inventory

| Part | State | Operations | Who calls it |
|---|---|---|---|
| Virtual buffers (`vf_backend.c`) | tree of `vbuf_t`: start, size, type, active, children | `_insert_before`, `_replace`, `_delete`, `_get_char`, `_get_buf`, `prune` | the virtual file layer |
| Virtual file and undo list (`virt_file.c`) | `f->ul`: entries of vbufs with `applied` | `vf_insert_before`, `vf_insert_after`, `vf_replace`, `vf_delete`, `vf_undo`, `vf_redo`, `vf_need_save` | actions, display |
| Saving (`vf_save`) | the file, `move_buf[2]`, shift, offset | one long walk | `action_save`, `action_save_all` |
| Save progress (`actions.c`) | `complete` | `action_save`, `save_status_update_thread` | `:w`, `:wa` and others |
| Ring of open files (`virt_file.c`) | next, last, head, current | add, remove, next, last, head, set current | commands, tab bar |
| Session (`key_handler.c`, `actions.c`, `main.c`) | `current_file`, `display_info`, the streams | `:e :e! :w :wa :w name :q :qa :wq`, next and previous file, ESC digit | the user |
| Search patterns (`search.c`) | the compiled pattern | `set_search_term` | `action_do_search` |
| Matching (`search.c`) | criteria index, match states | `feed_search`, `rollback`, `buf_search` | `fill_search_buf` |
| Search through a file (`actions.c`) | `search_data`, addr, read_size | next, previous search, the status thread | `n`, `N`, `/`, `?` |
| The screen (`display.c`) | `display_info`: size, page, cursor, selection | `update_display_info`, `print_screen`, `place_cursor` | every command |
| Motions (`actions.c`, `key_handler.c`) | the cursor; the statics of `get_next_motion_addr` | `action_cursor_move_*`, `word_move`, `word_move_back` | keys, and `d c y g` |
| Editing keys (`key_handler.c`, `actions.c`) | the text, yank registers, the selection | `i a R r c s d x X y p P u U v "` | the user |
| Typing (`do_insert`, `do_overwrite`) | the bytes typed, half a byte, a page of its own | digits, characters, backspace, ESC | `i a c s R` |
| Keys and macros (`key_handler.c`) | `macro_record`, `macro_key`, the keys pushed back | `mgetch`, `mwgetch`, `q`, `@` | whoever reads a key |
| Line editor (`creadline.c`) | the line, a ring of earlier lines | `creadline` | `:`, searches, file names |
| Marks, preferences, display windows, blobs, file browser, help, external commands | | | see section 7 |

Interaction is by calls and by shared globals: `current_file`, `file_ring`,
`display_info`, `search_item`. The two threads share one `int` and one
`search_thread_data_t` with their creators, without locks; `pthread_join` is the
only synchronisation. There is no persistence but the files themselves, and no
handling of crashes or of failing writes.

What makes each part correct:

* *virtual buffers*: the text read is the one a plain sequence of bytes would
  have after the same edits, undo and redo; both readers see it; no vbuf is
  leaked or freed twice.
* *undo list*: a linear history.
* *saving*: what was on the screen is on disk afterwards.
* *threads*: they end, the join returns, and they never outlive the frame they use.
* *ring and session*: a command acts on the file shown, or on one without unsaved
  changes; what is unsaved is lost only by a command that says so; every walk around
  the ring comes back.
* *search*: the pattern compiled is the one meant; the match found is the first,
  and the shortest; the whole file is searched once, in either direction.
* *screen and keys*: before every key the page and the cursor fit the text; a key
  acts on the bytes that are highlighted, or that its motion would have passed;
  what was cut can be put back, what was typed is in the text.
* *macros*: played, they do what was done when they were recorded, and end.
* *line editor*: no key loses a character, no line its place in the ring.

## 2. Modules

| Module | Models | State, and how it corresponds |
|---|---|---|
| `Vbuf` | `vf_backend.c` as operators on a tree | a tree is a function from vbuf ids to records; the `next`/`prev`/`first_child` pointers are the sequence `children` |
| `VirtFile` | one open file: one action per function of `virt_file.h` that edits, undoes or redoes | `tree` is `f->fm` and all below, `ul` is `f->ul` oldest first, `call`/`done` the last call and its result |
| `TextHistory` | a text with versions, as operators | what a call does to it and returns |
| `EditBuffer` | abstract: these as a specification | what `VirtFile` promises |
| `LinearHistory` | abstract: changes, and how many are in force | what the undo list promises |
| `MCVirtFile` | adds two history variables that follow the abstract buffer | the refinement mapping to `EditBuffer` |
| `VfSave` | `vf_save` byte by byte, extending `VirtFile` | `disk` is the file; the walk folds over a record of disk, `move_buf`, `buf_select`, `shift`, `write_offset` |
| `SaveStatus` | `action_save` beside its thread | `pc` and `thread` are program counters; `complete` is cut to 0, 50, 100 |
| `FileRing` | the functions on `vf_ring_t` | `next`, `last` as functions on the nodes, `head`, `cur` |
| `OpenFile` | an open file as the session sees it, and `vf_init`, `vf_term`, `vf_create_file`, `vf_copy_file`, `vf_save` on it | `fp` is the name behind the stream or `Closed`; a content is the sequence of edits written to it, its length the size |
| `Session` | one action per command on files; `SaveWalk` and `AskedAt` are the walks of `:wa` and `:qa` along the ring | `ring`, `file`, `current`, `size` (`display_info.file_size`), `disk`, `quit`; `printed` is the file `print_screen` printed last, whose page and highlighted tab the user sees |
| `TabBar` | abstract: a row of tabs, one of them chosen | what the ring promises |
| `MCSession` | two names, three command lines, symmetry | |
| `Pattern` | `set_search_term` | the fold of the loop over the characters; a criterion is `[range, wildcard]` |
| `Matcher` | `search_state_reset`, `matches`, `rollback`, `feed_search`, `buf_search` | `[ci, match, result]`: `criteria_index`, `match_state`, what is returned |
| `Search` | a pattern typed, then one match after the other; the meaning of patterns as reference | `item` is `search_item[current_search]`, `hl` is `hl_start`, `hl_end` (indices begin with 1) |
| `MCSearch` | four bytes, the patterns and texts | |
| `SearchFile` | both file searches, `fill_search_buf`, the status thread | `data` is `search_data`; one step is one turn of a loop over the pages |
| `Screen` | `display_info`, the macros of `display.h`, `place_cursor` and the motions | a record; what would divide by zero sets `crashed` |
| `Typing` | the key loop of `do_insert` and `do_overwrite` | `buf` is `ins_buf`, `tmp` the digit typed of a byte, `page_start` the local of that name; a digit is a member of the constant `Digit` |
| `Editor` | one action per key that moves or edits, from the key to the `place_cursor` before the next | `versions`, `pos` the text and its history, `d` is `display_info`, `yank`, `register`, and `motion`, the statics of `get_next_motion_addr` |
| `MCEditor` | two bytes, two layouts, what is typed; a VIEW without the last key | |
| `Words` | `word_move`, `word_move_back` | `text` holds the kind of each byte; `Wanted` says where they should go |
| `Keys` | who reads the next key; `mgetch`, `mwgetch`, `q`, `@`, `g`, the status thread | `queue` is what `ungetch` holds, `reader` who waits, `macro_record` as in the code; `script` and `played` only watch |
| `MCKeys` | two macros | |
| `InputLine` | abstract: a text with a cursor, and the lines entered last | what `creadline` promises |
| `LineEditor` | `creadline`, one action per key | `item`, `hist_index`, `entry_hist_index`, `tmp_cmd` as in the code |
| `MCLineEditor` | a VIEW without the last answer | |
| `VirtFileProofs`, `SaveStatusProofs`, `SessionProofs`, `SearchFileProofs`, `EditorProofs`, `KeysProofs`, `LineEditorProofs` | theorems, one module for each specification | |
| `DataLemmas` | lemmas on sets of numbers, sequences, folds and recursive functions, for the proofs | |

Composition: `VfSave` EXTENDS `VirtFile` EXTENDS `Vbuf`; `Session` EXTENDS
`FileRing` and `OpenFile`; `Search` EXTENDS `Matcher` EXTENDS `Pattern`; `Editor`
EXTENDS `TextHistory` and `Typing`, which EXTENDS `Screen`. The layers meet in
`TextHistory`: `EditBuffer` is these operators as a specification, `VirtFile` is
shown to implement it, and `Editor` calls them where the code calls `vf_insert_before`,
`vf_delete`, `vf_replace`, `vf_undo` and `vf_redo`. So `Editor` is about the keys over
a file layer that keeps its promise. `OpenFile` is what `VirtFile` and `VfSave` look
like from outside: edits are opaque marks, and a save to a content other than the one
the edits were made for leaves `Garbled`. `SearchFile` takes from `Search` only that
there is a set of addresses at which a match begins; `Editor` takes from both, from
`Words` and from marks only that such a motion may end at any address or at none
(`seek`, `jump`). `LineEditor` implements `InputLine` by a refinement mapping, as
`VirtFile` does `EditBuffer` and `LinearHistory`, and `Session` `TabBar`.

Grain. A command runs to its end before the next key is read, so in `Session`,
`VirtFile`, `VfSave` and `Editor` it is one step; `Keys` and `LineEditor` are about
single keys, and each is a step. Only the two threads run concurrently, and
there a step is one access to the shared data (`SaveStatus`), or one turn of a
loop with its single write of `current` (`SearchFile`); a C `int` or aligned
`off_t` is taken to be read and written whole. The thread looks at `current` in
a step other than the one that divides by it, so that it may move in between.

In `Vbuf` and above, bytes are told apart by who wrote them: a byte is `<<id, i>>`,
the i-th byte of edit `id`, so that any byte at a wrong place shows. In `Editor` a byte
is the pair of its digits. Uninitialised or foreign bytes
are `Junk`, a NULL or freed pointer followed is a "wild" outcome, and what the
code then does is left open. What the uninitialised `complete` holds and what the
byte behind a search buffer holds is chosen nondeterministically.

Operators marked `faulty:` are the code as a plausible mistake would have it. No
action uses them; PROJECT.json names them as mutants, one for every property.

## 3. Slips

A passing run says nothing of the cases in this table: the input is cut from it, or
the property is none of its own.
Where the code has no right answer the model has a *slip*: a named kind of input,
let in only when a constant names it. With no slips the properties hold, which
says exactly how far the code is right; with a slip TLC finds the violation.
One of them is a run of its own (section 4); the others are shown by the
constants given here, those not named being the ones of the module's cfg.

| Shown by | Property violated | What the code does |
|---|---|---|
| `MCVirtFile`: RunOn, FileSize 3, InsertLen {1}, ReplaceLen {1, 2, 3}, DeleteLen {}, Count {1}, MaxEdits 2 | `EditShows` | `_replace` from a gap into an INSERT or REPLACE vbuf passes that vbuf over (`vf_backend.c:462`, `587`) |
| `MCVirtFile`: RunOn, FileSize 3, InsertLen {1}, DeleteLen {2}, MaxEdits 2 | `EditShows` | `_delete` likewise (`vf_backend.c:669`) |
| `MCVirtFile`: InReplaced, FileSize 4, InsertLen {1}, ReplaceLen {2}, MaxEdits 2 | `EditShows` | `_get_buf` does not follow bytes inserted under a REPLACE vbuf (`vf_backend.c:1016`) |
| the same | `CharReadsText` | `get_internal_shift` counts vbufs that were undone (`vf_backend.c:51`) |
| `MCVirtFile`: FileSize 3, DeleteLen {1, 2}, MaxEdits 2 | `UndoAddrIsStart` | `*undo_addr` is the start of the last vbuf of the entry, not of the change (`virt_file.c:945`) |
| run `save_two_inserts` ("pending") | `SaveWritesText` | bytes pushed away by an insert are lost at the next vbuf (`virt_file.c:594`, `683`) |
| `VfSave`: "tight", FileSize 3, InsertLen {2}, MaxEdits 1, MaxSaveShift 9 | `SaveWritesText` | more bytes inserted than there are behind (`virt_file.c:764`) |
| `VfSave`: "undone", FileSize 3, InsertLen {1}, ReplaceLen {1}, MaxEdits 2, MaxSaveShift 9 | `SaveWritesText` | the first vbuf is looked up before `prune` frees it (`virt_file.c:544`) |
| `VfSave`: "far", FileSize 6, InsertLen {1}, DeleteLen {1}, MaxEdits 2, MaxSaveShift 2 | `SaveWritesText` | a gap of more than a buffer behind an insert (`virt_file.c:601`) |
| `VfSave`: "long", FileSize 6, ReplaceLen {1}, DeleteLen {1}, MaxEdits 2, MaxSaveShift 2 | `SaveWritesText` | a replace behind a delete, far from the end, reads a negative size (`virt_file.c:707`) |
| `VfSave`: "much", FileSize 5, InsertLen {3}, MaxEdits 1, MaxSaveShift 2 | `SaveWritesText` | the limit the comment of `vf_save` names (`virt_file.c:523`), not enforced |
| `SaveStatus`: EmptyFails, Sizes {0} | `ControlReturns` | a failed save of an empty file is taken for a success, nobody sets `complete`, the join never returns (`actions.c:1650`) |
| `MCSession`: Node {n1, n2}, Name {a, b}, EditId {e1, e2}, OnDisk {a}, Argv OneArgv, ReadOnly and Unreadable {}, no slips | `AllKeepUnsaved` | `:qa` never looks at the file shown (`actions.c:1762`) |
| the same, Slips {"twice"} | `DiskIntact` | a file opened twice is saved over bytes its edits were not made for (`key_handler.c:435`) |
| the same, OnDisk {a, b}, ReadOnly and Unreadable {b}, Slips {"unreadable"} | `ReadsOpenStream` | `:e` of an unreadable file: a size and no stream (`key_handler.c:436`) |
| the same, Slips {"reload"} | `ReadsOpenStream` | `:e!` of a new file likewise (`key_handler.c:454`) |
| the same, OnDisk {a, b}, Slips {"exists"} | `DiskIntact` | a refused creation leaves the existing file open under the new file's edits (`virt_file.c:450`) |
| the same, Slips {"own"} | `SaveAsWrites` | `:w name` with the file's own name empties it (`virt_file.c:491`) |
| the same, no slips | `ScreenIsCurrent` | `:wa` prints each file it saves and then sets `current_file` back without a redraw: with a clean file shown and another one unsaved, the page and the highlighted tab of the other one stay, while the next command acts on the first (`actions.c:1693`) |
| the same, no slips | `FailureIsReal` | a save that wrote everything is reported as failed, by an old size on display (`actions.c:1655`, `1902`) |
| `MCSearch`, Slips {"escape"} | `TermMeans` | `escape` is never reset: special characters behind an escaped one are literal (`search.c:365`) |
| `MCSearch`, Slips {"negated"} | `TermMeans` | `not` is never reset either: a set behind a negated one is negated (`search.c:593`) |
| `MCSearch`, Slips {"unclosed"} | `TermMeans` | `used` is set although a set, a range or a backslash is still open: `[`, `[a`, `[a-` and `a\` are taken for patterns (`search.c:683`) |
| {"end"} | `FindsShortest` | an optional element at the end must match (`search.c:137`) |
| {"row"}, {"overlap"} | `FindsShortest` | an optional element behind a wildcard; a wildcard and what follows it match the same byte |
| {"long"} with MaxMatch 2 | `FindsShortest` | the match limit is compared with the length less the offset in the buffer (`search.c:311`) |
| {"beyond"} | `FindsShortest` | from a match of the last byte the search goes on behind the buffer (`search.c:284`) |
| `SearchFile`, Slips {"last"} | `LandsNext` | the same, as a search that neither moves nor wraps |
| `SearchFile`, Slips {"first"} | `LandsNext` | a backward search from the first byte frees a buffer never allocated (`actions.c:1140`) |
| `SearchFile`, Margin 0, Lengths {2} | `LandsNext` | max_match 0, "no max", also means no overlap of the pages (`search.c:730`) |

| `MCEditor`, Slips {"emptied"} | `ScreenInStep` | the text vanishes under a page that does not begin at 0: `file_size / 100` is 0 (`display.c:302`; so it is for every text of less than 100 bytes, scrolled to the middle) |
| {"tail"} | `ScreenInStep` | `action_redo` uses an address that was never set; the cursor may go nowhere, and the page ends behind the text (`actions.c:1530`) |
| {"back"}, Typed MCTypedAmiss | `ScreenInStep` | what was typed is rubbed out to before the scrolled page: a negative length is copied (`key_handler.c:1167`, `1194`, and in `do_overwrite`) |
| {"half"}, Typed MCTypedAmiss | `TypedShows` | backspace over half a byte brings the digits back in the wrong order (`key_handler.c:1303`) |
| {"again"}, MaxCount 22 | `ActsToMotion` | the count before one motion is still there at the next (`key_handler.c:929`) |
| {"count"}, MaxLen 6 | `TypedShows` | a counted insert of several bytes puts each copy into the one before (`key_handler.c:1404`) |
| {"past"} | `TypedShows` | an overwrite over the end of the file is dropped as a whole (`actions.c:866`) |
| {"past"}, three characters typed | `ScreenInStep` | more than a page of it leaves an empty file under a page that does not begin at 0, and the next resize divides by `file_size / 100` (`key_handler.c:1928`, `display.c:302`) |
| {"few"} | `CutIsKept` | `X` with fewer bytes before the cursor deletes from behind it (`key_handler.c:2184`) |
| {"change"} | `ActsToMotion`, `ActsOnShown` | a change of the end of the text inserts before its new last byte (`key_handler.c:1648`) |
| `Keys`, Slips {"nested"}, {"noname"} | `MacroReplays`, `PlaybackEnds` | `@` while recording takes a key off the macro played, or leaves the `@` when no name follows (`key_handler.c:2056`, `2037`) |
| {"go"} | `MacroReplays` | the key behind `g` is recorded twice (`key_handler.c:2105`) |
| {"search"} | `MacroReplays` | the status thread takes the keys that are queued (`actions.c:1061`) |
| {"full"} | `MacroReplays`, `PlaybackEnds` | the macro is longer than what `ungetch` holds (`key_handler.c:2061`) |
| `LineEditor`, Slips {"escape"} | `LineIsTyped` | a line given up leaves `hist_index` in the ring, and the next line overwrites newer ones (`creadline.c:173`) |
| {"full"} | `LineIsTyped` | KEY_DOWN at the end of the walk shows the oldest line of a full ring (`creadline.c:148`) |
| {"long"} | `LineIsTyped` | the last character that fits shifts a byte into `position`, and the line has no 0 (`creadline.c:226`, `253`) |
| `Words`, Slips {"last"}, {"first"} | `ReachesWord` | `e` finds no end of a word at the end of the text, `b` no beginning at address 0 (`key_handler.c:774`, `887`) |
| {"near"} | `ReachesWord` | less than 255 bytes from the start `b` does not look at the byte under the cursor, and takes its neighbour for it (`key_handler.c:801`) |
| {"lone"} | `ReachesWord` | a last chunk of one byte is not looked at (`key_handler.c:652`, `703`, `817`) |
| {"single"} | `ReachesWord` | `cw` on the last letter of a word changes the next word too, unlike the comment at `key_handler.c:626` |

Properties in this table that are in no run (`EditShows`, `CharReadsText`,
`UndoAddrIsStart`, `SaveAsWrites`, `AllKeepUnsaved`, `ReadsOpenStream`, `DiskIntact`,
`FailureIsReal`, `ScreenIsCurrent`) are kept for this use.

Four more things the model shows without a property: `"` has no `break` and goes on
into `u`, so naming a register undoes a change (`key_handler.c:2253`); ESC behind `d`
is no address, and deletes the byte under the cursor (`key_handler.c:936`); a counted
`j` or `l` that would pass the end is refused, where `k` and `h` stop at the start; a
terminal too narrow for one column divides by zero.

## 4. Runs

Passing runs; the states are distinct states, the bounds are in the cfg.

| Run | Shows | Bounds |
|---|---|---|
| `text` | the tree delivers exactly the texts of the abstract edit buffer, in all versions undo and redo can reach; both readers agree; the undo list is a linear history over live vbufs, sizes add up, undo and redo are inverse | file of 2 bytes, 3 edits at every offset (one past the end included), inserts of 1 or 2 bytes, undo and redo of 1 or 2; 28,076 states |
| `save` | a save writes the text, without slips | file of 5, 3 edits of which some undone, buffers of 2 bytes; 18,513 states |
| `save_status` | join never in vain, control comes back, but for the failed save of an empty file (`EmptyFails`, section 3) | sizes 0 to 2, two reports, both outcomes of `fopen` |
| `session_keep` | nothing unsaved is lost by a command that does not say so; `:wa` leaves nothing unsaved that can be written; the walks around the ring come back; a screen that `:wa` left behind is of another file only than one without unsaved changes | two nodes, two names, one read-only, two edits; 164,075 states, symmetric nodes |
| `session_ring` | the ring is a row of tabs | three nodes, an unreadable file on the command line |
| `search` | patterns mean what help says, matches are the first and shortest | up to two elements of 8 kinds x 4 wildcards and three letters with wildcards, all texts of 4 bytes over 4 bytes; 10 strings that are no pattern and are refused (7 more are accepted, slip "unclosed"); 179,649 states |
| `search_file` | a search lands on the nearest match in its direction or wraps, reports "not found" only of a file without a match, ESC leaves the cursor; no division by zero; it always ends | files of 0, 1 and 7 bytes, pages of 3, margin 2, every set of matches of length 1 or 2; 117,096 states |
| `editor` | the screen is in step with the text before every key; keys act on what is highlighted, operators to where their motion goes; `x` and `X` keep what they take, `i a R` show what was typed | texts of at most 3 bytes, edited once and then undone and redone, counts none and 2, one register, a line of two bytes and two lines of one; percent of 1 (`Unit`); 15,664 states |
| `keys` | a macro replays what was recorded, to the same readers, and ends | macros of up to 4 and 2 keys, 3 keys pushed back; 1,106,775 states |
| `line_editor` | `creadline` is an input line with a list of earlier lines | 2 characters, lines of up to 3, a ring of 3; 1,248,780 states |
| `words` | word motions reach the word they should, across chunks | texts of up to 7 bytes of three kinds, chunks of 4; 153,730 states |

Why these are enough. Three edits are the least in which one runs over a second
while a third is undone; vbufs nest two deep by then (an insert under a replace
under the file). A file of five bytes with buffers of two makes each loop of
`vf_save` turn none, one and several times. Two open files suffice for every
command that touches "the others", three for a ring whose head, current and
neighbours differ. Four bytes of text are one more than the longest pattern, so a
failed start is followed by another one; in seven bytes with pages of three there
is a first, an inner and a last page in both directions. Three bytes on pages of
two scroll both ways, are emptied by one delete and grow by one paste; a selection
lies before, at and behind the cursor, and every key is tried on every screen, those
after undo, redo and a resize included. A macro of four keys holds a command that
reads keys of its own, or plays a second macro. A ring of three is full after two
lines, and seven bytes in chunks of four have words across the end of a chunk in both
directions.

Bounds of the model, not of the code: `MaxEdits`, `Chunks`, `EditId`, `Node`,
`Patterns`, `Bufs`, `Typed`, `Counts`, `Layouts`, `Registers`, `MaxLen`, `MaxEdited`,
`MaxCount`, `Chars`, `MaxText`. Bounds the code has, made small: `Digit` (16 digits in the
code, two here), `Polls` (5 in the
code), `Chunk` (256), the longest line of `LineEditor` (256, `MAX_CMD_BUF`) and its
ring (100, `MAX_CMD_HISTORY`), `Unit` (100 percent), `MaxKeys` (the keys of a
macro: 256 in the code, which does not look at that limit while recording),
`Capacity` (the keys `ungetch` has room for).

CHECK_DEADLOCK is off where the bounds stop the system (no more edits, one
pattern and one buffer, one save) or where the user has quit. In `save_status` it
is on. In `search_file` an empty file with the cursor on 0 is always searchable
forwards; it is off there because a cursor that may only be searched from by a
slip (on the last byte of a file of one) may have no other step, and in `words` for
the same reason. It is on in `editor`, `keys` and `line_editor`.

The history properties of `text` also hold with `RunOn` and `InReplaced` TRUE; the
proofs do not ask for either.

Violation run: `save_two_inserts`; see section 3 and "findings" in PROJECT.json.

## 5. Fairness

`SaveStatus`, `SearchFile` and `Keys` state liveness. The first two assume weak
fairness of the main thread's steps and of the status thread's: each runs on its own, sleeps for
a bounded time and takes no lock, so the scheduler of any system with threads lets
both go on. Nothing is assumed of the user: a save or search need not be
started, the key that closes a message box (`Key` in `SaveStatus`) need not come,
nor ESC. `ControlReturns` therefore counts the message box as control returned.
`SearchReturns` says a search always ends: both legs are finite, and every way out
of them tells the thread to stop before joining it. The message box at the wrap, between
the legs, waits for a key; that key is taken as given. That the thread's inner loop
over the keys ends is taken for granted: its window does not wait.

`Keys` assumes that the program reads a key that is queued (`queue # <<>> /\ Take`)
and that a search it has started ends, which `SearchFile` shows. The user need never
type. `PlaybackEnds` does not follow from the queue being finite, since `g` and `@`
push keys back to it.

## 6. Proofs

All theorems are checked by tlapm from the assumptions named in the modules
(`VirtFileAssumption`, `FileRingAssumption`, `OpenFileAssumption`,
`SessionAssumption`, `SaveStatusAssumption`, `SearchFileAssumption`,
`KeysAssumption`, `LineEditorAssumption`, `EditorAssumption`, `UnitAssumption`): constants
have their types, special values are distinct, a page of `SearchFile` is longer than the
margin, and a percent of `Screen` is at least one byte. A theorem about a user
who makes no slip says so in its ASSUME; all others hold whatever slips are let in.

* `VirtFileProofs`: `UndoListTyped`, `UndoneNewest` and
  `ImplementsLinearHistory`. `UndoneAreNewest` is not inductive in the form vf_undo
  relies on, because `vf_undo` looks for the newest applied entry from one end and
  `vf_redo` and `prune` for undone ones from the other. The invariant `HistoryInv`
  says that the applied entries are exactly the `LastApplied(ul)` oldest. Every
  action is first reduced to one of four shapes (`StepShape`: drop the undone,
  drop and push, unmark a range, mark a range), so that what the tree does plays
  no part; each shape then preserves the marks and is a step of `LinearHistory`.
  The tree is the subject of `TreeInvariant`, `NeverDangling` and `FlagsFollowHistory`:
  the undo list never names a vbuf that `prune` has freed, and a vbuf is active exactly
  when its edit is in force. Neither is inductive. Whether `prune` may free a vbuf hangs
  on whether it has children left, hence on who owns those, and an undo is right about
  the flags only if no vbuf belongs to two edits. `TreeInv` says that the tree is linked
  (`Linked`: parents and lists of children agree, no list names a vbuf twice, and a vbuf
  is older than those under it) and that the undo list owns it (`Owned`: every vbuf
  but the root belongs to one entry, has the state of that entry, and hangs under
  vbufs of older ones). So the undone entries, which are the newest, can be freed newest
  first, and every vbuf freed has lost its children by then: that is why the order of
  `prune` matters. An edit adds vbufs under old ones at places the tree has
  (`DescendSpot`, `WalkSpots`): the walk of `vf_replace` and `vf_delete` is
  followed by recursion on how far a vbuf is from the newest, its loops as chains.
  `NothingDrifts` is about what `resize` does to sizes and starts. The vbufs it
  touches, the line from a vbuf to the root and what stands behind them, depend on
  the links only, and switching changes no link. The vbufs of one entry
  hang side by side under those of older entries (`Apart`), so switching one off
  changes neither the size nor the flag of another (`OffAndOn`). So
  each step of a redo moves starts and sizes back by exactly what the step of the
  undo moved them, though both go through the entry in the same order.
  `SizesStayRight` is about the sums. The code never computes a size from the
  children: it adds and subtracts on the way up, and the vbufs above are as large as
  they should be only if each amount added is the amount by which what the child
  *gains* its parent has changed (`Gain`). For an undone vbuf that is 0, and
  `mod_parent_size` goes past undone vbufs and REPLACE vbufs all the same. `Sized`
  adds the types that `Gain` needs and that nothing hangs under a DELETE vbuf. It is
  kept because a vbuf is switched only when all above it is in force and all under
  it undone (`Ready`), which the order of the undo list gives: entries above are older,
  those under it newer (`AtTurn`). A new vbuf comes after a `prune`, hence under
  vbufs in force, and is an undone one that gains nothing, then switched on. `prune` frees
  vbufs that gain nothing.
  The theorems hold for any slips.
* `SessionProofs`, the ring: `RingIsRow`, `RingAlwaysLinked`, `RingInSync` and
  `ImplementsTabBar`. `RingInv` says that the links are inverse to each other, that
  `head` and `cur` are in the ring, and that `cur` is `current_file` between two commands.
  The lemmas say that adding, removing and moving keep a ring a ring. A ring by its
  links alone may still be two circles: `RowInv` says that there is a row, a sequence
  without repetition, which starts at the head, lists every node and whose neighbours
  are the links. So a walk along `next` comes back to where it began after as many steps
  as there are files, not sooner (`TurnExists`, `TurnStep`). `:wa` and `:qa` rest on it: `SaveWalk`
  and `AskedAt` move the ring turn by turn, a save on the way points it at the file it
  is at, and they end where they began (`SaveAllInTurn`, `SaveAllReturns`,
  `AskedAtIs`). Each command on the ring is a step of `TabBar` on the row.
* `SessionProofs`, the screen: `ScreenFollows` and `StaleScreenStaysClean`, for every
  user. The invariant `ScreenInv` says that the file printed last is open, and is the one
  commands act on unless that one has no unsaved changes. Only `:wa` leaves another one
  (`ScreenIsCurrent` fails, section 3); its walk ends with the file commands act on,
  which it saves and prints if it has any changes.
* `SessionProofs`, the files: `TypesAreKept` for every user; `AlwaysShowsDisk`,
  `AlwaysAllSaved`, `AlwaysOthersKeepUnsaved`, `DiskStaysIntact` and
  `AlwaysReadsOpenStream` for a careful one, who makes no slip and names no file twice on
  the command line. The invariant `FilesInv(M)` is used with two sets of marks, the
  edits a content may be made of. With `Garbled` among them it gives the types and asks
  nothing of the disk; without, `DiskOk` says that each open file rests on what the disk
  holds under the name of its stream, and that no other open file has that name, so
  that no save changes what lies below another file's edits. `:wa` is a walk along the
  ring; its invariant divides the row at the file it has come to, those before it saved,
  those behind it as they were, and the row turned to that file is what the next turn
  sees.
* `SaveStatusProofs`: `StatusTyped`, `ThreadGone` (`FrameAlive`, which no run repeats: it is
  what the one `pthread_join` before the return gives) and, unless the save of an empty file
  fails, `JoinNotInVain`. The invariant ties the thread's life to `pc`, and `Outcome` says
  that whoever reaches the check has 100 in `complete` or a size that gives the
  failure away, which is where empty files fail.
* `SearchFileProofs`: `SearchDataAlive`, `PercentAlwaysInBox` and `AlwaysLandsNext`. The
  invariant `SearchInv` says where each leg begins and ends, that `addr` stays between,
  and that `current` lies between `start` and `end` in either order; once the thread has
  seen `current # end`, `start # end` follows, and stays, however `current` moves on.
  `LandInv` adds `NonePassed`: no match that the search wants lies where it has
  been, in the first leg or in the one behind the wrap. It is inductive only under
  `WithinMargin`: a match is at most one byte longer than what two pages share.
  That is as far as the code goes; TLC finds the search that misses a longer one.
* `KeysProofs`: `KeysTyped`, and `MacrosReplay` where no slip is made. Its
  `ReplayInvariant` says that each finished macro, read key by key from the main
  loop, passes through the readers recorded with it and ends in the main loop;
  that a macro being recorded has come as far as the reader the program is in; and
  that what is queued is the rest of a macro played.

* `LineEditorProofs`: `LineTyped` for every user and `ImplementsInputLine` for a careful
  one, for lines and rings of every size. Lines are numbered by how far back they lie
  from the slot that was current at the call (`Back`), so that `hist_index` is the
  length of the walk, and `LineInv` says that each line walked past has been used,
  that none fills the buffer, and that between two calls no walk goes on. The lemmas
  on `Back` are the arithmetic of the ring; those on `Lines` say that the lines behind a
  slot end at one never used or at the slot itself, and that the line entered is put
  before them, and the last of a full ring dropped; those on `Fore` and `Rear` cut
  the buffer at the cursor.
* `EditorProofs`: `EditorTyped` and `AlwaysInStep`, then `AlwaysTypedShows`,
  `AlwaysCutIsKept`, `AlwaysActsOnShown` and `AlwaysActsToMotion`, for texts, layouts,
  counts and inputs of any size. `ScreenInStep` is not inductive. It says nothing of the
  versions that undo may bring back, of the rows and columns of the page, nor of where a
  page begins that has no text under it; so the next key could fail. `EditorInv`
  has three parts. `ScreenInv`: every version is a text within the bound, the screen has
  the size of the current one and the rows of a layout, its page begins with a line
  and ends where `PageEnd` says, the cursor and the selection are on the text.
  `RegistersInv`: a register holds a text. `MotionInv`: the statics have their types. All
  theorems assume `Steady`, which is two things. The slips that put the screen out of
  step are left out (`emptied`, `past`, `tail`, `back`): section 3 shows the
  counterexample to each. And a page has at least `Unit` bytes on every layout (100 in
  the code, a percent of that many bytes being one): on a smaller page, `update_percent` divides by zero for a
  text that is longer than the page and shorter than 100 bytes. The run's layouts meet
  `Steady` with their `Unit` of 1.
  The lemmas go up in layers. Each motion, `place_cursor` and `print_screen` leave a
  page that begins with a line and the cursor on it, or on none if the text is gone
  (`PlacedIs`, `PrintedIs`, `Settled`). Each call of the layer below is an `Exchange`: a
  version is the one before,
  with the bytes from an address on given way to others; the counted calls of
  `do_insert` and the typing of a line are chains of such steps. So each key takes a
  screen that shows its text to one that does (`EditorStep`, one step per action).
  The action properties follow from the invariant and from what each key exchanges.
  `AlwaysTypedShows` also leaves out `count` and `half`; the row of digits that the keys
  spell is followed beside the loop, `tmp` being its odd digit. `AlwaysCutIsKept` leaves out
  `few`, and rests on two exchanges at one place being one (`ExchangeTwice`,
  `ExchangeBack`). `AlwaysActsOnShown` leaves out `half` and `change`, and `AlwaysActsToMotion`
  `again` as well. There, `get_next_motion_addr` computes its address in virtual
  terms, with no page, while the motion as a command scrolls: `VirtualLands` shows
  that both end at the same address.
* `DataLemmas`: a bounded set of numbers has a greatest element and a non-empty one a
  least; what `InsertAt` and `RemoveAt` do to a sequence, element by element, and what
  `Exchange` does; and an induction principle over the numbers. The library states
  induction with an operator as parameter, which the provers cannot instantiate; stated
  for a *set* of numbers it needs none, and follows from the well-founded order of
  finite sets. On recursion: the value of a fold is the end of a chain, a sequence
  that begins with the base and makes one turn of the loop at each element, so that an
  invariant of the loop can be shown along the chain; and a function defined by
  recursion on a rank exists, so that its defining equation may be used. A fold and a
  recursive definition are a CHOOSE for the prover, which says nothing until this is
  shown. The step and the body are constants of the module, since the provers cannot
  instantiate an operator; there is an instance for each loop of the model.

Only model-checked: the bytes of the tree (`BufferMatches`, `ReadersAgree`,
`SaveWritesText`), and with them the refinement of `EditBuffer`, and what patterns
mean and match (`TermMeans`, `FindsShortest`): these rest on recursive functions and
folds that put together a text, of which the proofs above need the links, the shifts
and the sums only. So are the liveness properties, which need fairness and ENABLED.
`Words` holds no theorem. Nor is `VirtFile.TypeOK` proved: that no size or
start becomes negative needs, beside the sums, that the children of a vbuf lie
inside it in the order of its list, whatever was undone between them.

## 7. Not modelled

* Bytes and commands meet in no one model: `Session` takes edits as opaque. The
  hanging save of an empty file is in `SaveStatus`, not in `Session`. `:e` of a
  directory goes through the file browser and is left out.
* `vf_save` and stdio are taken to succeed once the file is open: the code looks
  at no result of `fwrite`, so there is no failure path to model. A crash in
  the middle of a save leaves a mixture, by design of an in-place save.
* Hex patterns (two digits for a byte), `ignorecase`, the limits of 256
  characters, criteria and range entries, and the eight search items of which one
  is used.
* The virtual cursor of visual mode: `SearchFile` is the search with `CURSOR_REAL`.
* curses called from two threads: what it does then is not in this repository.
* A grouping above 1 (bytes counted in twos and fours, `key_handler.c:1292` for
  backspace), and a resize in the middle of a line that is typed.
* The table of marks: 62 addresses; the help offers 0 to 9 (`help.c:79`), which
  `action_set_mark` refuses.
* `g` with a digit behind it, which flashes and leaves the count and `jump_addr` standing
  for the next key (`key_handler.c:2098`), and a count that begins with 0, after which
  `0G` goes to address 0 (`1960`): in `Editor` counts are chosen freely.
* The message box of a search that wraps (`SearchFile`).
* In `Keys`, the message boxes of commands other than the search; ERR, which the
  status thread may record as a key.
* Windows, colours, blobs, preferences, the file browser, the help and external
  commands: layout and I/O, with next to no state of their own.

## 8. Plan

1. Done: `Vbuf`, `VirtFile`, `TextHistory`, `VfSave`, `SaveStatus`, `FileRing`, `OpenFile`,
   `Session`, `Pattern`, `Matcher`, `Search`, `SearchFile`, `Screen`, `Typing`, `Editor`,
   `Words`, `Keys`, `LineEditor`, and the abstract `EditBuffer`, `LinearHistory`, `TabBar`
   and `InputLine`.
2. Next to model: the pointer level of the vbuf list (`insert_new_vbuf` and `prune` on
   `next`, `prev`, `first_child`), refined to `Vbuf`'s sequences; groupings above 1;
   preferences and their limits.
3. Next to prove: that the children of a vbuf lie inside it in the order of its
   list, and with it that no size or start is negative; that the text of the tree
   is the one of `EditBuffer`; that `Words` reaches the word it should.
