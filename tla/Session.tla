----------------------------- MODULE Session -----------------------------
(***************************************************************************)
(* The editor session: the ring of open files, the one commands act on,    *)
(* the one on the screen, the size the display knows, and the files on     *)
(* disk, with one action per command (cmd_parse of src/key_handler.c,      *)
(* src/actions.c). A command runs to its end before the next key is read,  *)
(* so it is one step. Most end in print_screen, which prints current_file  *)
(* and points the ring at it. Not all: :wa prints the files it saves on    *)
(* its way around the ring and then only sets current_file back, and a :w  *)
(* with nothing to save and a :w name that succeeds print nothing.         *)
(***************************************************************************)
EXTENDS FileRing, OpenFile, SequencesExt

CONSTANTS
  EditId,  \* bound: the edits that are made
  OnDisk,  \* the names that exist at first
  Argv,    \* the names on the command line
  Slips    \* what the user does that the code has no answer for, see below

\* The slips: opening a file that is open already ("twice"), opening one that
\* cannot be read ("unreadable"), reloading one whose name cannot be opened
\* ("reload"), creating one that exists ("exists"), saving under a name that
\* is in use ("own").
AllSlips == {"twice", "unreadable", "reload", "exists", "own"}

Cancel == "cancel"  \* ESC in file_name_prompt

ASSUME SessionAssumption ==
  /\ OnDisk \subseteq Name
  /\ Argv \in Seq(Name)
  /\ Slips \subseteq AllSlips
  /\ Garbled \notin EditId \cup Name /\ Cancel \notin Name

VARIABLES
  ring,     \* file_ring
  file,     \* the open files: a function on the nodes of the ring
  current,  \* current_file
  printed,  \* the file print_screen printed last: the one on the screen
  size,     \* display_info.file_size
  disk,     \* the files there are, and their contents
  quit,     \* app_state.quit
  call,     \* the last command: [op, failed], failed when it reported an error
  args      \* main: the names of the command line not opened yet

vars == <<ring, file, current, printed, size, disk, quit, call, args>>

Answer == Name \cup {Cancel}

Here == file[current]

\* the file n of the ring, and the others as they are
Put(fs, n, f) == [m \in DOMAIN fs \cup {n} |-> IF m = n THEN f ELSE fs[m]]

Used(fs, dk) ==
  UNION {Range(fs[n].log) \cup Range(fs[n].base) : n \in DOMAIN fs}
    \cup UNION {Range(dk[n]) : n \in DOMAIN dk}

\* the command is done, with current_file as it was
Finish(op, failed) ==
  /\ call' = [op |-> op, failed |-> failed]
  /\ UNCHANGED <<current, quit, args>>

\* print_screen, when the ring is r
PrintScreen(r) ==
  /\ ring' = ShowTabs(r, current)
  /\ printed' = current

\* the command ends with the screen printed, and without
Show(op, failed) == PrintScreen(ring) /\ Finish(op, failed)
Silent(op) == Finish(op, FALSE) /\ UNCHANGED <<ring, printed>>

(***************************************************************************)
(* main: the files of the command line, those that cannot be opened        *)
(* removed again; an empty file when none is left.                         *)
(***************************************************************************)
Init ==
  /\ ring = EmptyRing
  /\ file = [n \in {} |-> Blank]
  /\ current = None
  /\ printed = None
  /\ size = 0
  /\ disk = [n \in OnDisk |-> <<n>>]
  /\ quit = FALSE
  /\ call = [op |-> "start", failed |-> FALSE]
  /\ args = Argv

OpenArgument ==
  /\ args # <<>>
  /\ \E n \in Node \ InRing(ring) :
       IF InitOk(Head(args), disk)
       THEN /\ ring' = AddNode(ring, n)
            /\ file' = Put(file, n, InitFile(Blank, Head(args), disk))
       ELSE /\ ring' = RemoveNode(AddNode(ring, n), n)
            /\ UNCHANGED file
  /\ disk' = InitDisk(Head(args), disk)
  /\ args' = Tail(args)
  /\ UNCHANGED <<current, printed, size, quit, call>>

\* the ring r with the files fs is complete, and its current file is shown
Begin(r, fs) ==
  /\ ring' = ShowTabs(r, r.cur)
  /\ file' = fs
  /\ current' = r.cur
  /\ printed' = r.cur
  /\ size' = FileSize(fs[r.cur])
  /\ UNCHANGED <<disk, quit, call, args>>

Start ==
  /\ args = <<>>
  /\ IF ring.cur # None
     THEN Begin(ring, file)
     ELSE \E n \in Node : Begin(AddNode(ring, n), Put(file, n, Blank))

(***************************************************************************)
(* Edits, undo and redo of the current file.                               *)
(***************************************************************************)

\* faulty: the screen is not printed
ChangeUnprinted(op, f) ==
  /\ file' = Put(file, current, f)
  /\ size' = FileSize(f)
  /\ UNCHANGED disk
  /\ Silent(op)

Change(op, f) ==
  /\ file' = Put(file, current, f)
  /\ size' = FileSize(f)
  /\ UNCHANGED disk
  /\ Show(op, FALSE)

Edit == \E e \in EditId \ Used(file, disk) : Change("edit", Edited(Here, e))
Undo == NeedSave(Here) /\ Change("undo", Undone(Here))
Redo == Change("redo", Redone(Here))

\* what only prints: a page turned (place_cursor), the key after a message box,
\* the keys that group the bytes in another way
Reprint == Show("look", FALSE) /\ UNCHANGED <<file, size, disk>>

\* action_do_resize
Resize ==
  /\ size' = FileSize(Here)
  /\ Show("resize", FALSE)
  /\ UNCHANGED <<file, disk>>

(***************************************************************************)
(* :e, :e name, :e!                                                        *)
(***************************************************************************)

\* the new node is linked in before the current file, and becomes the current one
Enter(op, f, dk) ==
  \E n \in Node \ InRing(ring) :
    /\ ring' = ShowTabs(AddNode(ring, n), n)
    /\ file' = Put(file, n, f)
    /\ current' = n
    /\ printed' = n
    /\ size' = FileSize(f)
    /\ disk' = dk
    /\ call' = [op |-> op, failed |-> FALSE]
    /\ UNCHANGED <<quit, args>>

NewFile == Enter("e", Blank, disk)

OpenNamed(name) ==
  /\ name \in DOMAIN disk
  /\ "twice" \in Slips \/ \A n \in DOMAIN file : file[n].fname # name
  /\ "unreadable" \in Slips \/ name \notin Unreadable
  /\ Enter("e name", InitFile(Blank, name, disk), InitDisk(name, disk))

Reload ==
  LET f == InitFile(Terminated(Here), Here.fname, disk)
  IN  /\ "reload" \in Slips \/ InitOk(Here.fname, disk)
      /\ file' = Put(file, current, f)
      /\ size' = FileSize(f)
      /\ disk' = InitDisk(Here.fname, disk)
      /\ Show("e!", FALSE)

(***************************************************************************)
(* :w, :wa, :w name.  What they make of a state is a record of file, disk, *)
(* size and whether it failed.                                             *)
(***************************************************************************)

\* vf_save on the file n, checked against the size on display
SaveChecked(s, n) ==
  LET f == s.file[n]
  IN  IF NeedSave(f)
      THEN [file |-> Put(s.file, n, SavedFile(f)), disk |-> SavedDisk(f, s.disk),
            size |-> s.size, failed |-> SavedSize(f) # s.size]
      ELSE [s EXCEPT !.failed = FALSE]

\* action_save on the file n; answer is what the user gives as a name if asked
ActionSave(s, n, answer) ==
  LET f == s.file[n]
      created == [s EXCEPT !.file = Put(@, n, CreatedFile(f, answer, s.disk)),
                           !.disk = CreatedDisk(answer, @)]
  IN  IF ~NeedCreate(f) THEN SaveChecked(s, n)
      ELSE IF answer = Cancel THEN [s EXCEPT !.failed = TRUE]
      ELSE IF ~CreateOk(answer, s.disk) THEN [created EXCEPT !.failed = TRUE]
      ELSE SaveChecked(created, n)

Now == [file |-> file, disk |-> disk, size |-> size, failed |-> FALSE]

\* the file n is shown and saved, if it needs to be
SaveShown(s, n, ask) ==
  IF NeedSave(s.file[n])
  THEN ActionSave([s EXCEPT !.size = FileSize(s.file[n])], n, ask[n])
  ELSE s

(***************************************************************************)
(* action_save_all: once around the ring, from the next file to the one    *)
(* commands act on; each that needs it is shown and saved, and errors are  *)
(* ignored.  On its way it carries the ring, what is printed and what is   *)
(* saved.                                                                  *)
(***************************************************************************)
SetOut == [ring |-> ring, printed |-> printed, saved |-> Now]

\* the ring has come to r
SaveAt(t, r, ask) ==
  LET show == NeedSave(t.saved.file[r.cur])
  IN  [ring    |-> IF show THEN ShowTabs(r, r.cur) ELSE r,
       printed |-> IF show THEN r.cur ELSE t.printed,
       saved   |-> SaveShown(t.saved, r.cur, ask)]

\* faulty: the file commands act on is passed over
SaveNextOther(t, ask) ==
  LET r == GoNext(t.ring)
  IN  IF r.cur = current THEN [t EXCEPT !.ring = r] ELSE SaveAt(t, r, ask)

SaveNext(t, ask) == SaveAt(t, GoNext(t.ring), ask)

SaveWalk(turns, ask) ==
  LET walk[k \in 0 .. turns] ==
        IF k = 0 THEN SetOut
        ELSE IF k > 1 /\ walk[k - 1].ring.cur = current THEN walk[k - 1]
        ELSE SaveNext(walk[k - 1], ask)
  IN  walk[turns]

\* faulty: the walk ends one file early
SaveAllShort(ask) == SaveWalk(Cardinality(InRing(ring)) - 1, ask)

\* no walk back to current_file takes more turns
SaveAll(ask) == SaveWalk(Cardinality(InRing(ring)), ask)

\* action_save_as: nothing of vf_save is checked
ActionSaveAs(name) ==
  LET f == Here
      g == IF NeedCreate(f) THEN CreatedFile(f, name, disk) ELSE CopiedFile(f, name)
      dk == IF NeedCreate(f) THEN CreatedDisk(name, disk) ELSE CopiedDisk(f, name, disk)
      ok == IF NeedCreate(f) THEN CreateOk(name, disk) ELSE CopyOk(name)
  IN  [file |-> Put(file, current, IF ok THEN SavedFile(g) ELSE g),
       disk |-> IF ok THEN SavedDisk(g, dk) ELSE dk, size |-> size, failed |-> ~ok]

Saved(answer) == ActionSave(Now, current, answer)

Store(s) == file' = s.file /\ disk' = s.disk /\ size' = s.size

\* the answers that are no slip
MayCreate(answer) ==
  "exists" \in Slips \/ answer = Cancel \/ answer \notin DOMAIN disk
MayAnswer(ask) ==
  \A n \in DOMAIN ask :
    /\ MayCreate(ask[n])
    /\ "exists" \in Slips \/ \A m \in DOMAIN ask \ {n} : ask[m] = Cancel \/ ask[m] # ask[n]
MaySaveAs(name) ==
  IF NeedCreate(Here) THEN MayCreate(name)
  ELSE "own" \in Slips \/ \A n \in DOMAIN file : file[n].fname # name

Write(answer) ==
  /\ NeedCreate(Here) => MayCreate(answer)
  /\ Store(Saved(answer))
  /\ IF NeedCreate(Here) \/ NeedSave(Here) THEN Show("w", Saved(answer).failed)
                                          ELSE Silent("w")

WriteAll(ask) ==
  /\ MayAnswer(ask)
  /\ LET t == SaveAll(ask)
     IN  /\ Store(t.saved)
         /\ ring' = t.ring /\ printed' = t.printed
  /\ Finish("wa", FALSE)

WriteAs(name) ==
  /\ MaySaveAs(name)
  /\ Store(ActionSaveAs(name))
  /\ IF ActionSaveAs(name).failed THEN Show("w name", TRUE) ELSE Silent("w name")

(***************************************************************************)
(* :q, :q!, :wq, :qa, :qa!, :wqa                                           *)
(***************************************************************************)

\* the current file leaves the ring and the next one is shown, if there is one; if
\* not, the screen goes with the editor
Leave(op, s) ==
  LET r == RemoveNode(ring, current)
  IN  /\ ring' = ShowTabs(r, r.cur)
      /\ file' = [n \in InRing(r) |-> s.file[n]]
      /\ current' = r.cur
      /\ printed' = IF r.cur = None THEN printed ELSE r.cur
      /\ size' = IF r.cur = None THEN s.size ELSE FileSize(s.file[r.cur])
      /\ disk' = s.disk
      /\ quit' = (r.cur = None)
      /\ call' = [op |-> op, failed |-> FALSE]
      /\ UNCHANGED args

\* action_quit, after the commands that saved s
ActionQuit(op, s, force) ==
  IF NeedSave(s.file[current]) /\ ~force
  THEN Store(s) /\ Show(op, TRUE)
  ELSE Leave(op, s)

Quit(force)      == ActionQuit(IF force THEN "q!" ELSE "q", Now, force)
WriteQuit(answer) ==
  /\ NeedCreate(Here) => MayCreate(answer)
  /\ ActionQuit("wq", Saved(answer), FALSE)
WriteAsQuit(name) == MaySaveAs(name) /\ ActionQuit("wq name", ActionSaveAs(name), FALSE)

\* action_quit_all: the walk from the ring r to current_file, or to the first of
\* the files fs on the way that has unsaved changes
AskedAt(r, fs) ==
  LET turns == Cardinality(InRing(r))
      walk[k \in 1 .. turns] ==
        IF k = 1 THEN GoNext(r)
        ELSE IF walk[k - 1].cur = current \/ NeedSave(fs[walk[k - 1].cur]) THEN walk[k - 1]
        ELSE GoNext(walk[k - 1])
  IN  walk[turns]

\* t is what was carried around the ring so far
ActionQuitAll(op, t, force) ==
  LET asked == AskedAt(t.ring, t.saved.file)
  IN  /\ Store(t.saved)
      /\ IF force \/ asked.cur = current
         THEN /\ quit' = TRUE
              /\ call' = [op |-> op, failed |-> FALSE]
              /\ ring' = IF force THEN t.ring ELSE asked
              /\ printed' = t.printed
              /\ UNCHANGED <<current, args>>
         ELSE PrintScreen(asked) /\ Finish(op, TRUE)

QuitAll(force) == ActionQuitAll(IF force THEN "qa!" ELSE "qa", SetOut, force)
WriteAllQuit(ask) ==
  /\ MayAnswer(ask)
  /\ ActionQuitAll("wqa", SaveAll(ask), FALSE)

(***************************************************************************)
(* Going to another file: the size on display goes into private_data, and  *)
(* comes back from there when the file is shown again.                     *)
(***************************************************************************)
GoTo(op, r) ==
  LET left == Put(file, current, [Here EXCEPT !.private = size])
      f    == left[r.cur]
  IN  /\ ring' = ShowTabs(r, r.cur)
      /\ file' = left
      /\ current' = r.cur
      /\ printed' = r.cur
      /\ size' = IF f.private = NoInfo THEN FileSize(f) ELSE f.private
      /\ call' = [op |-> op, failed |-> FALSE]
      /\ UNCHANGED <<disk, quit, args>>

\* action_load_next_file, action_load_prev_file, ESC and a digit
NextFile == GoTo("next", GoNext(ring))
PrevFile == GoTo("prev", GoLast(ring))
TabFile(digit) ==
  LET steps == IF digit = 0 THEN 0 ELSE digit - 1
      tabs  == From(ring, ring.head)
  IN  \E n \in InRing(ring) :
        n = tabs[(steps % Len(tabs)) + 1] /\ GoTo("tab", [ring EXCEPT !.cur = n])

Command ==
  \/ Edit \/ Undo \/ Redo \/ Reprint \/ Resize
  \/ NewFile \/ Reload \/ NextFile \/ PrevFile
  \/ \E name \in Name : OpenNamed(name) \/ WriteAs(name) \/ WriteAsQuit(name)
  \/ \E answer \in Answer : Write(answer) \/ WriteQuit(answer)
  \/ \E ask \in [{n \in DOMAIN file : NeedCreate(file[n])} -> Answer] :
       WriteAll(ask) \/ WriteAllQuit(ask)
  \/ \E force \in BOOLEAN : Quit(force) \/ QuitAll(force)
  \/ \E digit \in 0 .. 9 : TabFile(digit)

Next ==
  /\ ~quit
  /\ IF current = None THEN OpenArgument \/ Start ELSE Command

Spec == Init /\ [][Next]_vars

(***************************************************************************)
(* Properties.                                                             *)
(***************************************************************************)

\* Types; the open files are those of the ring, and no two edits are one.
TypeOK ==
  /\ DOMAIN file = InRing(ring)
  /\ DOMAIN disk \subseteq Name
  /\ size \in Nat /\ quit \in BOOLEAN /\ printed \in Node \cup {None}
  /\ \A n \in DOMAIN file :
       /\ file[n].fname \in Name \cup {NoName}
       /\ file[n].fp \in {file[n].fname, Closed}
       /\ file[n].pos \in 0 .. Len(file[n].log)
       /\ file[n].private \in Nat \cup {NoInfo}

\* The links of the ring, through every open and every close: next and last
\* are inverse, and lead to open files only (vf_add_fm_to_ring,
\* vf_remove_fm_from_ring).
RingLinked == Linked(ring)

\* Between two commands the ring points at current_file, from where :next, :prev
\* and vf_add_fm_to_ring go on: action_save_all, action_quit_all and
\* update_file_tabs_window walk around the ring, the first with current_file
\* changed on the way and no print_screen at its end, and each must come back.
\* It says nothing of the screen.
InSync == ~quit /\ current # None => current \in InRing(ring) /\ ring.cur = current

\* After :wa the screen and the tab bar may be left on another file than the one
\* the next command acts on (action_save_all sets current_file back and prints
\* nothing).  Then that other file is still open, and the one commands act on has
\* no unsaved changes: what :q could drop, or :w write, is always on the screen.
StaleScreenIsClean ==
  ~quit /\ current # None /\ printed # current =>
    printed \in InRing(ring) /\ ~NeedSave(Here)

\* That the screen shows the file commands act on, always.
ScreenIsCurrent == ~quit => printed = current

\* What is shown below the edits is what is on disk: a file without unsaved
\* changes shows what a reader of the disk finds, whatever other files were
\* opened, saved, reloaded and closed.
ShowsDisk ==
  \A n \in DOMAIN file :
    file[n].fp # Closed => disk[file[n].fp] = file[n].base

\* "If not [given a file name] the user must open the stream and set the size"
\* (src/virt_file.c, vf_init): without a stream there are no bytes to read, so
\* print_screen never hands a NULL stream to fread.
ReadsOpenStream ==
  \A n \in DOMAIN file : file[n].fp = Closed => file[n].base = <<>>

\* No save mixes the edits of one content into another.
DiskIntact == \A name \in DOMAIN disk : disk[name] # <<Garbled>>

\* ":wa Save all": only a file that cannot be written, or was given no new
\* name, is left unsaved by action_save_all.
AllSaved ==
  call.op = "wa" =>
    \A n \in DOMAIN file :
      NeedSave(file[n]) => NeedCreate(file[n]) \/ file[n].fname \in ReadOnly

\* ":w <name> Save as <name>": what is shown is on disk under the new name.
SaveAsWrites ==
  call.op = "w name" /\ ~call.failed /\ ~NeedCreate(Here) =>
    disk[Here.fname] = Intended(Here)

\* "Only saved ... bytes, should have saved ... bytes!!" (src/actions.c): when
\* action_save reports that, something was not saved.
FailureIsReal ==
  call.op = "w" /\ call.failed => NeedSave(Here) \/ NeedCreate(Here)

\* The file of node n keeps its unsaved changes in this step, or has them
\* written under some name.
KeepsUnsaved(n) ==
  NeedSave(file[n]) =>
    \/ /\ ~quit'
       /\ n \in DOMAIN file'
       /\ Applied(file'[n]) = Applied(file[n])
    \/ \E name \in DOMAIN disk' : disk'[name] = Intended(file[n])

\* The commands that say they discard: "Quit without saving", "Quit all
\* without saving", "Reload current file discarding changes"
\* (src/help.c); and undo, redo and further edits.
Discards == {"q!", "qa!", "e!", "edit", "undo", "redo"}

\* No other command loses unsaved changes, and of those only :qa! touches a file
\* that is not the current one.  :qa and :wqa look at every file but that one.
OthersKeepUnsaved ==
  [][\A n \in DOMAIN file :
       IF n = current THEN call'.op \notin Discards \cup {"qa", "wqa"} => KeepsUnsaved(n)
                      ELSE call'.op # "qa!" => KeepsUnsaved(n)]_vars

\* The same without the exception: ":qa Quit all" is not ":qa! Quit all
\* without saving" (src/help.c).
AllKeepUnsaved ==
  [][\A n \in DOMAIN file :
       n # current \/ call'.op \notin Discards => call'.op = "qa!" \/ KeepsUnsaved(n)]_vars

\* The ring is a row of tabs, in the order the screen shows them from the head.
TabRow == From(ring, ring.head)
TabChosen ==
  LET row == TabRow
  IN  IF ring.cur = None THEN 1 ELSE CHOOSE i \in DOMAIN row : row[i] = ring.cur

Tabs == INSTANCE TabBar WITH
  tabs  <- TabRow,
  chosen <- TabChosen,
  begun <- quit \/ current # None

IsTabBar == Tabs!Spec
===========================================================================
