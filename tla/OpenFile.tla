----------------------------- MODULE OpenFile -----------------------------
(***************************************************************************)
(* One open file as the session sees it (file_manager_t of                 *)
(* src/virt_file.c without its tree) and the functions that tie it to the  *)
(* disk.                                                                   *)
(*                                                                         *)
(* dk is the disk: a function from the names that exist to their contents. *)
(* A content is a sequence of marks, one for what was there at first and   *)
(* one for every edit written since; its length stands for its size.  An   *)
(* open file f holds no bytes of its own: it shows its edits on top of     *)
(* whatever f.fp delivers, and f.base is the content its size was taken    *)
(* from.                                                                   *)
(***************************************************************************)
EXTENDS Integers, Sequences

CONSTANTS
  Name,       \* names of files
  NoName,     \* the empty name of a new file
  Closed,     \* NULL as the stream of an open file
  Garbled,    \* the content left when edits are written over the wrong bytes
  ReadOnly,   \* the names that cannot be opened for writing or created
  Unreadable  \* those that cannot be opened at all

ASSUME OpenFileAssumption ==
  /\ NoName \notin Name /\ Closed \notin Name
  /\ Unreadable \subseteq ReadOnly /\ ReadOnly \subseteq Name

NoInfo == -1  \* private_data is NULL

\* a new element of the ring, calloc'ed, after vf_init without a name
Blank ==
  [fname |-> NoName, fp |-> Closed, base |-> <<>>, log |-> <<>>, pos |-> 0,
   private |-> NoInfo]

Applied(f) == SubSeq(f.log, 1, f.pos)

\* the text the edits were made for, and f->fm.size
Intended(f) == f.base \o Applied(f)
FileSize(f) == Len(Intended(f))

\* faulty: only the newest entry is looked at
NewestApplied(f) == f.log # <<>> /\ f.pos = Len(f.log)

\* vf_need_save, vf_need_create
NeedSave(f)   == f.pos > 0
NeedCreate(f) == f.fp = Closed

\* what VirtFile does, seen from here: an edit, vf_undo, vf_redo, prune
Edited(f, e)  == [f EXCEPT !.log = Append(Applied(f), e), !.pos = @ + 1]
Undone(f)     == [f EXCEPT !.pos = IF @ > 0 THEN @ - 1 ELSE 0]
Redone(f)     == [f EXCEPT !.pos = IF @ < Len(f.log) THEN @ + 1 ELSE @]
PrunedFile(f) == [f EXCEPT !.log = Applied(f)]

\* vf_term: the tree and the stream go, the size stays
Terminated(f) == [f EXCEPT !.fp = Closed, !.base = Intended(f), !.log = <<>>, !.pos = 0]

\* vf_init with a name, of f as it was left by calloc or vf_term.  fopen "a"
\* creates a missing file; where stat or fopen "r" fails what was set stays set.
InitDisk(name, dk) ==
  IF name \in Name \ (DOMAIN dk \cup ReadOnly)
  THEN [n \in DOMAIN dk \cup {name} |-> IF n = name THEN <<>> ELSE dk[n]]
  ELSE dk

InitOk(name, dk) == name \in DOMAIN InitDisk(name, dk) \ Unreadable

\* faulty: the size is not read
InitUnsized(f, name, dk) ==
  [f EXCEPT !.fname = name, !.private = NoInfo,
            !.fp = IF InitOk(name, dk) THEN name ELSE Closed]

InitFile(f, name, dk) ==
  LET named == [f EXCEPT !.fname = name, !.private = NoInfo]
      found == name \in DOMAIN InitDisk(name, dk)
  IN  [named EXCEPT !.base = IF found THEN InitDisk(name, dk)[name] ELSE @,
                    !.fp = IF InitOk(name, dk) THEN name ELSE Closed]

(***************************************************************************)
(* vf_create_file: a file of that name must not exist yet.  If it does it  *)
(* is left open, and the name is set either way.                           *)
(***************************************************************************)
CreateOk(name, dk) == name \notin DOMAIN dk \cup ReadOnly

CreatedFile(f, name, dk) ==
  [f EXCEPT !.fname = name,
            !.fp = IF CreateOk(name, dk) \/ name \in DOMAIN dk \ Unreadable
                   THEN name ELSE Closed]

CreatedDisk(name, dk) == IF CreateOk(name, dk) THEN InitDisk(name, dk) ELSE dk

(***************************************************************************)
(* vf_copy_file, for a file with a stream: "w+" empties the target before  *)
(* the bytes are read from the stream.                                     *)
(***************************************************************************)
CopyOk(name) == name \notin ReadOnly

\* faulty: the new stream, under the old name
CopiedUnnamed(f, name) == IF CopyOk(name) THEN [f EXCEPT !.fp = name] ELSE f

CopiedFile(f, name) == IF CopyOk(name) THEN [f EXCEPT !.fname = name, !.fp = name] ELSE f

CopiedDisk(f, name, dk) ==
  IF CopyOk(name)
  THEN [n \in DOMAIN dk \cup {name} |->
          IF n # name THEN dk[n] ELSE IF n = f.fp THEN <<>> ELSE dk[f.fp]]
  ELSE dk

(***************************************************************************)
(* vf_save: the stream is reopened by name for writing, the edits are      *)
(* written in place, and the tree is dropped.  Over a content that is not  *)
(* the one they were made for the outcome is Garbled.                      *)
(***************************************************************************)
SaveOk(f) == f.fp # Closed /\ f.fname \notin ReadOnly

SavedFile(f) ==
  IF SaveOk(f) THEN [f EXCEPT !.base = Intended(f), !.log = <<>>, !.pos = 0]
               ELSE PrunedFile(f)

SavedDisk(f, dk) ==
  IF SaveOk(f) /\ NeedSave(f)
  THEN [dk EXCEPT ![f.fname] = IF @ = f.base THEN Intended(f) ELSE <<Garbled>>]
  ELSE dk

\* what vf_save returns
SavedSize(f) == IF SaveOk(f) THEN FileSize(f) ELSE 0
===========================================================================
