---------------------------- MODULE MCVirtFile ----------------------------
(***************************************************************************)
(* VirtFile beside the abstract EditBuffer.  The two variables versions    *)
(* and pos only watch: they follow each call as the abstract buffer would, *)
(* and BufferMatches compares them with what the tree delivers.            *)
(***************************************************************************)
EXTENDS VirtFile

VARIABLES versions, pos

CallOf(op, buf, len) == [op : op, offset : 0 .. FileSize + 9, buf : buf, len : len]

\* the bytes an edit can carry, within the bounds of the runs
Bufs == {[i \in 1 .. len |-> <<id, i>>] : id \in 1 .. 9, len \in InsertLen \cup ReplaceLen}

Buffer == INSTANCE EditBuffer WITH
  Call <- CallOf({"insert"}, Bufs, InsertLen)
            \cup CallOf({"replace"}, Bufs, ReplaceLen)
            \cup CallOf({"delete"}, {<<>>}, DeleteLen)
            \cup CallOf({"undo", "redo"}, {<<>>}, Count)

MCInit == Init /\ versions = <<TextByBuf(tree)>> /\ pos = 1

MCNext == Next /\ Buffer!Follow(call')

MCSpec == MCInit /\ [][MCNext]_<<vars, versions, pos>>

\* The texts of the whole history: undone one by one, and redone one by one.
Versions ==
  LET top == LastApplied(ul)
  IN  [i \in 1 .. Len(ul) + 1 |->
         TextByBuf(IF i <= top THEN SwitchAll(tree, ToUndo(top - i + 1), FALSE)
                               ELSE SwitchAll(tree, ToRedo(i - top - 1), TRUE))]

\* Every version of the history is in the tree: undoing and redoing one entry
\* after the other reads exactly the texts the abstract buffer remembers.
\* _insert_before, _replace, _delete, vf_undo, vf_redo, prune and _get_buf.
BufferMatches == pos = LastApplied(ul) + 1 /\ versions = Versions

\* With these two variables as its history, VirtFile is an EditBuffer: each
\* call is one of its calls and returns what it returns.
IsEditBuffer == Buffer!Spec

\* _get_char delivers the text too, where the versions say what it is: with
\* bytes inserted under a REPLACE vbuf _get_buf is no judge of it.
CharReadsText == TextByChar(tree) = versions[pos]

\* "Insert before", "Replace byte or selection", "Delete byte or selection"
\* (src/help.c): after an edit the screen shows the text the edit asked for.
EditShows == Buffer!IsEdit(call) => TextByBuf(tree) = versions[pos]
=============================================================================
