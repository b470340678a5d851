------------------------------- MODULE History -------------------------------
(***************************************************************************)
(* What undo_manager.h promises.  There is a sequence of actions that are  *)
(* done and a sequence of actions that are undone; the document is what    *)
(* performing the done actions, in order, on the empty project produces.   *)
(***************************************************************************)
EXTENDS Naturals, Sequences

CONSTANTS
  Actions,    \* every undoable action
  Replay(_)   \* the document that a sequence of actions produces

VARIABLES
  done,      \* first performed first
  undone,    \* last undone last
  document

history == <<done, undone, document>>

Init == done = <<>> /\ undone = <<>> /\ document = Replay(<<>>)

\* A new action, after which nothing can be redone.
Perform ==
  /\ \E action \in Actions : done' = Append(done, action)
  /\ undone' = <<>>
  /\ document' = Replay(done')

\* "Undo last action."
Undo ==
  /\ done # <<>>
  /\ undone' = Append(undone, done[Len(done)])
  /\ done' = SubSeq(done, 1, Len(done) - 1)
  /\ document' = Replay(done')

\* "Redo last undone action."
Redo ==
  /\ undone # <<>>
  /\ done' = Append(done, undone[Len(undone)])
  /\ undone' = SubSeq(undone, 1, Len(undone) - 1)
  /\ document' = Replay(done')

Next == Perform \/ Undo \/ Redo

Spec == Init /\ [][Next]_history
=============================================================================
