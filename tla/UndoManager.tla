----------------------------- MODULE UndoManager -----------------------------
(***************************************************************************)
(* The undo manager with its two bounded stacks (undo_manager.c, stack.c), *)
(* the undoable actions the user interface creates, which are the solo of  *)
(* a channel and the creation of a chord, and the solo button of the       *)
(* channel widget, whose "toggled" handler performs an action and is run   *)
(* again by the action it performs.  Everything runs in the GTK main loop: *)
(* a step is an event with all the calls it makes, but for the refresh of  *)
(* the mixer, which takes a step for each channel and lets no other event  *)
(* in between.                                                             *)
(***************************************************************************)
EXTENDS Arrays, Integers, FiniteSets

CONSTANTS
  Mixer,            \* the channels, in mixer order
  Chords,           \* the chords that will be created, one action each
  MaxStackLength,   \* MAX_STACK_LENGTH
  MaxUndoable       \* bound: new actions are performed up to this many to undo

ASSUME UndoAssumption ==
  /\ MaxStackLength \in Nat \ {0} /\ MaxUndoable \in Nat
  /\ Mixer \in Seq(Elements(Mixer))

Channels == Elements(Mixer)

SoloActions == [type : {"solo"}, channel : Channels]
ChordActions == [type : {"chords"}, chord : Chords]
Actions == SoloActions \cup ChordActions

VARIABLES
  undoStack,   \* UndoManager.undo_stack, bottom first
  redoStack,   \* UndoManager.redo_stack, bottom first
  solo,        \* Channel.solo
  chords,      \* ChordTrack.chords
  button,      \* is the solo button of the channel widget active
  flag,        \* ChannelWidget.undo_redo_action
  refreshing   \* the channels mixer_widget_refresh still has to refresh

vars == <<undoStack, redoStack, solo, chords, button, flag, refreshing>>

State == [undo |-> undoStack, redo |-> redoStack, solo |-> solo,
          chords |-> chords, button |-> button, flag |-> flag]

\* The event leaves the program in state s.
Becomes(s) ==
  /\ undoStack' = s.undo /\ redoStack' = s.redo
  /\ solo' = s.solo /\ chords' = s.chords
  /\ button' = s.button /\ flag' = s.flag

\* The main loop waits for an event.
Idle == refreshing = <<>>

Bounded(n) == Len(undoStack) + n <= MaxUndoable

Init ==
  /\ undoStack = <<>> /\ redoStack = <<>>
  /\ solo = [c \in Channels |-> FALSE]
  /\ chords = <<>>
  /\ button = [c \in Channels |-> FALSE]
  /\ flag = [c \in Channels |-> FALSE]
  /\ refreshing = <<>>
-----------------------------------------------------------------------------
Top(stack) == stack[Len(stack)]
Pop(stack) == SubSeq(stack, 1, Len(stack) - 1)
IsFull(stack) == Len(stack) = MaxStackLength

\* stack_push refuses when the stack is full, with a warning.
Push(stack, element) == IF IsFull(stack) THEN stack ELSE Append(stack, element)

\* The push of undo and of redo, which makes room first.
PushEvicting(stack, element) ==
  Push(IF IsFull(stack) THEN Tail(stack) ELSE stack, element)

\* refresh_buttons inside edit_channel_action_do: when the button changes, its
\* handler runs, sees the flag and lowers it; when it does not, the flag stays.
Refreshed(s, c) ==
  IF s.button[c] = s.solo[c] THEN s
  ELSE [s EXCEPT !.button[c] = s.solo[c], !.flag[c] = FALSE]

\* Solo is toggled by do and by undo alike.
ToggleSolo(s, c) ==
  Refreshed([s EXCEPT !.flag[c] = TRUE, !.solo[c] = ~@], c)

\* The action itself is appended to the chord track.
DoMutant(s, action) ==
  IF action.type = "solo" THEN ToggleSolo(s, action.channel)
  ELSE [s EXCEPT !.chords = ArrayAppend(@, action)]

Do(s, action) ==
  IF action.type = "solo" THEN ToggleSolo(s, action.channel)
  ELSE [s EXCEPT !.chords = ArrayAppend(@, action.chord)]

\* The chord stays.
UndoActionMutant(s, action) ==
  IF action.type = "solo" THEN ToggleSolo(s, action.channel) ELSE s

UndoAction(s, action) ==
  IF action.type = "solo" THEN ToggleSolo(s, action.channel)
  ELSE [s EXCEPT !.chords = ArrayDelete(@, action.chord)]

\* The redo stack is not cleared.
PerformMutant(s, action) ==
  LET t == Do(s, action) IN [t EXCEPT !.undo = Push(@, action)]

\* undo_manager_perform
Perform(s, action) ==
  LET t == Do(s, action)
  IN [t EXCEPT !.undo = Push(@, action), !.redo = <<>>]

\* on_solo_toggled, the handler of the button.
OnSoloToggled(s, c) ==
  IF s.flag[c] THEN [s EXCEPT !.flag[c] = FALSE]
  ELSE Perform(s, [type |-> "solo", channel |-> c])
-----------------------------------------------------------------------------
\* The user clicks the button: GTK flips it and emits "toggled".
ClickSolo(c) ==
  /\ Idle /\ Bounded(1) /\ UNCHANGED refreshing
  /\ Becomes(OnSoloToggled([State EXCEPT !.button[c] = ~@], c))

\* mixer_widget_refresh, after a channel was added or a track deleted.
RefreshMixer ==
  /\ Idle /\ Bounded(Len(Mixer))
  /\ refreshing' = Mixer
  /\ Becomes(State)

\* It sets the button of a channel to the channel's solo, and GTK emits "toggled"
\* for a button that changes.
RefreshChannel ==
  /\ ~Idle
  /\ refreshing' = Tail(refreshing)
  /\ LET c == Head(refreshing)
     IN Becomes(IF button[c] = solo[c] THEN State
                ELSE OnSoloToggled([State EXCEPT !.button[c] = solo[c]], c))

\* create_chords_action_new and its perform: the timeline arranger does this each
\* time with a chord just allocated.
CreateChord(chord) ==
  /\ Idle /\ Bounded(1) /\ UNCHANGED refreshing
  /\ \A action \in Elements(undoStack) \cup Elements(redoStack) :
       action.type = "chords" => action.chord # chord
  /\ chord \notin Elements(chords)
  /\ Becomes(Perform(State, [type |-> "chords", chord |-> chord]))

\* activate_undo and undo_manager_undo
Undo ==
  /\ Idle /\ UNCHANGED refreshing
  /\ undoStack # <<>>
  /\ LET t == UndoAction([State EXCEPT !.undo = Pop(@)], Top(undoStack))
     IN Becomes([t EXCEPT !.redo = PushEvicting(@, Top(undoStack))])

\* activate_redo and undo_manager_redo
Redo ==
  /\ Idle /\ UNCHANGED refreshing
  /\ redoStack # <<>>
  /\ LET t == Do([State EXCEPT !.redo = Pop(@)], Top(redoStack))
     IN Becomes([t EXCEPT !.undo = PushEvicting(@, Top(redoStack))])

Next ==
  \/ \E c \in Channels : ClickSolo(c)
  \/ \E chord \in Chords : CreateChord(chord)
  \/ RefreshMixer \/ RefreshChannel \/ Undo \/ Redo

Spec == Init /\ [][Next]_vars
-----------------------------------------------------------------------------
\* How often action occurs in a sequence of actions.
Count(actions, action) == Cardinality({n \in DOMAIN actions : actions[n] = action})

\* The chords that a sequence of actions creates, in order.
Created(actions) ==
  LET created[n \in 0..Len(actions)] ==
        IF n = 0 THEN <<>>
        ELSE IF actions[n].type = "chords" THEN Append(created[n - 1], actions[n].chord)
        ELSE created[n - 1]
  IN created[Len(actions)]

\* The document after a sequence of actions.
Replay(actions) ==
  [solo   |-> [c \in Channels |->
                 Count(actions, [type |-> "solo", channel |-> c]) % 2 = 1],
   chords |-> Created(actions)]

Document == [solo |-> solo, chords |-> chords]

Promise == INSTANCE History
  WITH done <- undoStack, undone <- redoStack, document <- Document
-----------------------------------------------------------------------------
TypeOK ==
  /\ undoStack \in Seq(Actions) /\ redoStack \in Seq(Actions)
  /\ solo \in [Channels -> BOOLEAN] /\ button \in [Channels -> BOOLEAN]
  /\ flag \in [Channels -> BOOLEAN]
  /\ chords \in Seq(Chords)
  /\ refreshing \in Seq(Channels)

\* An action is on one stack, so both stacks together fit in the length of one:
\* undo and redo never evict an action to make room (stack_pop_last).
StacksShareOneLength == Len(undoStack) + Len(redoStack) <= MaxStackLength

\* Undo and redo take back and repeat exactly what was done, in order, and the
\* document is at every moment what the actions on the undo stack produce
\* (undo_manager.h), as long as no push is refused.
KeepsHistory == Promise!Spec

\* The solo button shows the solo of its channel.
ButtonShowsSolo == Idle => button = solo
=============================================================================
