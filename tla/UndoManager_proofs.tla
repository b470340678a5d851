-------------------------- MODULE UndoManager_proofs --------------------------
(***************************************************************************)
(* The state of the undo manager stays in its types, and both stacks       *)
(* together fit in the length of one, for any number of channels and       *)
(* chords and any length of the stacks.                                    *)
(*                                                                         *)
(* The nested calls are treated one operator at a time on the record of    *)
(* the whole state: actions leave the stacks alone, and perform, undo and  *)
(* redo move at most one action between them.                              *)
(***************************************************************************)
EXTENDS ChannelWidget, Operators_proofs, FiniteSetTheorems, SequenceTheorems

StateSet ==
  [undo : Seq(Actions), redo : Seq(Actions), solo : [Channels -> BOOLEAN],
   chords : Seq(Chords), button : [Channels -> BOOLEAN], flag : [Channels -> BOOLEAN]]

SameStacks(s, t) == t.undo = s.undo /\ t.redo = s.redo

\* The record of the whole state is well typed exactly when the variables are.
LEMMA StateTyped ==
  TypeOK <=> State \in StateSet /\ refreshing \in Seq(Channels)
BY DEF TypeOK, State, StateSet

\* channel_widget_refresh inside an action keeps the types and the stacks.
LEMMA RefreshedTyped ==
  ASSUME NEW s \in StateSet, NEW c \in Channels
  PROVE  Refreshed(s, c) \in StateSet /\ SameStacks(s, Refreshed(s, c))
BY DEF Refreshed, StateSet, SameStacks

\* So does toggling solo.
LEMMA ToggleSoloTyped ==
  ASSUME NEW s \in StateSet, NEW c \in Channels
  PROVE  ToggleSolo(s, c) \in StateSet /\ SameStacks(s, ToggleSolo(s, c))
<1> DEFINE t == [s EXCEPT !.flag[c] = TRUE, !.solo[c] = ~@]
<1>1. t \in StateSet /\ SameStacks(s, t)
  BY DEF StateSet, SameStacks
<1> HIDE DEF t
<1>2. Refreshed(t, c) \in StateSet /\ SameStacks(t, Refreshed(t, c))
  BY <1>1, RefreshedTyped
<1>3. ToggleSolo(s, c) = Refreshed(t, c)
  BY DEF ToggleSolo, t
<1> QED
  BY <1>1, <1>2, <1>3 DEF SameStacks

\* undoable_action_do and undoable_action_undo leave the stacks alone.
LEMMA ActionTyped ==
  ASSUME NEW s \in StateSet, NEW action \in Actions
  PROVE  /\ Do(s, action) \in StateSet /\ SameStacks(s, Do(s, action))
         /\ UndoAction(s, action) \in StateSet /\ SameStacks(s, UndoAction(s, action))
<1>1. CASE action \in SoloActions
  <2>1. action.type = "solo" /\ action.channel \in Channels
    BY <1>1 DEF SoloActions
  <2> QED BY <2>1, ToggleSoloTyped DEF Do, UndoAction
<1>2. CASE action \in ChordActions
  <2>1. action.type # "solo" /\ action.chord \in Chords
    BY <1>2 DEF ChordActions
  <2>2. s.chords \in Seq(Chords)
    BY DEF StateSet
  <2>3. /\ ArrayAppend(s.chords, action.chord) \in Seq(Chords)
        /\ ArrayDelete(s.chords, action.chord) \in Seq(Chords)
    BY <2>1, <2>2, AppendAdds, DeleteShrinks
  <2>4. /\ [s EXCEPT !.chords = ArrayAppend(@, action.chord)] \in StateSet
        /\ SameStacks(s, [s EXCEPT !.chords = ArrayAppend(@, action.chord)])
    BY <2>3 DEF StateSet, SameStacks
  <2>5. /\ [s EXCEPT !.chords = ArrayDelete(@, action.chord)] \in StateSet
        /\ SameStacks(s, [s EXCEPT !.chords = ArrayDelete(@, action.chord)])
    BY <2>3 DEF StateSet, SameStacks
  <2> QED BY <2>1, <2>4, <2>5 DEF Do, UndoAction
<1> QED
  BY <1>1, <1>2 DEF Actions

\* What an action makes of a document.
Toggled(solos, c) == [solos EXCEPT ![c] = ~@]
EffectOn(s, action, t) ==
  /\ action.type = "solo" => t.solo = Toggled(s.solo, action.channel) /\ t.chords = s.chords
  /\ action.type # "solo" => t.solo = s.solo /\ t.chords = Append(s.chords, action.chord)

EffectUndone(s, action, t) ==
  /\ action.type = "solo" => t.solo = Toggled(s.solo, action.channel) /\ t.chords = s.chords
  /\ action.type # "solo" => /\ t.solo = s.solo
                             /\ t.chords = ArrayDelete(s.chords, action.chord)

\* An action is one of the two kinds.
LEMMA ActionKinds ==
  ASSUME NEW action \in Actions
  PROVE  \/ action.type = "solo" /\ action.channel \in Channels
         \/ action.type = "chords" /\ action.chord \in Chords /\ action.type # "solo"
BY DEF Actions, SoloActions, ChordActions

\* Toggling solo toggles it, whatever the refresh of the widget does to the button.
LEMMA ToggleSoloToggles ==
  ASSUME NEW s \in StateSet, NEW c \in Channels
  PROVE  /\ ToggleSolo(s, c).solo = Toggled(s.solo, c)
         /\ ToggleSolo(s, c).chords = s.chords
<1> DEFINE t == [s EXCEPT !.flag[c] = TRUE, !.solo[c] = ~@]
<1>1. t \in StateSet /\ t.solo = Toggled(s.solo, c) /\ t.chords = s.chords
  BY DEF StateSet, Toggled
<1> HIDE DEF t
<1>2. Refreshed(t, c).solo = t.solo /\ Refreshed(t, c).chords = t.chords
  BY <1>1 DEF Refreshed, StateSet
<1>3. ToggleSolo(s, c) = Refreshed(t, c)
  BY DEF ToggleSolo, t
<1> QED
  BY <1>1, <1>2, <1>3

\* undoable_action_do has the effect of its action, undoable_action_undo the reverse.
LEMMA ActionEffect ==
  ASSUME NEW s \in StateSet, NEW action \in Actions
  PROVE  EffectOn(s, action, Do(s, action)) /\ EffectUndone(s, action, UndoAction(s, action))
<1>1. CASE action.type = "solo" /\ action.channel \in Channels
  BY <1>1, ToggleSoloToggles DEF Do, UndoAction, EffectOn, EffectUndone
<1>2. CASE action.type = "chords" /\ action.chord \in Chords /\ action.type # "solo"
  <2> DEFINE t == [s EXCEPT !.chords = ArrayAppend(@, action.chord)]
             u == [s EXCEPT !.chords = ArrayDelete(@, action.chord)]
  <2>1. /\ t.solo = s.solo /\ t.chords = Append(s.chords, action.chord)
        /\ u.solo = s.solo /\ u.chords = ArrayDelete(s.chords, action.chord)
    BY DEF StateSet, ArrayAppend
  <2>2. Do(s, action) = t /\ UndoAction(s, action) = u
    BY <1>2 DEF Do, UndoAction
  <2> QED BY <1>2, <2>1, <2>2 DEF EffectOn, EffectUndone
<1> QED
  BY <1>1, <1>2, ActionKinds
-----------------------------------------------------------------------------
\* The bound of the stacks.
LEMMA MaxIsNat == MaxStackLength \in Nat /\ MaxStackLength # 0
BY UndoAssumption

\* stack_push adds one element, or none when the stack is full.
LEMMA PushTyped ==
  ASSUME NEW stack \in Seq(Actions), NEW action \in Actions
  PROVE  /\ Push(stack, action) \in Seq(Actions)
         /\ Len(Push(stack, action)) =
              IF Len(stack) = MaxStackLength THEN Len(stack) ELSE Len(stack) + 1
BY DEF Push, IsFull

\* stack_pop removes one element.
LEMMA PopTyped ==
  ASSUME NEW stack \in Seq(Actions), stack # <<>>
  PROVE  /\ Pop(stack) \in Seq(Actions) /\ Len(Pop(stack)) = Len(stack) - 1
         /\ Top(stack) \in Actions
         /\ Len(stack) \in Nat /\ Len(stack) # 0
<1>1. Len(stack) \in Nat /\ Len(stack) # 0 /\ DOMAIN stack = 1..Len(stack)
  OBVIOUS
<1>2. stack[Len(stack)] \in Actions
  BY <1>1
<1>3. 1 \in 1..(Len(stack) + 1) /\ Len(stack) - 1 \in 0..Len(stack) /\ Len(stack) - 1 \in Nat
  BY <1>1
<1>4. /\ SubSeq(stack, 1, Len(stack) - 1) \in Seq(Actions)
      /\ Len(SubSeq(stack, 1, Len(stack) - 1)) = Len(stack) - 1
  BY <1>1, <1>3
<1> QED
  BY <1>1, <1>2, <1>4 DEF Pop, Top

\* A push on a stack that is not full evicts nothing.
LEMMA NoEviction ==
  ASSUME NEW stack \in Seq(Actions), NEW action \in Actions, ~IsFull(stack)
  PROVE  PushEvicting(stack, action) = Append(stack, action)
BY DEF PushEvicting, Push

SumFits(s) ==
  /\ s \in StateSet
  /\ Len(s.undo) \in Nat /\ Len(s.redo) \in Nat
  /\ Len(s.undo) + Len(s.redo) <= MaxStackLength

\* undo_manager_perform empties the redo stack, and the push respects the length.
LEMMA PerformFits ==
  ASSUME NEW s, SumFits(s), NEW action \in Actions
  PROVE  SumFits(Perform(s, action))
<1> DEFINE t == Do(s, action)
           stack == Push(t.undo, action)
           r == [t EXCEPT !.undo = Push(@, action), !.redo = <<>>]
<1>1. t \in StateSet /\ SameStacks(s, t)
  BY ActionTyped DEF SumFits
<1> HIDE DEF t
<1>2. t.undo \in Seq(Actions) /\ Len(t.undo) \in Nat /\ Len(t.undo) <= MaxStackLength
  BY <1>1, UndoAssumption DEF StateSet, SameStacks, SumFits
<1>3. stack \in Seq(Actions) /\ Len(stack) \in Nat /\ Len(stack) <= MaxStackLength
  <2>1. /\ stack \in Seq(Actions)
        /\ Len(stack) = IF Len(t.undo) = MaxStackLength THEN Len(t.undo) ELSE Len(t.undo) + 1
    BY <1>2, PushTyped
  <2> QED BY <1>2, <2>1, MaxIsNat
<1> HIDE DEF stack
<1>4. r = [t EXCEPT !.undo = stack, !.redo = <<>>]
  BY DEF stack
<1>5. <<>> \in Seq(Actions) /\ Len(<<>>) = 0
  OBVIOUS
<1>6. r \in StateSet /\ r.undo = stack /\ r.redo = <<>>
  BY <1>1, <1>3, <1>4, <1>5 DEF StateSet
<1>7. SumFits(r)
  BY <1>3, <1>5, <1>6, UndoAssumption DEF SumFits
<1> QED
  BY <1>7 DEF Perform, t

\* The handler of the solo button performs at most one action.
LEMMA HandlerFits ==
  ASSUME NEW s, SumFits(s), NEW c \in Channels
  PROVE  SumFits(OnSoloToggled(s, c))
<1>1. CASE s.flag[c]
  <2> DEFINE t == [s EXCEPT !.flag[c] = FALSE]
  <2>1. t \in StateSet /\ t.undo = s.undo /\ t.redo = s.redo
    BY DEF SumFits, StateSet
  <2>2. SumFits(t)
    BY <2>1 DEF SumFits
  <2> QED BY <1>1, <2>2 DEF OnSoloToggled
<1>2. CASE ~s.flag[c]
  <2>1. [type |-> "solo", channel |-> c] \in Actions
    BY DEF Actions, SoloActions
  <2> QED BY <1>2, <2>1, PerformFits DEF OnSoloToggled
<1> QED
  BY <1>1, <1>2
-----------------------------------------------------------------------------
IInv == TypeOK /\ StacksShareOneLength

\* The invariant is a predicate of the record of the whole state.
LEMMA InvariantFits == IInv <=> SumFits(State) /\ refreshing \in Seq(Channels)
<1>1. State.undo = undoStack /\ State.redo = redoStack
  BY DEF State
<1>2. State \in StateSet => Len(undoStack) \in Nat /\ Len(redoStack) \in Nat
  BY <1>1 DEF StateSet
<1> QED
  BY <1>1, <1>2, StateTyped DEF IInv, SumFits, StacksShareOneLength

\* An event that leaves the program in a good state keeps the invariant.
LEMMA EventFits ==
  ASSUME NEW s, SumFits(s), Becomes(s), refreshing' \in Seq(Channels)
  PROVE  IInv'
<1>1. /\ undoStack' = s.undo /\ redoStack' = s.redo /\ solo' = s.solo
      /\ chords' = s.chords /\ button' = s.button /\ flag' = s.flag
  BY DEF Becomes
<1> QED
  BY <1>1 DEF IInv, TypeOK, StacksShareOneLength, SumFits, StateSet

\* Every solo button may be flipped by the user or by GTK.
LEMMA FlippedFits ==
  ASSUME SumFits(State), NEW c \in Channels, NEW b \in BOOLEAN
  PROVE  SumFits([State EXCEPT !.button[c] = b])
<1> DEFINE t == [State EXCEPT !.button[c] = b]
<1>1. t \in StateSet /\ t.undo = State.undo /\ t.redo = State.redo
  BY DEF SumFits, StateSet
<1> QED
  BY <1>1 DEF SumFits

\* Undo takes the last action back and moves it to the redo stack, evicting nothing.
LEMMA UndoMoves ==
  ASSUME IInv, Undo
  PROVE  \E r \in StateSet :
           /\ Becomes(r)
           /\ r.undo = Pop(undoStack) /\ r.redo = Append(redoStack, Top(undoStack))
           /\ EffectUndone(State, Top(undoStack), r)
<1> DEFINE action == Top(undoStack)
           popped == [State EXCEPT !.undo = Pop(@)]
           t == UndoAction(popped, action)
           stack == PushEvicting(t.redo, action)
           r == [t EXCEPT !.redo = PushEvicting(@, action)]
<1>1. SumFits(State) /\ undoStack # <<>>
  BY InvariantFits DEF Undo
<1>2. /\ State \in StateSet /\ State.undo = undoStack /\ State.redo = redoStack
      /\ undoStack \in Seq(Actions) /\ redoStack \in Seq(Actions)
  BY <1>1 DEF SumFits, State, StateSet
<1>3. /\ Pop(undoStack) \in Seq(Actions) /\ Len(Pop(undoStack)) = Len(undoStack) - 1
      /\ action \in Actions /\ Len(undoStack) \in Nat /\ Len(undoStack) # 0
  BY <1>1, <1>2, PopTyped
<1>4. Becomes(r)
  BY DEF Undo
<1> HIDE DEF action
<1>5. /\ popped \in StateSet /\ popped.undo = Pop(undoStack) /\ popped.redo = redoStack
      /\ popped.solo = State.solo /\ popped.chords = State.chords
  BY <1>2, <1>3 DEF StateSet
<1> HIDE DEF popped
<1>6. /\ t \in StateSet /\ t.undo = Pop(undoStack) /\ t.redo = redoStack
      /\ EffectUndone(popped, action, t)
  BY <1>3, <1>5, ActionTyped, ActionEffect DEF SameStacks
<1>7. Len(undoStack) + Len(redoStack) <= MaxStackLength /\ Len(redoStack) \in Nat
  BY <1>1, <1>2 DEF SumFits
<1>8. ~IsFull(redoStack)
  BY <1>3, <1>7, UndoAssumption DEF IsFull
<1>9. stack = Append(redoStack, action) /\ stack \in Seq(Actions)
  <2>1. PushEvicting(redoStack, action) = Append(redoStack, action)
    BY <1>2, <1>3, <1>8, NoEviction
  <2>2. Append(redoStack, action) \in Seq(Actions)
    BY <1>2, <1>3
  <2> QED BY <1>6, <2>1, <2>2
<1> HIDE DEF t
<1>10. r = [t EXCEPT !.redo = stack]
  OBVIOUS
<1> HIDE DEF stack
<1>11. /\ r \in StateSet /\ r.undo = Pop(undoStack) /\ r.redo = stack
       /\ r.solo = t.solo /\ r.chords = t.chords
  BY <1>6, <1>9, <1>10 DEF StateSet
<1> HIDE DEF r
<1>12. EffectUndone(State, action, r)
  BY <1>5, <1>6, <1>11 DEF EffectUndone
<1> QED
  BY <1>4, <1>9, <1>11, <1>12 DEF action

\* Redo does the last action again and moves it back, evicting nothing.
LEMMA RedoMoves ==
  ASSUME IInv, Redo
  PROVE  \E r \in StateSet :
           /\ Becomes(r)
           /\ r.redo = Pop(redoStack) /\ r.undo = Append(undoStack, Top(redoStack))
           /\ EffectOn(State, Top(redoStack), r)
<1> DEFINE action == Top(redoStack)
           popped == [State EXCEPT !.redo = Pop(@)]
           t == Do(popped, action)
           stack == PushEvicting(t.undo, action)
           r == [t EXCEPT !.undo = PushEvicting(@, action)]
<1>1. SumFits(State) /\ redoStack # <<>>
  BY InvariantFits DEF Redo
<1>2. /\ State \in StateSet /\ State.undo = undoStack /\ State.redo = redoStack
      /\ undoStack \in Seq(Actions) /\ redoStack \in Seq(Actions)
  BY <1>1 DEF SumFits, State, StateSet
<1>3. /\ Pop(redoStack) \in Seq(Actions) /\ Len(Pop(redoStack)) = Len(redoStack) - 1
      /\ action \in Actions /\ Len(redoStack) \in Nat /\ Len(redoStack) # 0
  BY <1>1, <1>2, PopTyped
<1>4. Becomes(r)
  BY DEF Redo
<1> HIDE DEF action
<1>5. /\ popped \in StateSet /\ popped.redo = Pop(redoStack) /\ popped.undo = undoStack
      /\ popped.solo = State.solo /\ popped.chords = State.chords
  BY <1>2, <1>3 DEF StateSet
<1> HIDE DEF popped
<1>6. /\ t \in StateSet /\ t.redo = Pop(redoStack) /\ t.undo = undoStack
      /\ EffectOn(popped, action, t)
  BY <1>3, <1>5, ActionTyped, ActionEffect DEF SameStacks
<1>7. Len(undoStack) + Len(redoStack) <= MaxStackLength /\ Len(undoStack) \in Nat
  BY <1>1, <1>2 DEF SumFits
<1>8. ~IsFull(undoStack)
  BY <1>3, <1>7, UndoAssumption DEF IsFull
<1>9. stack = Append(undoStack, action) /\ stack \in Seq(Actions)
  <2>1. PushEvicting(undoStack, action) = Append(undoStack, action)
    BY <1>2, <1>3, <1>8, NoEviction
  <2>2. Append(undoStack, action) \in Seq(Actions)
    BY <1>2, <1>3
  <2> QED BY <1>6, <2>1, <2>2
<1> HIDE DEF t
<1>10. r = [t EXCEPT !.undo = stack]
  OBVIOUS
<1> HIDE DEF stack
<1>11. /\ r \in StateSet /\ r.redo = Pop(redoStack) /\ r.undo = stack
       /\ r.solo = t.solo /\ r.chords = t.chords
  BY <1>6, <1>9, <1>10 DEF StateSet
<1> HIDE DEF r
<1>12. EffectOn(State, action, r)
  BY <1>5, <1>6, <1>11 DEF EffectOn
<1> QED
  BY <1>4, <1>9, <1>11, <1>12 DEF action

\* A stack shrinks by one action and the other grows by it.
LEMMA MovedFits ==
  ASSUME NEW from \in Seq(Actions), NEW to \in Seq(Actions), from # <<>>
  PROVE  /\ Len(Pop(from)) \in Nat /\ Len(Append(to, Top(from))) \in Nat
         /\ Len(Pop(from)) + Len(Append(to, Top(from))) = Len(from) + Len(to)
         /\ Len(Append(to, Top(from))) + Len(Pop(from)) = Len(to) + Len(from)
<1>1. /\ Len(Pop(from)) = Len(from) - 1 /\ Top(from) \in Actions
      /\ Len(from) \in Nat /\ Len(from) # 0
  BY PopTyped
<1>2. Len(Append(to, Top(from))) = Len(to) + 1 /\ Len(to) \in Nat
  BY <1>1
<1> QED
  BY <1>1, <1>2

\* So both stacks together keep their length.
LEMMA UndoFits ==
  ASSUME IInv, Undo
  PROVE  IInv'
<1>1. PICK r \in StateSet :
        Becomes(r) /\ r.undo = Pop(undoStack) /\ r.redo = Append(redoStack, Top(undoStack))
  BY UndoMoves
<1>2. undoStack \in Seq(Actions) /\ redoStack \in Seq(Actions) /\ undoStack # <<>>
  BY DEF IInv, TypeOK, Undo
<1>3. SumFits(r)
  BY <1>1, <1>2, MovedFits DEF SumFits, IInv, StacksShareOneLength
<1>4. refreshing' \in Seq(Channels)
  BY DEF Undo, IInv, TypeOK
<1> QED
  BY <1>1, <1>3, <1>4, EventFits

\* What is redone fits on the undo stack.
LEMMA RedoFits ==
  ASSUME IInv, Redo
  PROVE  IInv'
<1>1. PICK r \in StateSet :
        Becomes(r) /\ r.redo = Pop(redoStack) /\ r.undo = Append(undoStack, Top(redoStack))
  BY RedoMoves
<1>2. undoStack \in Seq(Actions) /\ redoStack \in Seq(Actions) /\ redoStack # <<>>
  BY DEF IInv, TypeOK, Redo
<1>3. SumFits(r)
  <2>1. Len(undoStack) + Len(redoStack) <= MaxStackLength
    BY DEF IInv, StacksShareOneLength
  <2>2. /\ Len(r.redo) \in Nat /\ Len(r.undo) \in Nat
        /\ Len(r.undo) + Len(r.redo) = Len(undoStack) + Len(redoStack)
    BY <1>1, <1>2, MovedFits
  <2> QED BY <2>1, <2>2 DEF SumFits
<1>4. refreshing' \in Seq(Channels)
  BY DEF Redo, IInv, TypeOK
<1> QED
  BY <1>1, <1>3, <1>4, EventFits

\* The empty stacks of undo_manager_new fit.
LEMMA InitInvariant == Init => IInv
BY UndoAssumption DEF Init, IInv, TypeOK, StacksShareOneLength

\* Every event of the main loop keeps the invariant.
LEMMA StepInvariant == IInv /\ [Next]_vars => IInv'
<1> SUFFICES ASSUME IInv, [Next]_vars PROVE IInv'
  OBVIOUS
<1>1. SumFits(State) /\ refreshing \in Seq(Channels)
  BY InvariantFits
<1>2. button \in [Channels -> BOOLEAN] /\ solo \in [Channels -> BOOLEAN]
  BY DEF IInv, TypeOK
<1>3. ASSUME NEW c \in Channels, ClickSolo(c) PROVE IInv'
  <2> DEFINE t == [State EXCEPT !.button[c] = ~@]
  <2>1. t = [State EXCEPT !.button[c] = ~button[c]]
    BY DEF State
  <2>2. SumFits(t)
    BY <1>1, <1>2, <2>1, FlippedFits
  <2> HIDE DEF t
  <2>3. SumFits(OnSoloToggled(t, c))
    BY <2>2, HandlerFits
  <2>4. Becomes(OnSoloToggled(t, c)) /\ refreshing' = refreshing
    BY <1>3 DEF ClickSolo, t
  <2> QED BY <1>1, <2>3, <2>4, EventFits
<1>4. ASSUME NEW chord \in Chords, CreateChord(chord) PROVE IInv'
  <2>1. [type |-> "chords", chord |-> chord] \in Actions
    BY DEF Actions, ChordActions
  <2>2. SumFits(Perform(State, [type |-> "chords", chord |-> chord]))
    BY <1>1, <2>1, PerformFits
  <2> QED BY <1>1, <1>4, <2>2, EventFits DEF CreateChord
<1>5. ASSUME RefreshMixer PROVE IInv'
  <2>1. Mixer \in Seq(Channels)
    BY UndoAssumption DEF Channels
  <2> QED BY <1>1, <1>5, <2>1, EventFits DEF RefreshMixer
<1>6. ASSUME RefreshChannel PROVE IInv'
  <2> DEFINE c == Head(refreshing)
             t == [State EXCEPT !.button[c] = solo[c]]
  <2>1. refreshing # <<>>
    BY <1>6 DEF RefreshChannel, Idle
  <2>2. c \in Channels /\ Tail(refreshing) \in Seq(Channels)
    BY <1>1, <2>1
  <2> HIDE DEF c
  <2>3. SumFits(t)
    BY <1>1, <1>2, <2>2, FlippedFits
  <2> HIDE DEF t
  <2>4. SumFits(OnSoloToggled(t, c))
    BY <2>2, <2>3, HandlerFits
  <2>5. Becomes(IF button[c] = solo[c] THEN State ELSE OnSoloToggled(t, c))
    BY <1>6 DEF RefreshChannel, c, t
  <2>6. refreshing' \in Seq(Channels)
    BY <1>6, <2>2 DEF RefreshChannel
  <2>7. SumFits(IF button[c] = solo[c] THEN State ELSE OnSoloToggled(t, c))
    BY <1>1, <2>4
  <2> QED BY <2>5, <2>6, <2>7, EventFits
<1>7. ASSUME Undo PROVE IInv'
  BY <1>7, UndoFits
<1>8. ASSUME Redo PROVE IInv'
  BY <1>8, RedoFits
<1>9. CASE UNCHANGED vars
  BY <1>9 DEF vars, IInv, TypeOK, StacksShareOneLength
<1> QED
  BY <1>3, <1>4, <1>5, <1>6, <1>7, <1>8, <1>9 DEF Next

\* The stacks, the channels, the chords and the buttons stay in their types.
THEOREM UndoTypeCorrect == Spec => []TypeOK
<1>1. IInv => TypeOK
  BY DEF IInv
<1> QED BY <1>1, InitInvariant, StepInvariant, PTL DEF Spec

\* Both stacks together never hold more than the length of one, so undo and redo
\* never evict an action, whatever the user does and in whatever order.
THEOREM StacksCorrect == Spec => []StacksShareOneLength
<1>1. IInv => StacksShareOneLength
  BY DEF IInv
<1> QED BY <1>1, InitInvariant, StepInvariant, PTL DEF Spec
-----------------------------------------------------------------------------
(***************************************************************************)
(* The widget of a channel.  What drag_update keeps of the drags before is *)
(* nothing: the widget under the pointer knows where the pointer was, and  *)
(* every other widget is back where a drag starts.                         *)
(***************************************************************************)
Values == 0..RangeLength
Strips == [fader : Values, pan : Values, phase : Values]
Gestures == [channel : Channels, widget : Widgets, x : Int, y : Int]
Motions == Int \X Int

\* Where the pointer was when the widget was last updated.
Where(c, w) ==
  IF drag # <<>> /\ drag.channel = c /\ drag.widget = w THEN <<drag.x, drag.y>>
  ELSE NoMotion

WidgetInv ==
  /\ strip \in [Channels -> Strips]
  /\ drag # <<>> => drag \in Gestures
  /\ last \in [Channels -> [Widgets -> Motions]]
  /\ \A c \in Channels, w \in Widgets : last[c][w] = Where(c, w)

\* The range of a fader, and zero in it.
LEMMA RangeIsNat == RangeLength \in Nat /\ RangeLength # 0 /\ 0 \in Values /\ RangeLength \in Values
BY WidgetAssumption DEF Values

\* A gesture is not the empty one.
LEMMA GestureIsSomething == \A g \in Gestures : g # <<>>
<1> SUFFICES ASSUME NEW g \in Gestures PROVE g # <<>>
  OBVIOUS
<1>1. "x" \in DOMAIN g
  BY DEF Gestures
<1>2. "x" \notin DOMAIN <<>>
  OBVIOUS
<1> QED
  BY <1>1, <1>2

\* Clamped to its range, a value moves in the direction of the motion, not further.
LEMMA ClampFollows ==
  ASSUME NEW v \in Values, NEW m \in Int
  PROVE  /\ ClampTo(v + m, RangeLength, 0) \in Values
         /\ Follows(ClampTo(v + m, RangeLength, 0) - v, m)
<1> DEFINE to == ClampTo(v + m, RangeLength, 0)
<1>1. v \in Nat /\ v <= RangeLength /\ RangeLength \in Nat
  BY RangeIsNat DEF Values
<1>2. /\ to \in Int /\ 0 <= to /\ to <= RangeLength
      /\ m >= 0 => to - v >= 0 /\ to - v <= m
      /\ m < 0 => to - v <= 0 /\ to - v >= m
  BY <1>1 DEF ClampTo
<1> HIDE DEF to
<1> DEFINE d == to - v
<1>3. /\ d \in Int /\ m \in Int
      /\ m >= 0 => d >= 0 /\ d <= m
      /\ m < 0 => d <= 0 /\ d >= m
  BY <1>1, <1>2
<1> HIDE DEF d
<1>4. Size(d) <= Size(m)
  BY <1>3 DEF Size
<1>5. d * m >= 0
  <2>1. CASE m >= 0
    BY <1>3, <2>1
  <2>2. CASE m < 0
    <3>1. (-d) \in Nat /\ (-m) \in Nat /\ d * m = (-d) * (-m)
      BY <1>3, <2>2
    <3> QED BY <3>1
  <2> QED BY <1>3, <2>1, <2>2
<1> QED
  BY <1>1, <1>2, <1>4, <1>5 DEF Follows, d, to, Values

\* Nothing has been dragged when the widget is created.
LEMMA WidgetInitial == WidgetInit => WidgetInv
<1> SUFFICES ASSUME WidgetInit PROVE WidgetInv
  OBVIOUS
<1>1. RangeLength - 1 \in Values /\ RangeLength \div 2 \in Values /\ 0 \in Values
  BY RangeIsNat DEF Values
<1>2. strip \in [Channels -> Strips]
  BY <1>1 DEF WidgetInit, Strips
<1>3. drag = <<>> /\ last = [c \in Channels |-> [w \in Widgets |-> NoMotion]]
  BY DEF WidgetInit
<1>4. NoMotion \in Motions
  BY DEF NoMotion, Motions
<1> QED
  BY <1>2, <1>3, <1>4 DEF WidgetInv, Where

\* A widget takes the pointer: its last motion is none, as is the pointer's.
LEMMA DragBeginKeeps ==
  ASSUME WidgetInv, NEW c \in Channels, NEW w \in Widgets, DragBegin(c, w)
  PROVE  WidgetInv' /\ strip' = strip
<1>1. /\ drag = <<>> /\ strip' = strip /\ last' = last
      /\ drag' = [channel |-> c, widget |-> w, x |-> 0, y |-> 0]
  BY DEF DragBegin, stripVars
<1>2. drag' \in Gestures
  BY <1>1 DEF Gestures
<1>3. \A c1 \in Channels, w1 \in Widgets : last[c1][w1] = NoMotion
  BY <1>1 DEF WidgetInv, Where
<1>4. \A c1, w1 : Where(c1, w1)' = NoMotion
  BY <1>1 DEF Where, NoMotion
<1> QED
  BY <1>1, <1>2, <1>3, <1>4 DEF WidgetInv

\* The button is released: the widget forgets the last motion.
LEMMA DragEndKeeps ==
  ASSUME WidgetInv, DragEnd
  PROVE  WidgetInv' /\ strip' = strip
<1>1. /\ drag # <<>> /\ strip' = strip /\ drag' = <<>>
      /\ last' = [last EXCEPT ![drag.channel][drag.widget] = NoMotion]
  BY DEF DragEnd, stripVars
<1>2. drag.channel \in Channels /\ drag.widget \in Widgets
  BY <1>1 DEF WidgetInv, Gestures
<1>3. NoMotion \in Motions /\ last \in [Channels -> [Widgets -> Motions]]
  BY DEF NoMotion, Motions, WidgetInv
<1>4. last' \in [Channels -> [Widgets -> Motions]]
  BY <1>1, <1>2, <1>3
<1>5. \A c \in Channels, w \in Widgets : last'[c][w] = NoMotion
  <2> SUFFICES ASSUME NEW c \in Channels, NEW w \in Widgets PROVE last'[c][w] = NoMotion
    OBVIOUS
  <2>1. CASE drag.channel = c /\ drag.widget = w
    BY <2>1, <1>1, <1>3
  <2>2. CASE ~(drag.channel = c /\ drag.widget = w)
    <3>1. last'[c][w] = last[c][w]
      BY <2>2, <1>1, <1>2, <1>3
    <3>2. last[c][w] = NoMotion
      BY <2>2 DEF WidgetInv, Where
    <3> QED BY <3>1, <3>2
  <2> QED BY <2>1, <2>2
<1>6. \A c, w : Where(c, w)' = NoMotion
  BY <1>1 DEF Where
<1> QED
  BY <1>1, <1>4, <1>5, <1>6 DEF WidgetInv

\* What drag_update writes: the dragged value, clamped after one of the two motions.
LEMMA DragUpdateMoves ==
  ASSUME WidgetInv, NEW x \in Int, NEW y \in Int, DragUpdate(x, y)
  PROVE  /\ strip' \in [Channels -> Strips]
         /\ \E m \in {y - drag.y} \cup {x - drag.x} :
              /\ m = y - drag.y \/ drag.widget # "fader"
              /\ strip'[drag.channel][drag.widget] =
                   ClampTo(strip[drag.channel][drag.widget] + m, RangeLength, 0)
         /\ \A c \in Channels, w \in Widgets :
              <<c, w>> # <<drag.channel, drag.widget>> => strip'[c][w] = strip[c][w]
<1> DEFINE c == drag.channel
           motions == {y - drag.y} \cup {x - drag.x}
<1>1. drag # <<>> /\ drag \in Gestures
  BY DEF DragUpdate, WidgetInv
<1>2. c \in Channels /\ drag.widget \in Widgets /\ drag.x \in Int /\ drag.y \in Int
  BY <1>1 DEF Gestures
<1>3. last[c][drag.widget] = <<drag.x, drag.y>>
  BY <1>1, <1>2 DEF WidgetInv, Where
<1>4. /\ strip \in [Channels -> Strips] /\ strip[c] \in Strips
      /\ strip[c].fader \in Values /\ strip[c].pan \in Values /\ strip[c].phase \in Values
  BY <1>2 DEF WidgetInv, Strips
<1>5. \A v \in Values, m \in motions : ClampTo(v + m, RangeLength, 0) \in Values
  BY <1>2, ClampFollows
<1>6. \/ drag.widget = "fader" /\ FaderDrag(c, x, y)
      \/ drag.widget = "pan" /\ PanDrag(c, x, y)
      \/ drag.widget = "phase" /\ KnobDrag(c, x, y)
  BY DEF DragUpdate
<1>7. \A w : w = drag.widget => Moved(c, w, x, y) \in motions
  BY <1>3 DEF Moved
<1> HIDE DEF c
<1>8. CASE drag.widget = "fader" /\ FaderDrag(c, x, y)
  <2> DEFINE m == y - last[c].fader[2]
             v == ClampTo(strip[c].fader + m, RangeLength, 0)
  <2>1. m = y - drag.y
    BY <1>3, <1>8
  <2> HIDE DEF m
  <2>2. v \in Values
    BY <2>1, <1>4, <1>5
  <2>3. strip' = [strip EXCEPT ![c].fader = v]
    BY <1>8 DEF FaderDrag, SetFaderAmp, m
  <2> HIDE DEF v
  <2>4. /\ strip' \in [Channels -> Strips] /\ strip'[c].fader = v
        /\ \A d \in Channels : d # c => strip'[d] = strip[d]
        /\ strip'[c].pan = strip[c].pan /\ strip'[c].phase = strip[c].phase
    BY <2>2, <2>3, <1>2, <1>4 DEF Strips, c
  <2> QED BY <1>8, <2>1, <2>4 DEF v, c, Widgets
<1>9. CASE drag.widget = "pan" /\ PanDrag(c, x, y)
  <2> DEFINE m == Moved(c, "pan", x, y)
             v == ClampTo(strip[c].pan + m, RangeLength, 0)
  <2>1. m \in motions
    BY <1>7, <1>9
  <2> HIDE DEF m
  <2>2. v \in Values
    BY <2>1, <1>4, <1>5
  <2>3. strip' = [strip EXCEPT ![c].pan = v]
    BY <1>9 DEF PanDrag, SetPan, m
  <2> HIDE DEF v
  <2>4. /\ strip' \in [Channels -> Strips] /\ strip'[c].pan = v
        /\ \A d \in Channels : d # c => strip'[d] = strip[d]
        /\ strip'[c].fader = strip[c].fader /\ strip'[c].phase = strip[c].phase
    BY <2>2, <2>3, <1>2, <1>4 DEF Strips, c
  <2>5. drag.widget # "fader"
    BY <1>9
  <2> QED BY <1>9, <2>1, <2>4, <2>5 DEF v, c, Widgets
<1>10. CASE drag.widget = "phase" /\ KnobDrag(c, x, y)
  <2> DEFINE m == Moved(c, "phase", x, y)
             v == ClampTo(strip[c].phase + m, RangeLength, 0)
  <2>1. m \in motions
    BY <1>7, <1>10
  <2> HIDE DEF m
  <2>2. v \in Values
    BY <2>1, <1>4, <1>5
  <2>3. strip' = [strip EXCEPT ![c].phase = v]
    BY <1>10 DEF KnobDrag, SetPhase, m
  <2> HIDE DEF v
  <2>4. /\ strip' \in [Channels -> Strips] /\ strip'[c].phase = v
        /\ \A d \in Channels : d # c => strip'[d] = strip[d]
        /\ strip'[c].fader = strip[c].fader /\ strip'[c].pan = strip[c].pan
    BY <2>2, <2>3, <1>2, <1>4 DEF Strips, c
  <2>5. drag.widget # "fader"
    BY <1>10
  <2> QED BY <1>10, <2>1, <2>4, <2>5 DEF v, c, Widgets
<1> QED
  BY <1>6, <1>8, <1>9, <1>10 DEF c

\* The pointer moves on, and the widget remembers where.
LEMMA DragUpdateKeeps ==
  ASSUME WidgetInv, NEW x \in Int, NEW y \in Int, DragUpdate(x, y)
  PROVE  WidgetInv'
<1>1. /\ drag # <<>> /\ drag \in Gestures
      /\ drag' = [drag EXCEPT !.x = x, !.y = y]
      /\ last' = [last EXCEPT ![drag.channel][drag.widget] = <<x, y>>]
  BY DEF DragUpdate, WidgetInv
<1>2. drag.channel \in Channels /\ drag.widget \in Widgets
  BY <1>1 DEF Gestures
<1>3. /\ drag' \in Gestures /\ drag'.x = x /\ drag'.y = y
      /\ drag'.channel = drag.channel /\ drag'.widget = drag.widget
  BY <1>1 DEF Gestures
<1>4. drag' # <<>>
  BY <1>3, GestureIsSomething
<1>5. last \in [Channels -> [Widgets -> Motions]] /\ <<x, y>> \in Motions
  BY DEF WidgetInv, Motions
<1>6. last' \in [Channels -> [Widgets -> Motions]]
  BY <1>1, <1>2, <1>5
<1>7. \A c \in Channels, w \in Widgets : last'[c][w] = Where(c, w)'
  <2> SUFFICES ASSUME NEW c \in Channels, NEW w \in Widgets PROVE last'[c][w] = Where(c, w)'
    OBVIOUS
  <2>1. CASE drag.channel = c /\ drag.widget = w
    <3>1. last'[c][w] = <<x, y>>
      BY <2>1, <1>1, <1>5
    <3> QED BY <3>1, <2>1, <1>3, <1>4 DEF Where
  <2>2. CASE ~(drag.channel = c /\ drag.widget = w)
    <3>1. last'[c][w] = last[c][w]
      BY <2>2, <1>1, <1>2, <1>5
    <3>2. last[c][w] = NoMotion
      BY <2>2 DEF WidgetInv, Where
    <3>3. Where(c, w)' = NoMotion
      BY <2>2, <1>3 DEF Where
    <3> QED BY <3>1, <3>2, <3>3
  <2> QED BY <2>1, <2>2
<1> QED
  BY <1>3, <1>6, <1>7, DragUpdateMoves DEF WidgetInv

\* What a step may change of a value.
Dragging ==
  \A c \in Channels, w \in Widgets :
    strip'[c][w] # strip[c][w] =>
      /\ drag # <<>> /\ drag' # <<>> /\ <<drag.channel, drag.widget>> = <<c, w>>
      /\ strip'[c][w] \in 0..RangeLength
      /\ LET change == strip'[c][w] - strip[c][w]
         IN \/ Follows(change, drag'.y - drag.y)
            \/ w # "fader" /\ Follows(change, drag'.x - drag.x)

\* A move of the pointer keeps the drag behind it.
LEMMA DragUpdateFollows ==
  ASSUME WidgetInv, NEW x \in Int, NEW y \in Int, DragUpdate(x, y)
  PROVE  Dragging
<1> SUFFICES ASSUME NEW c \in Channels, NEW w \in Widgets, strip'[c][w] # strip[c][w]
             PROVE  /\ drag # <<>> /\ drag' # <<>> /\ <<drag.channel, drag.widget>> = <<c, w>>
                    /\ strip'[c][w] \in 0..RangeLength
                    /\ \/ Follows(strip'[c][w] - strip[c][w], drag'.y - drag.y)
                       \/ /\ w # "fader"
                          /\ Follows(strip'[c][w] - strip[c][w], drag'.x - drag.x)
  BY DEF Dragging
<1>1. drag # <<>> /\ drag \in Gestures /\ drag' = [drag EXCEPT !.x = x, !.y = y]
  BY DEF DragUpdate, WidgetInv
<1>2. /\ drag' \in Gestures /\ drag'.x = x /\ drag'.y = y
      /\ drag.x \in Int /\ drag.y \in Int
  BY <1>1 DEF Gestures
<1>3. drag' # <<>>
  BY <1>2, GestureIsSomething
<1>4. <<drag.channel, drag.widget>> = <<c, w>>
  BY DragUpdateMoves
<1>5. PICK m \in {y - drag.y} \cup {x - drag.x} :
        /\ m = y - drag.y \/ w # "fader"
        /\ strip'[c][w] = ClampTo(strip[c][w] + m, RangeLength, 0)
  BY <1>4, DragUpdateMoves
<1>6. strip[c][w] \in Values
  BY DEF WidgetInv, Strips, Widgets
<1>7. m \in Int
  BY <1>2
<1>8. strip'[c][w] \in Values /\ Follows(strip'[c][w] - strip[c][w], m)
  BY <1>5, <1>6, <1>7, ClampFollows
<1>9. \/ m = drag'.y - drag.y
      \/ w # "fader" /\ m = drag'.x - drag.x
  BY <1>2, <1>5
<1> QED
  BY <1>1, <1>3, <1>4, <1>8, <1>9 DEF Values

\* Every step of the widget keeps what it remembers, and moves no value but the dragged.
LEMMA WidgetStep == WidgetInv /\ [WidgetNext]_widgetVars => WidgetInv' /\ Dragging
<1> SUFFICES ASSUME WidgetInv, [WidgetNext]_widgetVars PROVE WidgetInv' /\ Dragging
  OBVIOUS
<1>1. CASE Edit
  <2>1. strip' = strip /\ last' = last /\ drag' = drag
    BY <1>1 DEF Edit, stripVars
  <2> QED BY <2>1 DEF WidgetInv, Where, Dragging
<1>2. ASSUME NEW c \in Channels, NEW w \in Widgets, DragBegin(c, w)
      PROVE  WidgetInv' /\ Dragging
  BY <1>2, DragBeginKeeps DEF Dragging
<1>3. ASSUME NEW offset \in Offsets, DragUpdate(offset[1], offset[2])
      PROVE  WidgetInv' /\ Dragging
  <2>1. offset[1] \in Int /\ offset[2] \in Int
    BY WidgetAssumption
  <2> QED BY <1>3, <2>1, DragUpdateKeeps, DragUpdateFollows
<1>4. CASE DragEnd
  BY <1>4, DragEndKeeps DEF Dragging
<1>5. CASE UNCHANGED widgetVars
  <2>1. strip' = strip /\ last' = last /\ drag' = drag
    BY <1>5 DEF widgetVars, stripVars
  <2> QED BY <2>1 DEF WidgetInv, Where, Dragging
<1> QED
  BY <1>1, <1>2, <1>3, <1>4, <1>5 DEF WidgetNext

\* A fader, a pan or a phase moves only under the pointer that drags it, in the
\* direction of the pointer, no further than it moved since the last event, and stays
\* in its range, for any length of the range and any motion of the pointer.
THEOREM DragFollowsPointerCorrect == WidgetSpec => DragFollowsPointer
<1>1. WidgetInv /\ [WidgetNext]_widgetVars => [Dragging]_widgetVars
  BY WidgetStep
<1>2. WidgetInv /\ [WidgetNext]_widgetVars => WidgetInv'
  BY WidgetStep
<1> QED
  BY <1>1, <1>2, WidgetInitial, PTL DEF WidgetSpec, DragFollowsPointer, Dragging

\* The undo manager below the widget takes only its own steps, so that what is proved
\* of it holds of the widget as well.
THEOREM WidgetRefines == WidgetSpec => Spec
<1>1. WidgetInit => Init
  BY DEF WidgetInit
<1>2. [WidgetNext]_widgetVars => [Next]_vars
  BY DEF WidgetNext, Edit, DragBegin, DragUpdate, DragEnd, widgetVars, Next
<1> QED
  BY <1>1, <1>2, PTL DEF WidgetSpec, Spec
-----------------------------------------------------------------------------
(***************************************************************************)
(* The promise of undo_manager.h.  Replaying one action more toggles one   *)
(* solo or adds one chord, which is what do does, and what undo reverts:   *)
(* no chord is created twice, so the one it deletes is the last.           *)
(***************************************************************************)
\* f counts through the actions and collects the chords they create.
Creation(actions, f) ==
  /\ f \in [0..Len(actions) -> Seq(Chords)]
  /\ f[0] = <<>>
  /\ \A n \in 1..Len(actions) :
       f[n] = IF actions[n].type = "chords" THEN Append(f[n - 1], actions[n].chord) ELSE f[n - 1]

\* There is such a function, and its last value is what Created stands for.
LEMMA CreatedBy ==
  ASSUME NEW actions \in Seq(Actions)
  PROVE  \E f : Creation(actions, f) /\ Created(actions) = f[Len(actions)]
<1> DEFINE N == Len(actions)
           S == Seq(Chords)
           After(n, before) == IF actions[n].type = "chords" THEN Append(before, actions[n].chord)
                               ELSE before
           G == [p \in (1..N) \X S |-> After(p[1], p[2])]
           none == <<>>
           Rec(f) == f = [n \in 0..N |-> IF n = 0 THEN none ELSE After(n, f[n - 1])]
<1>1. N \in Nat /\ none \in S /\ \A n \in 1..N : actions[n] \in Actions
  OBVIOUS
<1>2. \A n \in 1..N : actions[n].type = "chords" => actions[n].chord \in Chords
  BY <1>1 DEF Actions, SoloActions, ChordActions
<1>3. \A n \in 1..N, before \in S : After(n, before) \in S
  BY <1>2
<1> HIDE DEF After, Rec
<1>4. G \in [(1..N) \X S -> S]
  BY <1>3
<1>5. \A n \in 1..N, before \in S : G[<<n, before>>] = After(n, before)
  OBVIOUS
<1> HIDE DEF G, N, S, none
<1>6. PICK f \in [0..N -> S] : GoesOn(f, N, none, G)
  BY <1>1, <1>4, RecursionExists
<1>7. \A n \in 1..N : n \in 0..N /\ n # 0 /\ n - 1 \in 0..N
  BY <1>1
<1>8. \A n \in 1..N : f[n] = After(n, f[n - 1])
  BY <1>5, <1>6, <1>7 DEF GoesOn
<1>9. \A n \in 0..N : f[n] = IF n = 0 THEN none ELSE After(n, f[n - 1])
  BY <1>1, <1>6, <1>8 DEF GoesOn
<1>10. Rec(f)
  <2>1. f = [n \in 0..N |-> f[n]]
    OBVIOUS
  <2> QED BY <2>1, <1>9 DEF Rec
<1> DEFINE created == CHOOSE g : Rec(g)
<1>11. Rec(created)
  BY <1>10
<1>12. Created(actions) = created[N]
  BY DEF Created, created, N, After, none, Rec
<1> HIDE DEF created
<1>13. \A n \in 0..N : created[n] = IF n = 0 THEN none ELSE After(n, created[n - 1])
  BY <1>11 DEF Rec
<1>14. Alike(created, f, N)
  BY <1>1, <1>6, <1>7, <1>8, <1>13 DEF Alike, GoesOn
<1>15. created[N] = f[N]
  BY <1>1, <1>14, RecursionUnique
<1> QED
  BY <1>6, <1>8, <1>12, <1>15 DEF Creation, After, N, S, none, GoesOn

\* No action creates no chord.
LEMMA CreatedNothing == Created(<<>>) = <<>>
<1>1. <<>> \in Seq(Actions) /\ Len(<<>>) = 0
  OBVIOUS
<1>2. PICK f : Creation(<<>>, f) /\ Created(<<>>) = f[Len(<<>>)]
  BY <1>1, CreatedBy
<1> QED
  BY <1>1, <1>2 DEF Creation

\* One action more creates at most one chord more.
LEMMA CreatedAppend ==
  ASSUME NEW actions \in Seq(Actions), NEW action \in Actions
  PROVE  /\ Created(actions) \in Seq(Chords)
         /\ Created(Append(actions, action)) =
              IF action.type = "chords" THEN Append(Created(actions), action.chord)
              ELSE Created(actions)
<1> DEFINE longer == Append(actions, action)
<1>1. /\ longer \in Seq(Actions) /\ Len(longer) = Len(actions) + 1 /\ Len(actions) \in Nat
      /\ longer[Len(actions) + 1] = action
      /\ \A n \in 1..Len(actions) : longer[n] = actions[n]
  OBVIOUS
<1> HIDE DEF longer
<1>2. PICK f : Creation(actions, f) /\ Created(actions) = f[Len(actions)]
  BY CreatedBy
<1>3. PICK g : Creation(longer, g) /\ Created(longer) = g[Len(longer)]
  BY <1>1, CreatedBy
<1>4. PICK N \in Nat : N = Len(actions)
  BY <1>1
<1>5. \A n \in 1..N : g[n] = IF longer[n].type = "chords" THEN Append(g[n - 1], longer[n].chord)
                             ELSE g[n - 1]
  BY <1>1, <1>3, <1>4 DEF Creation
<1>6. \A n \in 1..N : f[n] = IF actions[n].type = "chords" THEN Append(f[n - 1], actions[n].chord)
                             ELSE f[n - 1]
  BY <1>2, <1>4 DEF Creation
<1>7. f[0] = <<>> /\ g[0] = <<>> /\ f \in [0..N -> Seq(Chords)]
  BY <1>2, <1>3, <1>4 DEF Creation
<1>8. Alike(f, g, N)
  BY <1>1, <1>4, <1>5, <1>6, <1>7 DEF Alike
<1>9. f[N] = g[N] /\ f[N] \in Seq(Chords)
  BY <1>7, <1>8, RecursionUnique
<1>10. g[N + 1] = IF action.type = "chords" THEN Append(g[N], action.chord) ELSE g[N]
  <2>1. N + 1 \in 1..Len(longer) /\ (N + 1) - 1 = N /\ longer[N + 1] = action
    BY <1>1, <1>4
  <2> QED BY <1>3, <2>1 DEF Creation
<1> QED
  BY <1>1, <1>2, <1>3, <1>4, <1>9, <1>10 DEF longer

\* One action more is counted, if it is the one.
LEMMA CountAppend ==
  ASSUME NEW actions \in Seq(Actions), NEW action \in Actions, NEW counted
  PROVE  /\ Count(actions, counted) \in Nat
         /\ Count(Append(actions, action), counted) =
              IF action = counted THEN Count(actions, counted) + 1 ELSE Count(actions, counted)
<1> DEFINE longer == Append(actions, action)
           Places(s) == {n \in DOMAIN s : s[n] = counted}
           next == Len(actions) + 1
<1>1. /\ DOMAIN longer = 1..next /\ DOMAIN actions = 1..Len(actions) /\ Len(actions) \in Nat
      /\ longer[next] = action
      /\ \A n \in 1..Len(actions) : longer[n] = actions[n]
  OBVIOUS
<1>2. IsFiniteSet(Places(actions)) /\ next \notin Places(actions)
  <2>1. IsFiniteSet(1..Len(actions))
    BY <1>1, FS_Interval
  <2>2. Places(actions) \subseteq 1..Len(actions)
    BY <1>1
  <2> QED BY <2>1, <2>2, <1>1, FS_Subset
<1>3. Places(longer) = IF action = counted THEN Places(actions) \cup {next} ELSE Places(actions)
  <2> HIDE DEF longer
  <2>1. \A n \in 1..next : n \in 1..Len(actions) \/ n = next
    BY <1>1
  <2> QED BY <1>1, <2>1
<1> HIDE DEF Places, longer, next
<1>4. Cardinality(Places(actions)) \in Nat
  BY <1>2, FS_CardinalityType
<1>5. Cardinality(Places(actions) \cup {next}) = Cardinality(Places(actions)) + 1
  BY <1>2, FS_AddElement
<1> QED
  BY <1>3, <1>4, <1>5 DEF Count, Places, longer

\* Replaying one action more has its effect.
LEMMA ReplayAppend ==
  ASSUME NEW actions \in Seq(Actions), NEW action \in Actions
  PROVE  EffectOn(Replay(actions), action, Replay(Append(actions, action)))
<1> DEFINE longer == Append(actions, action)
           That(c) == [type |-> "solo", channel |-> c]
           Solos(s) == [c \in Channels |-> Count(s, That(c)) % 2 = 1]
<1>1. ASSUME NEW c \in Channels
      PROVE  Solos(longer)[c] = IF action = That(c) THEN ~Solos(actions)[c] ELSE Solos(actions)[c]
  <2>1. PICK n \in Nat : n = Count(actions, That(c))
    BY CountAppend
  <2>2. Count(longer, That(c)) = IF action = That(c) THEN n + 1 ELSE n
    BY <2>1, CountAppend
  <2>3. ((n + 1) % 2 = 1) <=> ~(n % 2 = 1)
    BY <2>1
  <2> HIDE DEF That, longer
  <2>4. Solos(longer)[c] = (Count(longer, That(c)) % 2 = 1) /\ Solos(actions)[c] = (n % 2 = 1)
    BY <2>1
  <2>5. CASE action = That(c)
    <3>1. Solos(longer)[c] = ((n + 1) % 2 = 1)
      BY <2>2, <2>4, <2>5
    <3> HIDE DEF Solos
    <3> QED BY <3>1, <2>3, <2>4, <2>5
  <2>6. CASE action # That(c)
    <3>1. Solos(longer)[c] = (n % 2 = 1)
      BY <2>2, <2>4, <2>6
    <3> HIDE DEF Solos
    <3> QED BY <3>1, <2>4, <2>6
  <2> QED BY <2>5, <2>6
<1>2. Created(longer) = IF action.type = "chords" THEN Append(Created(actions), action.chord)
                        ELSE Created(actions)
  BY CreatedAppend
<1>3. /\ Replay(actions).solo = Solos(actions) /\ Replay(actions).chords = Created(actions)
      /\ Replay(longer).solo = Solos(longer) /\ Replay(longer).chords = Created(longer)
  BY DEF Replay
<1> HIDE DEF longer
<1>4. CASE action.type = "solo" /\ action.channel \in Channels
  <2>1. \A c \in Channels : action = That(c) <=> c = action.channel
    BY <1>4 DEF Actions, SoloActions, ChordActions
  <2> HIDE DEF That
  <2>2. DOMAIN Solos(actions) = Channels /\ DOMAIN Solos(longer) = Channels
        /\ Solos(longer) = [c \in Channels |-> Solos(longer)[c]]
    OBVIOUS
  <2> HIDE DEF Solos
  <2>3. Toggled(Solos(actions), action.channel)
          = [c \in Channels |-> IF c = action.channel THEN ~Solos(actions)[c] ELSE Solos(actions)[c]]
    BY <2>2 DEF Toggled
  <2>4. Solos(longer) = Toggled(Solos(actions), action.channel)
    BY <1>1, <2>1, <2>2, <2>3
  <2> QED BY <2>4, <1>2, <1>3, <1>4 DEF EffectOn, longer
<1>5. CASE action.type = "chords" /\ action.type # "solo"
  <2>1. \A c \in Channels : action # That(c)
    BY <1>5
  <2>2. /\ Solos(longer) = [c \in Channels |-> Solos(longer)[c]]
        /\ Solos(actions) = [c \in Channels |-> Solos(actions)[c]]
    OBVIOUS
  <2> HIDE DEF That, Solos
  <2>3. \A c \in Channels : Solos(longer)[c] = Solos(actions)[c]
    BY <1>1, <2>1
  <2>4. Solos(longer) = Solos(actions)
    BY <2>2, <2>3
  <2> QED BY <2>4, <1>2, <1>3, <1>5 DEF EffectOn, longer
<1> QED
  BY <1>4, <1>5, ActionKinds

\* The state is what the done actions produce, and no chord is created twice: none
\* that can be redone exists, and none is to be redone twice.
Matches(s) == s.solo = Replay(s.undo).solo /\ s.chords = Replay(s.undo).chords

CreatesChord(stack, n) == n \in DOMAIN stack /\ stack[n].type = "chords"

ChordsOnce(s) ==
  /\ Distinct(s.chords)
  /\ \A n : CreatesChord(s.redo, n) => s.redo[n].chord \notin Elements(s.chords)
  /\ \A m, n : CreatesChord(s.redo, m) /\ CreatesChord(s.redo, n)
                 /\ s.redo[m].chord = s.redo[n].chord => m = n

Good(s) == s \in StateSet /\ Matches(s) /\ ChordsOnce(s)

\* What a good state is made of.
LEMMA GoodTyped ==
  ASSUME NEW s, Good(s)
  PROVE  /\ s \in StateSet /\ s.undo \in Seq(Actions) /\ s.redo \in Seq(Actions)
         /\ s.solo \in [Channels -> BOOLEAN] /\ s.chords \in Seq(Chords)
BY DEF Good, StateSet

\* A stack is what is popped from it and its top.
LEMMA PopTop ==
  ASSUME NEW stack \in Seq(Actions), stack # <<>>
  PROVE  /\ stack = Append(Pop(stack), Top(stack))
         /\ \A n \in DOMAIN Pop(stack) : n \in DOMAIN stack /\ n # Len(stack)
                                         /\ Pop(stack)[n] = stack[n]
         /\ Len(stack) \in DOMAIN stack /\ Top(stack) = stack[Len(stack)]
<1>1. /\ Pop(stack) \in Seq(Actions) /\ Len(Pop(stack)) = Len(stack) - 1
      /\ Top(stack) \in Actions /\ Len(stack) \in Nat /\ Len(stack) # 0
  BY PopTyped
<1>2. \A n \in 1..(Len(stack) - 1) : Pop(stack)[n] = stack[n]
  BY <1>1 DEF Pop
<1>3. Top(stack) = stack[Len(stack)]
  BY DEF Top
<1>4. /\ DOMAIN Pop(stack) = 1..(Len(stack) - 1) /\ DOMAIN stack = 1..Len(stack)
  BY <1>1
<1>5. Append(Pop(stack), Top(stack)) \in Seq(Actions) /\ Len(Append(Pop(stack), Top(stack))) = Len(stack)
  BY <1>1
<1>6. \A n \in 1..Len(stack) : Append(Pop(stack), Top(stack))[n] = stack[n]
  BY <1>1, <1>2, <1>3
<1>7. stack = Append(Pop(stack), Top(stack))
  BY <1>5, <1>6, SeqEqual
<1> QED
  BY <1>1, <1>2, <1>3, <1>4, <1>7

\* What has an effect on a state that matches gives a state that matches.
LEMMA EffectMatches ==
  ASSUME NEW s, Good(s), NEW action \in Actions, NEW t, EffectOn(s, action, t),
         t.undo = Append(s.undo, action)
  PROVE  Matches(t)
<1>1. EffectOn(Replay(s.undo), action, Replay(t.undo))
  BY GoodTyped, ReplayAppend
<1> QED
  BY <1>1 DEF Matches, EffectOn, Good

\* A chord that does not exist is created, at the end.
LEMMA EffectCreates ==
  ASSUME NEW s, Good(s), NEW action \in Actions, NEW t, EffectOn(s, action, t),
         action.type = "chords" => action.chord \notin Elements(s.chords)
  PROVE  /\ Distinct(t.chords)
         /\ Elements(t.chords) = IF action.type = "chords"
                                 THEN Elements(s.chords) \cup {action.chord}
                                 ELSE Elements(s.chords)
<1>1. Distinct(s.chords) /\ s.chords \in Seq(Chords)
  BY GoodTyped DEF Good, ChordsOnce
<1>2. CASE action.type = "solo"
  BY <1>1, <1>2 DEF EffectOn
<1>3. CASE action.type = "chords" /\ action.chord \in Chords /\ action.type # "solo"
  <2>1. t.chords = ArrayAppend(s.chords, action.chord)
    BY <1>3 DEF EffectOn, ArrayAppend
  <2> QED BY <2>1, <1>1, <1>3, AppendDistinct, AppendAdds
<1> QED
  BY <1>2, <1>3, ActionKinds

\* Perform: one action more is done, and nothing is left to redo.
LEMMA PerformPromise ==
  ASSUME NEW s, Good(s), NEW action \in Actions, ~IsFull(s.undo),
         action.type = "chords" => action.chord \notin Elements(s.chords)
  PROVE  /\ Good(Perform(s, action))
         /\ Perform(s, action).undo = Append(s.undo, action)
         /\ Perform(s, action).redo = <<>>
<1> DEFINE t == Do(s, action)
           r == [t EXCEPT !.undo = Push(@, action), !.redo = <<>>]
<1>1. s \in StateSet /\ s.undo \in Seq(Actions)
  BY GoodTyped
<1>2. t \in StateSet /\ t.undo = s.undo /\ EffectOn(s, action, t)
  BY <1>1, ActionTyped, ActionEffect DEF SameStacks
<1> HIDE DEF t
<1>3. Push(t.undo, action) = Append(s.undo, action) /\ Append(s.undo, action) \in Seq(Actions)
  BY <1>1, <1>2 DEF Push
<1>4. r = [t EXCEPT !.undo = Append(s.undo, action), !.redo = <<>>] /\ <<>> \in Seq(Actions)
  BY <1>3
<1>5. /\ r \in StateSet /\ r.undo = Append(s.undo, action) /\ r.redo = <<>>
      /\ r.solo = t.solo /\ r.chords = t.chords
  BY <1>2, <1>3, <1>4 DEF StateSet
<1>6. Perform(s, action) = r
  BY DEF Perform, t
<1> HIDE DEF r
<1>7. EffectOn(s, action, r)
  BY <1>2, <1>5 DEF EffectOn
<1>8. Matches(r) /\ Distinct(r.chords)
  BY <1>5, <1>7, EffectMatches, EffectCreates
<1>9. \A n : ~CreatesChord(r.redo, n)
  BY <1>5 DEF CreatesChord
<1>10. Good(r)
  BY <1>5, <1>8, <1>9 DEF Good, ChordsOnce
<1> QED
  BY <1>5, <1>6, <1>10

\* Redo: the chord that is created again did not exist, and is not redone again.
LEMMA RedoPromise ==
  ASSUME NEW s, Good(s), s.redo # <<>>, NEW r \in StateSet,
         r.undo = Append(s.undo, Top(s.redo)), r.redo = Pop(s.redo),
         EffectOn(s, Top(s.redo), r)
  PROVE  Good(r)
<1> DEFINE action == Top(s.redo)
           end == Len(s.redo)
<1>1. s.redo \in Seq(Actions) /\ action \in Actions
  BY GoodTyped, PopTyped
<1>2. /\ \A n \in DOMAIN r.redo : n \in DOMAIN s.redo /\ n # end /\ r.redo[n] = s.redo[n]
      /\ end \in DOMAIN s.redo /\ action = s.redo[end]
  BY <1>1, PopTop
<1> HIDE DEF action, end
<1>3. action.type = "chords" => action.chord \notin Elements(s.chords)
  BY <1>2 DEF Good, ChordsOnce, CreatesChord
<1>4. Matches(r)
  BY <1>1, EffectMatches DEF action
<1>5. /\ Distinct(r.chords)
      /\ Elements(r.chords) = IF action.type = "chords" THEN Elements(s.chords) \cup {action.chord}
                              ELSE Elements(s.chords)
  BY <1>1, <1>3, EffectCreates DEF action
<1>6. \A n : CreatesChord(r.redo, n) => /\ CreatesChord(s.redo, n) /\ n # end
                                        /\ r.redo[n] = s.redo[n]
  BY <1>2 DEF CreatesChord
<1>7. \A n : CreatesChord(r.redo, n) => s.redo[n].chord \notin Elements(r.chords)
  BY <1>2, <1>5, <1>6 DEF Good, ChordsOnce, CreatesChord
<1>8. ChordsOnce(r)
  BY <1>5, <1>6, <1>7 DEF Good, ChordsOnce
<1> QED
  BY <1>4, <1>8 DEF Good

\* The last element of an array without duplicates is not among those before.
LEMMA LastIsNew ==
  ASSUME NEW array \in Seq(Chords), NEW element \in Chords, Distinct(Append(array, element))
  PROVE  Distinct(array) /\ element \notin Elements(array)
<1> DEFINE longer == Append(array, element)
<1>1. /\ DOMAIN longer = 1..(Len(array) + 1) /\ DOMAIN array = 1..Len(array)
      /\ Len(array) \in Nat /\ longer[Len(array) + 1] = element
      /\ \A n \in 1..Len(array) : longer[n] = array[n]
  OBVIOUS
<1>2. \A m, n \in DOMAIN longer : longer[m] = longer[n] => m = n
  BY DEF Distinct
<1> HIDE DEF longer
<1>3. \A n \in 1..Len(array) : n \in DOMAIN longer /\ n # Len(array) + 1
  BY <1>1
<1>4. Len(array) + 1 \in DOMAIN longer
  BY <1>1
<1> QED
  BY <1>1, <1>2, <1>3, <1>4 DEF Distinct, Elements

\* Solo is toggled back.
LEMMA ToggledTwice ==
  ASSUME NEW solos \in [Channels -> BOOLEAN], NEW c \in Channels
  PROVE  Toggled(Toggled(solos, c), c) = solos
<1> DEFINE twice == Toggled(Toggled(solos, c), c)
<1>1. \A d \in Channels : twice[d] = solos[d]
  <2> SUFFICES ASSUME NEW d \in Channels PROVE twice[d] = solos[d]
    OBVIOUS
  <2>1. solos[d] \in BOOLEAN
    OBVIOUS
  <2>2. CASE d = c
    <3>1. twice[d] = ~~solos[d]
      BY <2>2 DEF Toggled
    <3> QED BY <2>1, <3>1
  <2>3. CASE d # c
    BY <2>3 DEF Toggled
  <2> QED BY <2>2, <2>3
<1>2. twice = [d \in Channels |-> twice[d]] /\ solos = [d \in Channels |-> solos[d]]
  BY DEF Toggled
<1> HIDE DEF twice
<1>3. twice = solos
  BY <1>1, <1>2
<1> QED
  BY <1>3 DEF twice

\* Undo: the chord that is deleted was the last one, and can be redone once.
LEMMA UndoPromise ==
  ASSUME NEW s, Good(s), s.undo # <<>>, NEW r \in StateSet,
         r.undo = Pop(s.undo), r.redo = Append(s.redo, Top(s.undo)),
         EffectUndone(s, Top(s.undo), r)
  PROVE  Good(r)
<1> DEFINE action == Top(s.undo)
           before == Replay(Pop(s.undo))
           next == Len(s.redo) + 1
<1>1. /\ s.undo \in Seq(Actions) /\ s.redo \in Seq(Actions) /\ action \in Actions
      /\ Pop(s.undo) \in Seq(Actions)
      /\ s.solo \in [Channels -> BOOLEAN] /\ s.chords \in Seq(Chords)
  BY GoodTyped, PopTyped
<1>2. Append(Pop(s.undo), action) = s.undo
  BY <1>1, PopTop
<1>3. EffectOn(before, action, Replay(s.undo))
  BY <1>1, <1>2, ReplayAppend
<1>4. before.chords \in Seq(Chords) /\ before.solo \in [Channels -> BOOLEAN]
  BY <1>1, CreatedAppend DEF Replay
<1>5. /\ r.redo = Append(s.redo, action) /\ Len(s.redo) \in Nat
      /\ DOMAIN r.redo = 1..next /\ DOMAIN s.redo = 1..Len(s.redo)
      /\ r.redo[next] = action
      /\ \A n \in 1..Len(s.redo) : r.redo[n] = s.redo[n]
  BY <1>1
<1>6. \A n : n \in DOMAIN r.redo => \/ n = next
                                    \/ n \in DOMAIN s.redo /\ r.redo[n] = s.redo[n]
  BY <1>5
<1>7. r.undo = Pop(s.undo)
  OBVIOUS
<1>8. EffectUndone(s, action, r) /\ Matches(s)
  BY DEF Good
<1> HIDE DEF action, before, next
<1>9. CASE action.type = "solo" /\ action.channel \in Channels
  <2>1. s.solo = Toggled(before.solo, action.channel) /\ s.chords = before.chords
    BY <1>3, <1>8, <1>9 DEF EffectOn, Matches
  <2>2. r.solo = Toggled(s.solo, action.channel) /\ r.chords = s.chords
    BY <1>8, <1>9 DEF EffectUndone
  <2>3. r.solo = before.solo
    BY <1>4, <1>9, <2>1, <2>2, ToggledTwice
  <2>4. Matches(r)
    BY <2>1, <2>2, <2>3, <1>7 DEF Matches, before
  <2>5. \A n : CreatesChord(r.redo, n) => CreatesChord(s.redo, n) /\ r.redo[n] = s.redo[n]
    BY <1>5, <1>6, <1>9 DEF CreatesChord
  <2>6. ChordsOnce(r)
    BY <2>2, <2>5 DEF Good, ChordsOnce
  <2> QED BY <2>4, <2>6 DEF Good
<1>10. CASE action.type = "chords" /\ action.chord \in Chords /\ action.type # "solo"
  <2> DEFINE chord == action.chord
  <2>1. s.solo = before.solo /\ s.chords = Append(before.chords, chord)
    BY <1>3, <1>8, <1>10 DEF EffectOn, Matches
  <2>2. r.solo = s.solo /\ r.chords = ArrayDelete(s.chords, chord)
    BY <1>8, <1>10 DEF EffectUndone
  <2>3. Distinct(before.chords) /\ chord \notin Elements(before.chords)
    <3>1. Distinct(Append(before.chords, chord))
      BY <2>1 DEF Good, ChordsOnce
    <3> QED BY <3>1, <1>4, <1>10, LastIsNew
  <2>4. r.chords = before.chords
    BY <2>1, <2>2, <2>3, <1>4, <1>10, DeleteLast DEF ArrayAppend
  <2>5. Matches(r)
    BY <2>1, <2>2, <2>4, <1>7 DEF Matches, before
  <2>6. Elements(s.chords) = Elements(before.chords) \cup {chord}
    BY <2>1, <1>4, <1>10, AppendAdds DEF ArrayAppend
  <2>7. \A n : CreatesChord(r.redo, n) =>
          \/ n = next /\ r.redo[n].chord = chord
          \/ CreatesChord(s.redo, n) /\ r.redo[n] = s.redo[n]
    BY <1>5, <1>6 DEF CreatesChord
  <2>8. \A n : CreatesChord(s.redo, n) =>
          s.redo[n].chord # chord /\ s.redo[n].chord \notin Elements(before.chords)
    BY <2>6 DEF Good, ChordsOnce
  <2>9. ChordsOnce(r)
    BY <2>3, <2>4, <2>7, <2>8 DEF Good, ChordsOnce
  <2> QED BY <2>5, <2>9 DEF Good
<1> QED
  BY <1>1, <1>9, <1>10, ActionKinds

\* What the program may do to the stacks, as undo_manager.h promises it.
Performed(action) == undoStack' = Append(undoStack, action) /\ redoStack' = <<>>
Undone ==
  /\ undoStack # <<>>
  /\ undoStack' = Pop(undoStack) /\ redoStack' = Append(redoStack, Top(undoStack))
Redone ==
  /\ redoStack # <<>>
  /\ undoStack' = Append(undoStack, Top(redoStack)) /\ redoStack' = Pop(redoStack)
Same == undoStack' = undoStack /\ redoStack' = redoStack

\* No push is refused: the actions to undo and redo, and those that a refresh of the
\* mixer may still perform, are within the bound.
WithinBound ==
  /\ Len(undoStack) + Len(redoStack) <= MaxUndoable
  /\ Len(undoStack) + Len(refreshing) <= MaxUndoable

HistoryInv == IInv /\ Good(State) /\ WithinBound

\* The state that a step leads to.
LEMMA BecomesState ==
  ASSUME NEW r \in StateSet, Becomes(r)
  PROVE  State' = r /\ undoStack' = r.undo /\ redoStack' = r.redo
BY DEF State, StateSet, Becomes

\* The parts of a state.
LEMMA StateParts ==
  /\ State.undo = undoStack /\ State.redo = redoStack
  /\ State.solo = solo /\ State.chords = chords
BY DEF State

\* As long as the document matches, the stacks tell the step of the promise.
LEMMA StacksTell ==
  ASSUME Good(State), Good(State)',
         \/ Same
         \/ \E action \in Actions : Performed(action)
         \/ Undone
         \/ Redone
  PROVE  [Promise!Next]_(Promise!history)
<1>1. Document = Replay(undoStack)
  BY StateParts DEF Good, Matches, Document, Replay
<1>2. Document' = Replay(undoStack')
  <2>1. Matches(State)'
    BY DEF Good
  <2>2. /\ State'.undo = undoStack' /\ State'.solo = solo' /\ State'.chords = chords'
    BY DEF State
  <2>3. solo' = Replay(undoStack').solo /\ chords' = Replay(undoStack').chords
    BY <2>1, <2>2 DEF Matches
  <2> QED BY <2>3 DEF Document, Replay
<1>3. CASE Same
  BY <1>1, <1>2, <1>3 DEF Same, Promise!history
<1>4. CASE \E action \in Actions : Performed(action)
  BY <1>2, <1>4 DEF Performed, Promise!Next, Promise!Perform
<1>5. CASE Undone
  BY <1>2, <1>5 DEF Undone, Pop, Top, Promise!Next, Promise!Undo
<1>6. CASE Redone
  BY <1>2, <1>6 DEF Redone, Pop, Top, Promise!Next, Promise!Redo
<1> QED
  BY <1>3, <1>4, <1>5, <1>6

\* A button or a flag is no part of the document.
LEMMA ButtonGood ==
  ASSUME NEW s, Good(s), NEW c \in Channels, NEW b \in BOOLEAN
  PROVE  /\ Good([s EXCEPT !.button[c] = b]) /\ Good([s EXCEPT !.flag[c] = b])
         /\ SameStacks(s, [s EXCEPT !.button[c] = b])
         /\ SameStacks(s, [s EXCEPT !.flag[c] = b])
<1> DEFINE t == [s EXCEPT !.button[c] = b]
           u == [s EXCEPT !.flag[c] = b]
<1>1. /\ t \in StateSet /\ SameStacks(s, t) /\ t.solo = s.solo /\ t.chords = s.chords
      /\ u \in StateSet /\ SameStacks(s, u) /\ u.solo = s.solo /\ u.chords = s.chords
  BY DEF Good, StateSet, SameStacks
<1> HIDE DEF t, u
<1>2. Good(t) /\ Good(u)
  BY <1>1 DEF Good, SameStacks, Matches, ChordsOnce, CreatesChord
<1> QED
  BY <1>1, <1>2 DEF t, u

\* The handler of the solo button performs an action, or none.
LEMMA HandlerPromise ==
  ASSUME NEW s, Good(s), NEW c \in Channels, ~IsFull(s.undo)
  PROVE  /\ Good(OnSoloToggled(s, c))
         /\ \/ SameStacks(s, OnSoloToggled(s, c))
            \/ \E action \in Actions :
                 /\ OnSoloToggled(s, c).undo = Append(s.undo, action)
                 /\ OnSoloToggled(s, c).redo = <<>>
<1>1. CASE s.flag[c]
  BY <1>1, ButtonGood DEF OnSoloToggled
<1>2. CASE ~s.flag[c]
  <2> DEFINE action == [type |-> "solo", channel |-> c]
  <2>1. action \in Actions /\ action.type # "chords"
    BY DEF Actions, SoloActions
  <2>2. OnSoloToggled(s, c) = Perform(s, action)
    BY <1>2 DEF OnSoloToggled
  <2> HIDE DEF action
  <2> QED BY <2>1, <2>2, PerformPromise
<1> QED
  BY <1>1, <1>2

\* A state that is good after a step is so whatever else the step does.
LEMMA Reached ==
  ASSUME NEW r, Good(r), Becomes(r)
  PROVE  Good(State)' /\ undoStack' = r.undo /\ redoStack' = r.redo
<1>1. r \in StateSet
  BY DEF Good
<1>2. State' = r /\ undoStack' = r.undo /\ redoStack' = r.redo
  BY <1>1, BecomesState
<1>3. Good(State')
  BY <1>2
<1> QED
  BY <1>2, <1>3

\* The four ways in which the stacks move keep to the bound.
LEMMA MovesFit ==
  ASSUME IInv, WithinBound
  PROVE  /\ Undone => Len(undoStack') + Len(redoStack') <= MaxUndoable
         /\ Undone => Len(undoStack') <= MaxUndoable
         /\ Redone => Len(undoStack') + Len(redoStack') <= MaxUndoable
         /\ Redone => Len(undoStack') <= MaxUndoable
         /\ \A action \in Actions :
              Performed(action) => /\ Len(undoStack') = Len(undoStack) + 1
                                   /\ Len(redoStack') = 0
<1>1. undoStack \in Seq(Actions) /\ redoStack \in Seq(Actions)
  BY DEF IInv, TypeOK
<1>2. /\ Len(undoStack) \in Nat /\ Len(redoStack) \in Nat
      /\ Len(undoStack) + Len(redoStack) <= MaxUndoable /\ MaxUndoable \in Nat
  BY <1>1, UndoAssumption DEF WithinBound
<1>3. ASSUME Undone
      PROVE  /\ Len(undoStack') + Len(redoStack') = Len(undoStack) + Len(redoStack)
             /\ Len(undoStack') \in Nat /\ Len(redoStack') \in Nat
  BY <1>1, <1>3, MovedFits DEF Undone
<1>4. ASSUME Redone
      PROVE  /\ Len(undoStack') + Len(redoStack') = Len(undoStack) + Len(redoStack)
             /\ Len(undoStack') \in Nat /\ Len(redoStack') \in Nat
  BY <1>1, <1>4, MovedFits DEF Redone
<1>5. ASSUME NEW action \in Actions, Performed(action)
      PROVE  Len(undoStack') = Len(undoStack) + 1 /\ Len(redoStack') = 0
  BY <1>1, <1>5 DEF Performed
<1> QED
  BY <1>2, <1>3, <1>4, <1>5

\* One step of the main loop keeps the promise, and what it rests on.
LEMMA HistoryStep ==
  ASSUME MaxUndoable <= MaxStackLength, HistoryInv, [Next]_vars
  PROVE  HistoryInv' /\ [Promise!Next]_(Promise!history)
<1> DEFINE Promised == HistoryInv' /\ [Promise!Next]_(Promise!history)
<1>1. /\ IInv /\ Good(State) /\ WithinBound
      /\ undoStack \in Seq(Actions) /\ redoStack \in Seq(Actions)
      /\ refreshing \in Seq(Channels)
      /\ button \in [Channels -> BOOLEAN] /\ solo \in [Channels -> BOOLEAN]
  BY DEF HistoryInv, IInv, TypeOK
<1>2. IInv'
  BY <1>1, StepInvariant
<1>3. /\ Len(undoStack) \in Nat /\ Len(redoStack) \in Nat /\ Len(refreshing) \in Nat
      /\ MaxUndoable \in Nat /\ MaxStackLength \in Nat
  BY <1>1, UndoAssumption
<1>4. ASSUME NEW c \in Channels, ClickSolo(c) PROVE Promised
  <2> DEFINE t == [State EXCEPT !.button[c] = ~@]
             r == OnSoloToggled(t, c)
  <2>1. t = [State EXCEPT !.button[c] = ~button[c]]
    BY DEF State
  <2>2. Good(t) /\ SameStacks(State, t)
    BY <1>1, <2>1, ButtonGood
  <2>3. Becomes(r) /\ Idle /\ Bounded(1) /\ refreshing' = refreshing
    BY <1>4 DEF ClickSolo
  <2> HIDE DEF t
  <2>4. t.undo = undoStack /\ t.redo = redoStack
    BY <2>2, StateParts DEF SameStacks
  <2>5. ~IsFull(t.undo)
    BY <1>3, <2>3, <2>4 DEF IsFull, Bounded
  <2>6. /\ Good(r)
        /\ \/ r.undo = undoStack /\ r.redo = redoStack
           \/ \E action \in Actions : r.undo = Append(undoStack, action) /\ r.redo = <<>>
    BY <2>2, <2>4, <2>5, HandlerPromise DEF SameStacks
  <2> HIDE DEF r
  <2>7. Good(State)' /\ undoStack' = r.undo /\ redoStack' = r.redo
    BY <2>3, <2>6, Reached
  <2>8. Same \/ \E action \in Actions : Performed(action)
    BY <2>6, <2>7 DEF Same, Performed
  <2>9. WithinBound'
    <3>1. Len(refreshing) = 0 /\ Len(undoStack) + 1 <= MaxUndoable
      BY <2>3 DEF Idle, Bounded
    <3> QED BY <3>1, <1>1, <1>3, <2>3, <2>8, MovesFit DEF Same, WithinBound
  <2> QED BY <1>1, <1>2, <2>7, <2>8, <2>9, StacksTell DEF HistoryInv
<1>5. ASSUME NEW chord \in Chords, CreateChord(chord) PROVE Promised
  <2> DEFINE action == [type |-> "chords", chord |-> chord]
             r == Perform(State, action)
  <2>1. action \in Actions /\ action.chord = chord
    BY DEF Actions, ChordActions
  <2>2. Becomes(r) /\ Idle /\ Bounded(1) /\ refreshing' = refreshing /\ chord \notin Elements(chords)
    BY <1>5 DEF CreateChord
  <2>3. ~IsFull(State.undo) /\ chord \notin Elements(State.chords)
    BY <1>3, <2>2, StateParts DEF IsFull, Bounded
  <2> HIDE DEF action
  <2>4. Good(r) /\ r.undo = Append(undoStack, action) /\ r.redo = <<>>
    BY <1>1, <2>1, <2>3, PerformPromise, StateParts
  <2> HIDE DEF r
  <2>5. Good(State)' /\ Performed(action)
    BY <2>2, <2>4, Reached DEF Performed
  <2>6. WithinBound'
    <3>1. Len(refreshing) = 0 /\ Len(undoStack) + 1 <= MaxUndoable
      BY <2>2 DEF Idle, Bounded
    <3> QED BY <3>1, <1>1, <1>3, <2>1, <2>2, <2>5, MovesFit DEF WithinBound
  <2> QED BY <1>1, <1>2, <2>1, <2>5, <2>6, StacksTell DEF HistoryInv
<1>6. ASSUME RefreshMixer PROVE Promised
  <2>1. Becomes(State) /\ refreshing' = Mixer /\ Bounded(Len(Mixer))
    BY <1>6 DEF RefreshMixer
  <2>2. Good(State)' /\ Same
    BY <1>1, <2>1, Reached, StateParts DEF Same
  <2>3. WithinBound'
    BY <1>1, <2>1, <2>2 DEF WithinBound, Bounded, Same
  <2> QED BY <1>1, <1>2, <2>2, <2>3, StacksTell DEF HistoryInv
<1>7. ASSUME RefreshChannel PROVE Promised
  <2> DEFINE c == Head(refreshing)
             t == [State EXCEPT !.button[c] = solo[c]]
             r == IF button[c] = solo[c] THEN State ELSE OnSoloToggled(t, c)
  <2>1. refreshing # <<>> /\ refreshing' = Tail(refreshing) /\ Becomes(r)
    BY <1>7 DEF RefreshChannel, Idle
  <2>2. /\ c \in Channels /\ Len(refreshing') = Len(refreshing) - 1 /\ Len(refreshing) # 0
    BY <1>1, <2>1
  <2> HIDE DEF c
  <2>3. Good(t) /\ SameStacks(State, t)
    BY <1>1, <2>2, ButtonGood
  <2> HIDE DEF t
  <2>4. t.undo = undoStack /\ t.redo = redoStack
    BY <2>3, StateParts DEF SameStacks
  <2>5. ~IsFull(t.undo)
    BY <1>1, <1>3, <2>2, <2>4 DEF IsFull, WithinBound
  <2>6. /\ Good(OnSoloToggled(t, c))
        /\ \/ SameStacks(t, OnSoloToggled(t, c))
           \/ \E action \in Actions :
                /\ OnSoloToggled(t, c).undo = Append(undoStack, action)
                /\ OnSoloToggled(t, c).redo = <<>>
    BY <2>2, <2>3, <2>4, <2>5, HandlerPromise
  <2>7. /\ Good(r)
        /\ \/ r.undo = undoStack /\ r.redo = redoStack
           \/ \E action \in Actions : r.undo = Append(undoStack, action) /\ r.redo = <<>>
    BY <1>1, <2>4, <2>6, StateParts DEF SameStacks
  <2> HIDE DEF r
  <2>8. Good(State)' /\ undoStack' = r.undo /\ redoStack' = r.redo
    BY <2>1, <2>7, Reached
  <2>9. Same \/ \E action \in Actions : Performed(action)
    BY <2>7, <2>8 DEF Same, Performed
  <2>10. WithinBound'
    <3>1. /\ Len(undoStack) + Len(refreshing) <= MaxUndoable
          /\ Len(undoStack) + Len(redoStack) <= MaxUndoable
      BY <1>1 DEF WithinBound
    <3> QED BY <3>1, <1>1, <1>3, <2>2, <2>9, MovesFit DEF Same, WithinBound
  <2> QED BY <1>1, <1>2, <2>8, <2>9, <2>10, StacksTell DEF HistoryInv
<1>8. ASSUME Undo PROVE Promised
  <2>1. PICK r \in StateSet :
          /\ Becomes(r)
          /\ r.undo = Pop(undoStack) /\ r.redo = Append(redoStack, Top(undoStack))
          /\ EffectUndone(State, Top(undoStack), r)
    BY <1>1, <1>8, UndoMoves
  <2>2. undoStack # <<>> /\ refreshing' = refreshing /\ Len(refreshing) = 0
    BY <1>8 DEF Undo, Idle
  <2>3. Good(r)
    BY <1>1, <2>1, <2>2, StateParts, UndoPromise
  <2>4. Good(State)' /\ Undone
    BY <2>1, <2>2, <2>3, Reached DEF Undone
  <2>5. WithinBound'
    <3>1. Len(undoStack') + Len(redoStack') <= MaxUndoable /\ Len(undoStack') <= MaxUndoable
      BY <1>1, <2>4, MovesFit
    <3>2. Len(undoStack') \in Nat
      BY <1>2 DEF IInv, TypeOK
    <3> QED BY <3>1, <3>2, <2>2 DEF WithinBound
  <2> QED BY <1>1, <1>2, <2>4, <2>5, StacksTell DEF HistoryInv
<1>9. ASSUME Redo PROVE Promised
  <2>1. PICK r \in StateSet :
          /\ Becomes(r)
          /\ r.redo = Pop(redoStack) /\ r.undo = Append(undoStack, Top(redoStack))
          /\ EffectOn(State, Top(redoStack), r)
    BY <1>1, <1>9, RedoMoves
  <2>2. redoStack # <<>> /\ refreshing' = refreshing /\ Len(refreshing) = 0
    BY <1>9 DEF Redo, Idle
  <2>3. Good(r)
    BY <1>1, <2>1, <2>2, StateParts, RedoPromise
  <2>4. Good(State)' /\ Redone
    BY <2>1, <2>2, <2>3, Reached DEF Redone
  <2>5. WithinBound'
    <3>1. Len(undoStack') + Len(redoStack') <= MaxUndoable /\ Len(undoStack') <= MaxUndoable
      BY <1>1, <2>4, MovesFit
    <3>2. Len(undoStack') \in Nat
      BY <1>2 DEF IInv, TypeOK
    <3> QED BY <3>1, <3>2, <2>2 DEF WithinBound
  <2> QED BY <1>1, <1>2, <2>4, <2>5, StacksTell DEF HistoryInv
<1>10. CASE UNCHANGED vars
  <2>1. Good(State)' /\ Same /\ WithinBound'
    BY <1>1, <1>10 DEF vars, State, Same, WithinBound
  <2> QED BY <1>1, <1>2, <2>1, StacksTell DEF HistoryInv
<1> QED
  BY <1>4, <1>5, <1>6, <1>7, <1>8, <1>9, <1>10 DEF Next

\* The empty project is what no action produces.
LEMMA HistoryInitial == Init => HistoryInv /\ Promise!Init
<1> SUFFICES ASSUME Init PROVE HistoryInv /\ Promise!Init
  OBVIOUS
<1>1. undoStack = <<>> /\ redoStack = <<>> /\ chords = <<>> /\ refreshing = <<>>
      /\ solo = [c \in Channels |-> FALSE]
  BY DEF Init
<1>2. \A action : Count(<<>>, action) = 0
  <2> SUFFICES ASSUME NEW action PROVE Count(<<>>, action) = 0
    OBVIOUS
  <2>1. {n \in DOMAIN <<>> : <<>>[n] = action} = {}
    OBVIOUS
  <2> QED BY <2>1, FS_EmptySet DEF Count
<1>3. Replay(<<>>).solo = [c \in Channels |-> FALSE]
  <2>1. \A c \in Channels : (Count(<<>>, [type |-> "solo", channel |-> c]) % 2 = 1) = FALSE
    BY <1>2
  <2> QED BY <2>1 DEF Replay
<1>4. Replay(<<>>).chords = <<>>
  BY CreatedNothing DEF Replay
<1>5. State.undo = <<>> /\ State.redo = <<>> /\ State.solo = solo /\ State.chords = <<>>
  BY <1>1, StateParts
<1>6. IInv /\ State \in StateSet
  BY InitInvariant, StateTyped DEF IInv
<1>7. Matches(State)
  BY <1>1, <1>3, <1>4, <1>5 DEF Matches
<1>8. ChordsOnce(State)
  BY <1>5 DEF ChordsOnce, CreatesChord, Distinct
<1>9. WithinBound
  BY <1>1, UndoAssumption DEF WithinBound
<1>10. Document = Replay(<<>>)
  BY <1>1, <1>3, <1>4 DEF Document, Replay
<1> QED
  BY <1>1, <1>6, <1>7, <1>8, <1>9, <1>10 DEF HistoryInv, Good, Promise!Init

\* Undo and redo take back and repeat exactly what was done, in order, and the document
\* is always what the actions on the undo stack produce: the undo manager implements
\* the promise of undo_manager.h, whatever the user clicks, for any number of channels
\* and chords, as long as there are not more actions than a stack holds.
THEOREM KeepsHistoryCorrect ==
  ASSUME MaxUndoable <= MaxStackLength
  PROVE  Spec => KeepsHistory
<1>1. Init => HistoryInv /\ Promise!Init
  BY HistoryInitial
<1>2. HistoryInv /\ [Next]_vars => HistoryInv' /\ [Promise!Next]_(Promise!history)
  BY HistoryStep
<1> QED
  BY <1>1, <1>2, PTL DEF Spec, KeepsHistory, Promise!Spec

\* The widget around it keeps the promise too.
COROLLARY WidgetKeepsHistory ==
  ASSUME MaxUndoable <= MaxStackLength
  PROVE  WidgetSpec => KeepsHistory
BY KeepsHistoryCorrect, WidgetRefines, PTL
=============================================================================
