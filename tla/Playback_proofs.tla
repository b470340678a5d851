---------------------------- MODULE Playback_proofs ----------------------------
(***************************************************************************)
(* Proofs about Playback: the types, that an all-notes-off comes first     *)
(* after every jump at the end of the loop, that no note hangs and that    *)
(* none is skipped.                                                        *)
(***************************************************************************)
EXTENDS Playback, TLAPS

\* The thread of the channel is in channel_process only while the callback waits.
TakesTurns == jack # "wait" => channel = "idle"

\* Where the all-notes-off of a jump is: asked for, or alone in the queue that the
\* channel is about to take.
OnItsWay ==
  \/ panic /\ channel \in {"idle", "start"}
  \/ channel = "dequeue" /\ queue.off_all /\ queue.on = {}

IInv == TypeOK /\ TakesTurns /\ (jumped => OnItsWay)

\* A block ends where it began or later, and at LastTick at the latest.
LEMMA AdvancedType ==
  ASSUME NEW pos \in 0..LastTick
  PROVE  Advanced(pos) \in 0..LastTick
<1>1. /\ NFrames \in Nat /\ FramesPerTick \in Nat \ {0} /\ LastTick \in Nat
  BY PlaybackAssumption
<1>2. BlockTicks \in Nat
  BY <1>1, SMT DEF BlockTicks
<1> QED
  BY <1>1, <1>2, SMT DEF Advanced

\* The program starts paused and silent.
LEMMA InitInvariant == Init => IInv
<1> SUFFICES ASSUME Init PROVE IInv
  OBVIOUS
<1>1. LoopStart \in 0..LastTick /\ 0 \in 0..MaxPosts
  BY PlaybackAssumption
<1>2. /\ panic \in BOOLEAN /\ filled \in BOOLEAN
      /\ moved \in BOOLEAN /\ jumped \in BOOLEAN /\ loop \in BOOLEAN
  BY DEF Init
<1>3. queue \in [off_all : BOOLEAN, on : SUBSET Notes, off : SUBSET Notes]
  BY DEF Init, Emptied
<1>4. TypeOK
  <2>1. /\ play_state = "paused" /\ playhead = LoopStart /\ paused = 0
        /\ sounding = {} /\ jack = "idle" /\ seen = "paused"
        /\ channel = "idle" /\ gtk = "idle"
    BY DEF Init
  <2> QED
    BY <1>1, <1>2, <1>3, <2>1 DEF TypeOK, States
<1>5. channel = "idle" /\ ~jumped
  BY DEF Init
<1> QED
  BY <1>4, <1>5 DEF IInv, TakesTurns

\* Every step keeps the types.
LEMMA TypeStep ==
  ASSUME TypeOK, [Next]_vars
  PROVE  TypeOK'
<1>0. /\ LoopStart \in 0..LastTick /\ Cue \in 0..LastTick /\ LastTick \in Nat
      /\ MaxPosts \in Nat /\ Positions \subseteq 0..LastTick
  BY PlaybackAssumption
<1>e. /\ Emptied \in [off_all : BOOLEAN, on : SUBSET Notes, off : SUBSET Notes]
      /\ Panicked \in [off_all : BOOLEAN, on : SUBSET Notes, off : SUBSET Notes]
  BY DEF Emptied, Panicked
<1> USE DEF TypeOK, transport, midi, history, States
<1>1. CASE Jack
  <2>1. CASE ReadState
    BY <2>1 DEF ReadState
  <2>2. CASE SwitchState
    BY <1>0, <2>2 DEF SwitchState, Posted
  <2>3. CASE StopPanicking
    <3>1. panic' \in BOOLEAN
      BY <2>3 DEF StopPanicking
    <3> QED
      BY <2>3, <3>1 DEF StopPanicking
  <2>4. CASE DecideAdvance
    BY <2>4 DEF DecideAdvance
  <2>5. CASE JumpToLoopStart
    BY <1>0, <2>5 DEF JumpToLoopStart
  <2>6. CASE AddToPlayhead
    BY <2>6, AdvancedType DEF AddToPlayhead
  <2> QED
    BY <1>1, <2>1, <2>2, <2>3, <2>4, <2>5, <2>6 DEF Jack
<1>2. CASE Channel
  <2>1. CASE ChannelPanic
    <3>1. filled' \in BOOLEAN
      BY <2>1 DEF ChannelPanic
    <3> QED
      BY <1>e, <2>1, <3>1 DEF ChannelPanic
  <2>2. CASE ChannelNoPanic
    BY <2>2 DEF ChannelNoPanic
  <2>3. CASE ChannelAsks
    <3>1. filled' \in BOOLEAN
      BY <2>3 DEF ChannelAsks
    <3> QED
      BY <2>3, <3>1 DEF ChannelAsks
  <2>4. CASE ResetQueue
    BY <1>e, <2>4 DEF ResetQueue
  <2>5. CASE FillEvents
    <3>1. filled' \in BOOLEAN
      BY <2>5 DEF FillEvents
    <3>2. \A on, off \in SUBSET Notes :
            [queue EXCEPT !.on = @ \cup on, !.off = @ \cup off]
              \in [off_all : BOOLEAN, on : SUBSET Notes, off : SUBSET Notes]
      OBVIOUS
    <3>3. queue' \in [off_all : BOOLEAN, on : SUBSET Notes, off : SUBSET Notes]
      <4> DEFINE on == {n \in Notes : InBlock(Start[n])}
                 off == {n \in Notes : InBlock(End[n])}
      <4>1. on \in SUBSET Notes /\ off \in SUBSET Notes
        OBVIOUS
      <4>2. queue' = [queue EXCEPT !.on = @ \cup on, !.off = @ \cup off]
        BY <2>5 DEF FillEvents
      <4> HIDE DEF on, off
      <4> QED
        BY <3>2, <4>1, <4>2
    <3>4. /\ channel' = "dequeue"
          /\ UNCHANGED <<moved, jumped, transport, panic, sounding, jack, seen, gtk>>
      BY <2>5 DEF FillEvents
    <3> QED
      BY <3>1, <3>3, <3>4
  <2>6. CASE Dequeue
    <3>1. sounding' \subseteq Notes
      BY <2>6 DEF Dequeue
    <3>2. moved' \in BOOLEAN /\ jumped' \in BOOLEAN
      BY <2>6 DEF Dequeue
    <3> QED
      BY <2>6, <3>1, <3>2 DEF Dequeue
  <2>7. CASE ClearQueue
    BY <1>e, <2>7 DEF ClearQueue
  <2> QED
    BY <1>2, <2>1, <2>2, <2>3, <2>4, <2>5, <2>6, <2>7 DEF Channel
<1>3. CASE User
  <2> USE DEF Control, GtkGoto
  <2>1. CASE PlayClicked
    BY <2>1 DEF PlayClicked
  <2>2. CASE StopClicked
    BY <2>2 DEF StopClicked
  <2>3. CASE SpaceReleased
    BY <2>3 DEF SpaceReleased
  <2>4. CASE LoopToggled
    BY <2>4 DEF LoopToggled
  <2>5. ASSUME NEW pos \in Positions, RulerDragged(pos) PROVE TypeOK'
    <3>1. filled' \in BOOLEAN /\ moved' \in BOOLEAN
      BY <2>5 DEF RulerDragged, MovePlayhead
    <3> QED
      BY <1>0, <2>5, <3>1 DEF RulerDragged, MovePlayhead
  <2> QED
    BY <1>3, <2>1, <2>2, <2>3, <2>4, <2>5 DEF User
<1>4. CASE Handler
  <2> USE DEF Request, GtkGoto
  <2>1. CASE RequestRoll
    BY <2>1 DEF RequestRoll
  <2>2. CASE RequestPause
    BY <2>2 DEF RequestPause
  <2>3. CASE StopRequest
    BY <2>3 DEF StopRequest
  <2>4. CASE GoToCue
    <3>1. filled' \in BOOLEAN /\ moved' \in BOOLEAN
      BY <2>4 DEF GoToCue, MovePlayhead
    <3> QED
      BY <1>0, <2>4, <3>1 DEF GoToCue, MovePlayhead
  <2>5. CASE PanicAll
    <3>1. filled' \in BOOLEAN
      BY <2>5 DEF PanicAll
    <3> QED
      BY <1>e, <2>5, <3>1 DEF PanicAll
  <2>6. CASE Panic
    BY <2>6 DEF Panic
  <2> QED
    BY <1>4, <2>1, <2>2, <2>3, <2>4, <2>5, <2>6 DEF Handler
<1>5. CASE UNCHANGED vars
  BY <1>5 DEF vars
<1> QED
  BY <1>1, <1>2, <1>3, <1>4, <1>5 DEF Next
-----------------------------------------------------------------------------
\* What the user does neither starts nor ends a turn, and takes back no all-notes-off.
LEMMA UserStep ==
  ASSUME IInv, User \/ Handler
  PROVE  /\ TakesTurns' /\ (jumped' => OnItsWay')
         /\ sounding' = sounding
<1>1. /\ UNCHANGED <<jack, channel, sounding, jumped>>
      /\ panic => panic'
      /\ queue' = queue \/ queue' = Panicked
  BY DEF User, Handler, PlayClicked, StopClicked, SpaceReleased, LoopToggled, RulerDragged,
         RequestRoll, RequestPause, StopRequest, GoToCue, PanicAll, Panic,
         Control, GtkGoto, Request, MovePlayhead, transport, midi, history
<1>2. Panicked.off_all /\ Panicked.on = {}
  BY DEF Panicked
<1> QED
  BY <1>1, <1>2 DEF IInv, TakesTurns, OnItsWay

\* The callback and the channel take turns, and so the all-notes-off of a jump stays
\* on its way until the channel takes it; that is the step in which it is heard.
LEMMA EngineStep ==
  ASSUME IInv, Jack \/ Channel
  PROVE  /\ TakesTurns' /\ (jumped' => OnItsWay')
         /\ jumped => sounding' \in {sounding, {}}
<1> USE DEF IInv, TakesTurns, OnItsWay, transport, midi, history
<1>1. CASE Jack
  <2>1. CASE ReadState
    BY <2>1 DEF ReadState
  <2>2. CASE SwitchState
    BY <2>2 DEF SwitchState
  <2>3. CASE StopPanicking
    BY <2>3 DEF StopPanicking
  <2>4. CASE DecideAdvance
    BY <2>4 DEF DecideAdvance
  <2>5. CASE JumpToLoopStart
    BY <2>5 DEF JumpToLoopStart
  <2>6. CASE AddToPlayhead
    BY <2>6 DEF AddToPlayhead
  <2> QED
    BY <1>1, <2>1, <2>2, <2>3, <2>4, <2>5, <2>6 DEF Jack
<1>2. CASE Channel
  <2>1. CASE ChannelPanic
    BY <2>1 DEF ChannelPanic, Panicked
  <2>2. CASE ChannelNoPanic
    BY <2>2 DEF ChannelNoPanic
  <2>3. CASE ChannelAsks
    BY <2>3 DEF ChannelAsks
  <2>4. CASE ResetQueue
    BY <2>4 DEF ResetQueue
  <2>5. CASE FillEvents
    BY <2>5 DEF FillEvents
  <2>6. CASE Dequeue
    <3>1. /\ channel = "dequeue" /\ channel' = "clear" /\ jack' = jack
          /\ sounding' = ((IF queue.off_all THEN {} ELSE sounding) \cup queue.on)
                           \ queue.off
          /\ jumped' = (jumped /\ sounding' # {})
      BY <2>6 DEF Dequeue
    <3>2. jumped => sounding' = {}
      BY <3>1
    <3> QED
      BY <3>1, <3>2
  <2>7. CASE ClearQueue
    BY <2>7 DEF ClearQueue
  <2> QED
    BY <1>2, <2>1, <2>2, <2>3, <2>4, <2>5, <2>6, <2>7 DEF Channel
<1> QED
  BY <1>1, <1>2

\* One step of anybody.
LEMMA StepInvariant ==
  ASSUME IInv, [Next]_vars
  PROVE  IInv' /\ (jumped => sounding' \in {sounding, {}})
<1>1. TypeOK'
  BY TypeStep DEF IInv
<1>2. CASE Jack \/ Channel
  BY <1>1, <1>2, EngineStep DEF IInv
<1>3. CASE User \/ Handler
  BY <1>1, <1>3, UserStep DEF IInv
<1>4. CASE UNCHANGED vars
  BY <1>1, <1>4 DEF IInv, vars, TakesTurns, OnItsWay, midi, history
<1> QED
  BY <1>2, <1>3, <1>4 DEF Next

\* The strengthened invariant of the playback.
LEMMA Invariance == Spec => []IInv
<1>1. IInv /\ [Next]_vars => IInv'
  BY StepInvariant
<1> QED
  BY InitInvariant, <1>1, PTL DEF Spec

\* Every variable keeps its type, for any notes, loop, cue and block length
\* (transport.c, engine.c, channel.c, midi.c and the controls).
THEOREM PlaybackTypeCorrect == Spec => []TypeOK
<1>1. IInv => TypeOK
  BY DEF IInv
<1> QED
  BY <1>1, Invariance, PTL

\* After the jump at the end of the loop the instrument hears an all-notes-off before
\* anything else, whatever the user clicks (engine_post_process, channel_process and
\* midi_events_dequeue), for any notes, loop and block length.
THEOREM JumpSilencesCorrect == Spec => JumpSilences
<1>1. IInv /\ [Next]_vars => [jumped => sounding' \in {sounding, {}}]_vars
  BY StepInvariant
<1> QED
  BY <1>1, Invariance, PTL DEF Spec, JumpSilences
-----------------------------------------------------------------------------
(***************************************************************************)
(* Notes.  A cycle that rolls takes the note offs of its block from the    *)
(* playhead it found, unless the user moves it, or everything is silenced; *)
(* after that no sounding note ends before the next block.                 *)
(***************************************************************************)
\* The notes whose start, and those whose end, is in the block of the playhead.
OnsOfBlock == {n \in Notes : InBlock(Start[n])}
OffsOfBlock == {n \in Notes : InBlock(End[n])}

\* Outside of filling and taking, no note is queued.
NoNoteQueued ==
  channel \in {"idle", "start", "ask", "reset", "fill", "done"} =>
    queue.on = {} /\ queue.off = {}

\* What the channel is about to take.
QueueOfBlock ==
  channel = "dequeue" =>
    \/ moved
    \/ queue.on = {} /\ (queue.off_all \/ play_state # "rolling")
    \/ queue.on \subseteq OnsOfBlock /\ OffsOfBlock \subseteq queue.off

\* The part of a cycle in which the instrument has been given its events.
AfterEvents == channel \in {"clear", "done"} \/ jack \in {"advance", "jump", "add"}

\* No note that sounds on ends in the block that was just played.
EndsLater ==
  AfterEvents /\ play_state = "rolling" =>
    \A n \in sounding : End[n] > playhead + BlockTicks \/ moved

\* Without panic or a move of the user no sounding note has been passed.
EndAhead == \A n \in sounding : playhead <= End[n] \/ moved \/ jumped

\* The channel took the events of this playhead, and they are played.
FilledFromBlock ==
  filled =>
    /\ channel = "dequeue" => queue.on = OnsOfBlock /\ queue.off = OffsOfBlock
    /\ AfterEvents => OnsOfBlock \subseteq sounding \cup OffsOfBlock

NotesInv == NoNoteQueued /\ QueueOfBlock /\ EndsLater /\ EndAhead /\ FilledFromBlock

\* The times of blocks and notes.
LEMMA BlockType ==
  /\ BlockTicks \in Nat /\ LastTick \in Nat
  /\ \A n \in Notes : Start[n] \in Nat /\ End[n] \in Nat /\ Start[n] <= End[n] /\ End[n] < LastTick
<1>1. /\ NFrames \in Nat /\ FramesPerTick \in Nat \ {0} /\ LastTick \in Nat
  BY PlaybackAssumption
<1>2. BlockTicks \in Nat
  BY <1>1, SMT DEF BlockTicks
<1> QED
  BY <1>1, <1>2, PlaybackAssumption

\* The program starts with nothing queued and nothing sounding.
LEMMA InitNotes == Init => NotesInv
<1> SUFFICES ASSUME Init PROVE NotesInv
  OBVIOUS
<1>1. /\ queue.on = {} /\ queue.off = {} /\ sounding = {}
      /\ channel = "idle" /\ jack = "idle" /\ ~filled
  BY DEF Init, Emptied
<1> QED
  BY <1>1 DEF NotesInv, NoNoteQueued, QueueOfBlock, AfterEvents, EndsLater, EndAhead, FilledFromBlock

\* The user moves the playhead only with moved raised, replaces the queue only by an
\* all-notes-off, takes back that the channel has filled it when he does either,
\* and never lets the transport roll himself.
LEMMA UserLeaves ==
  ASSUME User \/ Handler
  PROVE  /\ UNCHANGED <<jack, channel, sounding, jumped>>
         /\ play_state' = play_state \/ play_state' # "rolling"
         /\ \/ playhead' = playhead /\ moved' = moved
            \/ moved' /\ ~filled'
         /\ \/ queue' = queue
            \/ queue'.on = {} /\ queue'.off = {} /\ queue'.off_all /\ ~filled'
         /\ filled' => filled
<1>1. Panicked.off_all /\ Panicked.on = {} /\ Panicked.off = {}
  BY DEF Panicked
<1> QED
  BY <1>1 DEF User, Handler, PlayClicked, StopClicked, SpaceReleased, LoopToggled, RulerDragged,
         RequestRoll, RequestPause, StopRequest, GoToCue, PanicAll, Panic,
         Control, GtkGoto, Request, MovePlayhead, transport, midi, history

\* What the user does keeps the notes.
LEMMA UserNotes ==
  ASSUME NotesInv, User \/ Handler
  PROVE  NotesInv'
<1> USE UserLeaves
<1>1. NoNoteQueued'
  BY DEF NotesInv, NoNoteQueued
<1>2. playhead' = playhead => OnsOfBlock' = OnsOfBlock /\ OffsOfBlock' = OffsOfBlock
  BY DEF OnsOfBlock, OffsOfBlock, InBlock
<1>3. QueueOfBlock'
  BY <1>2 DEF NotesInv, QueueOfBlock
<1>4. EndsLater'
  BY DEF NotesInv, EndsLater, AfterEvents
<1>5. EndAhead'
  BY DEF NotesInv, EndAhead
<1>6. FilledFromBlock'
  BY <1>2 DEF NotesInv, FilledFromBlock, AfterEvents
<1> QED
  BY <1>1, <1>3, <1>4, <1>5, <1>6 DEF NotesInv

\* The callback: playing starts before the channel does, and the playhead moves
\* after it, over what the channel has heard.
LEMMA JackNotes ==
  ASSUME IInv, NotesInv, Jack
  PROVE  NotesInv'
<1> USE DEF NotesInv, transport, midi, history
<1>1. CASE ReadState
  BY <1>1 DEF ReadState, NoNoteQueued, QueueOfBlock, EndsLater, EndAhead, FilledFromBlock,
              AfterEvents, OnsOfBlock, OffsOfBlock, InBlock
<1>2. CASE SwitchState
  <2>1. channel = "idle"
    BY <1>2 DEF SwitchState, IInv, TakesTurns
  <2> QED
    BY <1>2, <2>1 DEF SwitchState, NoNoteQueued, QueueOfBlock, EndsLater, EndAhead,
                      FilledFromBlock, AfterEvents
<1>3. CASE StopPanicking
  BY <1>3 DEF StopPanicking, NoNoteQueued, QueueOfBlock, EndsLater, EndAhead, FilledFromBlock,
              AfterEvents, OnsOfBlock, OffsOfBlock, InBlock
<1>4. CASE DecideAdvance
  BY <1>4 DEF DecideAdvance, NoNoteQueued, QueueOfBlock, EndsLater, EndAhead, FilledFromBlock,
              AfterEvents, OnsOfBlock, OffsOfBlock, InBlock
<1>5. CASE JumpToLoopStart
  <2>1. channel = "idle"
    BY <1>5 DEF JumpToLoopStart, IInv, TakesTurns
  <2> QED
    BY <1>5, <2>1 DEF JumpToLoopStart, NoNoteQueued, QueueOfBlock, EndsLater, EndAhead,
                      FilledFromBlock, AfterEvents
<1>6. CASE AddToPlayhead
  <2>1. /\ channel = "idle" /\ jack' = "idle" /\ jack = "add"
        /\ UNCHANGED <<play_state, queue, sounding, channel, moved, jumped>>
        /\ playhead' = IF play_state = "rolling" THEN Advanced(playhead) ELSE playhead
    BY <1>6 DEF AddToPlayhead, IInv, TakesTurns
  <2>2. EndAhead'
    <3> SUFFICES ASSUME NEW n \in sounding, ~moved, ~jumped
                 PROVE  playhead' <= End[n]
      BY <2>1 DEF EndAhead
    <3>1. n \in Notes /\ playhead \in 0..LastTick
      BY DEF IInv, TypeOK
    <3>2. CASE play_state # "rolling"
      BY <2>1, <3>2 DEF EndAhead
    <3>3. CASE play_state = "rolling"
      <4>1. End[n] > playhead + BlockTicks
        BY <2>1, <3>3 DEF EndsLater, AfterEvents
      <4> QED
        BY <2>1, <3>1, <3>3, <4>1, BlockType DEF Advanced
    <3> QED
      BY <3>2, <3>3
  <2> QED
    BY <2>1, <2>2 DEF NoNoteQueued, QueueOfBlock, EndsLater, FilledFromBlock, AfterEvents
<1> QED
  BY <1>1, <1>2, <1>3, <1>4, <1>5, <1>6 DEF Jack

\* The channel's thread, while the callback waits.
LEMMA ChannelNotes ==
  ASSUME IInv, NotesInv, Channel
  PROVE  NotesInv'
<1>0. jack = "wait"
  BY DEF IInv, TakesTurns, Channel, ChannelPanic, ChannelNoPanic, ChannelAsks, ResetQueue,
         FillEvents, Dequeue, ClearQueue
<1> USE DEF NotesInv, transport, midi, history
<1>1. CASE ChannelPanic
  BY <1>0, <1>1 DEF ChannelPanic, Panicked, NoNoteQueued, QueueOfBlock, EndsLater, EndAhead,
                    FilledFromBlock, AfterEvents
<1>2. CASE ChannelNoPanic
  BY <1>0, <1>2 DEF ChannelNoPanic, NoNoteQueued, QueueOfBlock, EndsLater, EndAhead,
                    FilledFromBlock, AfterEvents
<1>3. CASE ChannelAsks
  BY <1>0, <1>3 DEF ChannelAsks, NoNoteQueued, QueueOfBlock, EndsLater, EndAhead,
                    FilledFromBlock, AfterEvents
<1>4. CASE ResetQueue
  BY <1>0, <1>4 DEF ResetQueue, Emptied, NoNoteQueued, QueueOfBlock, EndsLater, EndAhead,
                    FilledFromBlock, AfterEvents
<1>5. CASE FillEvents
  <2>1. /\ queue.on = {} /\ queue.off = {} /\ channel = "fill" /\ channel' = "dequeue"
        /\ UNCHANGED <<play_state, playhead, sounding, jack, moved, jumped>>
    BY <1>5 DEF FillEvents, NoNoteQueued
  <2>2. queue' = [queue EXCEPT !.on = @ \cup OnsOfBlock, !.off = @ \cup OffsOfBlock]
    BY <1>5 DEF FillEvents, OnsOfBlock, OffsOfBlock
  <2>3. queue'.on = OnsOfBlock /\ queue'.off = queue.off \cup OffsOfBlock
    <3>1. queue \in [off_all : BOOLEAN, on : SUBSET Notes, off : SUBSET Notes]
      BY DEF IInv, TypeOK
    <3>2. \A on, off \in SUBSET Notes :
            LET q == [queue EXCEPT !.on = @ \cup on, !.off = @ \cup off]
            IN  q.on = queue.on \cup on /\ q.off = queue.off \cup off
      BY <3>1
    <3>3. OnsOfBlock \in SUBSET Notes /\ OffsOfBlock \in SUBSET Notes
      BY DEF OnsOfBlock, OffsOfBlock
    <3> QED
      BY <2>1, <2>2, <3>2, <3>3
  <2>4. OnsOfBlock' = OnsOfBlock /\ OffsOfBlock' = OffsOfBlock
    BY <2>1 DEF OnsOfBlock, OffsOfBlock, InBlock
  <2> QED
    BY <1>0, <2>1, <2>3, <2>4 DEF NoNoteQueued, QueueOfBlock, EndsLater, EndAhead,
                                  FilledFromBlock, AfterEvents
<1>6. CASE Dequeue
  <2>1. /\ channel = "dequeue" /\ channel' = "clear"
        /\ sounding' = ((IF queue.off_all THEN {} ELSE sounding) \cup queue.on) \ queue.off
        /\ moved' = (moved /\ sounding' # {})
        /\ jumped' = (jumped /\ sounding' # {})
        /\ UNCHANGED <<play_state, playhead, queue, jack, filled>>
    BY <1>6 DEF Dequeue
  <2>2. OnsOfBlock' = OnsOfBlock /\ OffsOfBlock' = OffsOfBlock
    BY <2>1 DEF OnsOfBlock, OffsOfBlock, InBlock
  <2>3. sounding' \subseteq Notes /\ playhead \in 0..LastTick
    BY <2>1 DEF IInv, TypeOK
  <2>4. \A n \in sounding' : moved => moved'
    BY <2>1
  <2>5. jumped => sounding' = {}
    BY <2>1 DEF IInv, OnItsWay
  <2>6. \A n \in sounding' : n \in queue.on /\ ~moved => playhead <= Start[n]
    BY <2>1 DEF QueueOfBlock, OnsOfBlock, InBlock
  <2>7. EndAhead'
    <3> SUFFICES ASSUME NEW n \in sounding', ~moved' PROVE playhead' <= End[n]
      BY DEF EndAhead
    <3>1. ~moved /\ ~jumped
      BY <2>4, <2>5
    <3>2. CASE n \in queue.on
      BY <2>1, <2>3, <2>6, <3>1, <3>2, BlockType
    <3>3. CASE n \notin queue.on
      BY <2>1, <3>1, <3>3 DEF EndAhead
    <3> QED
      BY <3>2, <3>3
  <2>8. EndsLater'
    <3> SUFFICES ASSUME NEW n \in sounding', ~moved', play_state = "rolling"
                 PROVE  End[n] > playhead + BlockTicks
      BY <2>1 DEF EndsLater
    <3>1. ~moved /\ playhead <= End[n]
      BY <2>1, <2>4, <2>5, <2>7 DEF EndAhead
    <3>2. n \notin OffsOfBlock
      BY <2>1, <3>1 DEF QueueOfBlock
    <3> QED
      BY <2>3, <3>1, <3>2, BlockType DEF OffsOfBlock, InBlock
  <2>9. FilledFromBlock'
    BY <2>1, <2>2 DEF FilledFromBlock
  <2> QED
    BY <2>1, <2>7, <2>8, <2>9 DEF NoNoteQueued, QueueOfBlock
<1>7. CASE ClearQueue
  BY <1>0, <1>7 DEF ClearQueue, Emptied, NoNoteQueued, QueueOfBlock, EndsLater, EndAhead,
                    FilledFromBlock, AfterEvents, OnsOfBlock, OffsOfBlock, InBlock
<1> QED
  BY <1>1, <1>2, <1>3, <1>4, <1>5, <1>6, <1>7 DEF Channel

\* The strengthened invariant about notes.
LEMMA NotesInvariance == Spec => []NotesInv
<1>1. IInv /\ NotesInv /\ [Next]_vars => NotesInv'
  <2> SUFFICES ASSUME IInv, NotesInv, [Next]_vars PROVE NotesInv'
    OBVIOUS
  <2>1. CASE UNCHANGED vars
    BY <2>1 DEF vars, transport, midi, history, NotesInv, NoNoteQueued, QueueOfBlock, EndsLater,
                EndAhead, FilledFromBlock, AfterEvents, OnsOfBlock, OffsOfBlock, InBlock
  <2> QED
    BY <2>1, JackNotes, ChannelNotes, UserNotes DEF Next
<1> QED
  BY InitNotes, Invariance, <1>1, PTL DEF Spec

\* No note hangs unless the user moves the playhead while it sounds, for any notes,
\* loop and block length (engine_post_process, instrument_track_fill_midi_events,
\* midi_events_dequeue, and the controls that change the transport meanwhile).
THEOREM NoNoteHangsCorrect == Spec => []NoNoteHangs
<1>1. IInv /\ NotesInv => NoNoteHangs
  BY DEF IInv, NotesInv, EndAhead, NoNoteHangs, OnItsWay
<1> QED
  BY <1>1, Invariance, NotesInvariance, PTL

\* The callback moves the playhead over no note that was not played, for any notes,
\* loop and block length (transport_add_to_playhead after channel_process).
THEOREM NoNoteIsSkippedCorrect == Spec => NoNoteIsSkipped
<1> DEFINE Played ==
             AddToPlayhead /\ playhead' # playhead /\ filled =>
               \A n \in Notes : playhead <= Start[n] /\ Start[n] <= playhead' =>
                 n \in sounding \/ End[n] <= playhead'
<1>1. IInv /\ NotesInv => Played
  <2> SUFFICES ASSUME IInv, NotesInv, AddToPlayhead, playhead' # playhead, filled,
                      NEW n \in Notes, playhead <= Start[n], Start[n] <= playhead', n \notin sounding
               PROVE  End[n] <= playhead'
    OBVIOUS
  <2>1. jack = "add" /\ playhead' = Advanced(playhead) /\ playhead \in 0..LastTick
    BY DEF AddToPlayhead, IInv, TypeOK
  <2>2. Start[n] <= playhead + BlockTicks
    BY <2>1, BlockType DEF Advanced
  <2>3. n \in OffsOfBlock
    BY <2>1, <2>2 DEF NotesInv, FilledFromBlock, AfterEvents, OnsOfBlock, InBlock
  <2> QED
    BY <2>1, <2>3, BlockType DEF OffsOfBlock, InBlock, Advanced
<1>2. IInv /\ NotesInv /\ [Next]_vars => [Played]_vars
  BY <1>1
<1> QED
  BY <1>2, Invariance, NotesInvariance, PTL DEF Spec, NoNoteIsSkipped
=============================================================================
