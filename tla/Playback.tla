------------------------------- MODULE Playback -------------------------------
(***************************************************************************)
(* Playing the notes of an instrument track: the transport (transport.c,   *)
(* and what engine.c does with it before and after a cycle), the events    *)
(* that the thread of the track's channel sends to its instrument          *)
(* (channel.c, instrument_track.c, midi.c), and the controls of the user   *)
(* interface, which share the transport with both and take no lock.        *)
(*                                                                         *)
(* A position is a number of ticks: position.c carries ticks into          *)
(* sixteenths, beats and bars, and computes the frames from them.  A note  *)
(* stands for its pitch.  That the channel processes once per cycle, while *)
(* the callback waits, is the subject of EngineCycle.                      *)
(*                                                                         *)
(* An operator whose name ends in Mutant is a mistake one could make in    *)
(* the definition that follows it.                                         *)
(***************************************************************************)
EXTENDS Integers

CONSTANTS
  Notes,          \* the notes of the track, of different pitches
  Start, End,     \* MidiNote.start_pos and end_pos
  LoopStart, LoopEnd, Cue,
  NFrames,        \* frames per cycle
  FramesPerTick,  \* AudioEngine.frames_per_tick
  LastTick,       \* bound: the playhead stays here once it arrives
  MaxPosts,       \* bound: more posts of Transport.paused are not counted
  Positions,      \* where the user drags the playhead on the ruler
  Controls        \* which controls the user touches

AllControls == {"play", "stop", "space", "loop", "ruler"}

ASSUME PlaybackAssumption ==
  /\ Start \in [Notes -> Nat] /\ End \in [Notes -> Nat]
  /\ \A n \in Notes : Start[n] <= End[n] /\ End[n] < LastTick
  /\ LoopStart \in Nat /\ LoopEnd \in Nat /\ LoopStart <= LoopEnd
  /\ Cue \in Nat /\ LastTick \in Nat /\ LoopEnd <= LastTick /\ Cue <= LastTick
  /\ NFrames \in Nat /\ FramesPerTick \in Nat \ {0} /\ FramesPerTick <= NFrames
  /\ MaxPosts \in Nat
  /\ Positions \subseteq 0..LastTick
  /\ Controls \subseteq AllControls

VARIABLES
  play_state, loop, playhead,
  paused,    \* Transport.paused, a semaphore
  panic,     \* AudioEngine.panic
  queue,     \* MidiEvents.queue of the piano roll: an all-notes-off, and then notes
  sounding,  \* the notes that the instrument plays
  jack,      \* where the callback is
  seen,      \* the play_state it read
  channel,   \* where the thread of the channel is
  filled,    \* history: the channel took the events at this playhead in this
             \* cycle, and the user did not replace them
  moved,     \* history: the user moved the playhead since the instrument was silent
  jumped,    \* history: the loop was left, and the instrument has not been silent since
  gtk        \* where the user interface is

transport == <<play_state, loop, playhead, paused>>
midi == <<panic, queue, sounding>>
history == <<filled, moved, jumped>>
vars == <<transport, midi, jack, seen, channel, history, gtk>>

States == {"roll_requested", "rolling", "pause_requested", "paused"}

\* A queue of one all-notes-off, and an empty one.
Panicked == [off_all |-> TRUE, on |-> {}, off |-> {}]
Emptied == [off_all |-> FALSE, on |-> {}, off |-> {}]

Init ==
  /\ play_state = "paused" /\ loop = TRUE /\ playhead = LoopStart /\ paused = 0
  /\ panic = FALSE /\ queue = Emptied /\ sounding = {}
  /\ jack = "idle" /\ seen = "paused"
  /\ channel = "idle" /\ filled = FALSE /\ moved = FALSE /\ jumped = FALSE
  /\ gtk = "idle"
-----------------------------------------------------------------------------
\* position_add_frames drops what is less than a tick.
BlockTicks == NFrames \div FramesPerTick
Advanced(pos) == IF pos + BlockTicks < LastTick THEN pos + BlockTicks ELSE LastTick

\* The loop would be left in the middle of this block: frames are compared.
AboutToExitLoop ==
  /\ playhead <= LoopEnd
  /\ playhead * FramesPerTick + NFrames > LoopEnd * FramesPerTick

\* sem_post
Posted == IF paused < MaxPosts THEN paused + 1 ELSE paused

\* engine_process_prepare reads the state ...
ReadState ==
  /\ jack = "idle"
  /\ seen' = play_state
  /\ jack' = "switch"
  /\ UNCHANGED <<transport, midi, channel, history, gtk>>

\* The request to roll is not answered.
SwitchStateMutant ==
  /\ jack = "switch"
  /\ IF seen = "pause_requested"
     THEN play_state' = "paused" /\ paused' = Posted
     ELSE UNCHANGED <<play_state, paused>>
  /\ jack' = "wait"
  /\ channel' = "start"
  /\ UNCHANGED <<loop, playhead, midi, seen, history, gtk>>

\* ... answers a request, and starts the cycle.
SwitchState ==
  /\ jack = "switch"
  /\ play_state' = CASE seen = "pause_requested" -> "paused"
                     [] seen = "roll_requested" -> "rolling"
                     [] OTHER -> play_state
  /\ paused' = IF seen = "pause_requested" THEN Posted ELSE paused
  /\ jack' = "wait"
  /\ channel' = "start"
  /\ UNCHANGED <<loop, playhead, midi, seen, history, gtk>>

\* mixer_process returns; engine_post_process stops panicking ...
StopPanicking ==
  /\ jack = "wait" /\ channel = "done"
  /\ panic' = FALSE
  /\ jack' = "advance"
  /\ channel' = "idle"
  /\ UNCHANGED <<transport, queue, sounding, seen, history, gtk>>

\* ... and decides about the playhead.
DecideAdvance ==
  /\ jack = "advance"
  /\ jack' = IF play_state # "rolling" THEN "idle"
             ELSE IF loop /\ AboutToExitLoop THEN "jump"
             ELSE "add"
  /\ UNCHANGED <<transport, midi, seen, channel, history, gtk>>

\* The playhead goes back by the length of the loop, before it is at its end.
WrapMutant ==
  /\ jack = "jump"
  /\ playhead' = playhead - (LoopEnd - LoopStart)
  /\ panic' = TRUE
  /\ jumped' = TRUE
  /\ jack' = "idle"
  /\ UNCHANGED <<play_state, loop, paused, queue, sounding, seen, channel, filled, moved, gtk>>

\* transport_move_playhead
JumpToLoopStart ==
  /\ jack = "jump"
  /\ playhead' = LoopStart
  /\ panic' = TRUE
  /\ jumped' = TRUE
  /\ jack' = "idle"
  /\ UNCHANGED <<play_state, loop, paused, queue, sounding, seen, channel, filled, moved, gtk>>

\* transport_add_to_playhead
AddToPlayhead ==
  /\ jack = "add"
  /\ playhead' = IF play_state = "rolling" THEN Advanced(playhead) ELSE playhead
  /\ jack' = "idle"
  /\ UNCHANGED <<play_state, loop, paused, midi, seen, channel, history, gtk>>
-----------------------------------------------------------------------------
\* The track plays on in the cycle that panics.
ChannelPanicMutant ==
  /\ channel = "start" /\ panic
  /\ queue' = Panicked
  /\ filled' = FALSE
  /\ channel' = "ask"
  /\ UNCHANGED <<moved, jumped, transport, panic, sounding, jack, seen, gtk>>

\* channel_process: a panic replaces what is queued ...
ChannelPanic ==
  /\ channel = "start" /\ panic
  /\ queue' = Panicked
  /\ filled' = FALSE
  /\ channel' = "dequeue"
  /\ UNCHANGED <<moved, jumped, transport, panic, sounding, jack, seen, gtk>>

ChannelNoPanic ==
  /\ channel = "start" /\ ~panic
  /\ channel' = "ask"
  /\ UNCHANGED <<transport, midi, jack, seen, history, gtk>>

\* ... and the track plays only when there is none.
ChannelAsks ==
  /\ channel = "ask"
  /\ channel' = IF play_state = "rolling" THEN "reset" ELSE "dequeue"
  /\ filled' = FALSE
  /\ UNCHANGED <<moved, jumped, transport, midi, jack, seen, gtk>>

\* instrument_track_fill_midi_events empties the queue ...
ResetQueue ==
  /\ channel = "reset"
  /\ queue' = Emptied
  /\ channel' = "fill"
  /\ UNCHANGED <<transport, panic, sounding, jack, seen, history, gtk>>

\* The end of the block belongs to the next block only.
InBlockMutant(pos) == playhead <= pos /\ pos < playhead + BlockTicks

\* Both ends of the block belong to it.
InBlock(pos) == playhead <= pos /\ pos <= playhead + BlockTicks

\* A note that begins in the block does not end in it.
FillEventsMutant ==
  /\ channel = "fill"
  /\ queue' = [queue EXCEPT !.on = @ \cup {n \in Notes : InBlock(Start[n])},
                            !.off = @ \cup {n \in Notes : InBlock(End[n]) /\ ~InBlock(Start[n])}]
  /\ filled' = TRUE
  /\ channel' = "dequeue"
  /\ UNCHANGED <<moved, jumped, transport, panic, sounding, jack, seen, gtk>>

\* ... and adds a note on and a note off for what begins and ends in the block.
FillEvents ==
  /\ channel = "fill"
  /\ queue' = [queue EXCEPT !.on = @ \cup {n \in Notes : InBlock(Start[n])},
                            !.off = @ \cup {n \in Notes : InBlock(End[n])}]
  /\ filled' = TRUE
  /\ channel' = "dequeue"
  /\ UNCHANGED <<moved, jumped, transport, panic, sounding, jack, seen, gtk>>

\* midi_events_dequeue copies the queue, for the instrument to play in order:
\* a note that begins and ends in one block begins first.
Dequeue ==
  /\ channel = "dequeue"
  /\ sounding' = ((IF queue.off_all THEN {} ELSE sounding) \cup queue.on) \ queue.off
  /\ moved' = (moved /\ sounding' # {})
  /\ jumped' = (jumped /\ sounding' # {})
  /\ channel' = "clear"
  /\ UNCHANGED <<transport, panic, queue, jack, seen, filled, gtk>>

\* Only then it empties the queue.
ClearQueue ==
  /\ channel = "clear"
  /\ queue' = Emptied
  /\ channel' = "done"
  /\ UNCHANGED <<transport, panic, sounding, jack, seen, history, gtk>>
-----------------------------------------------------------------------------
\* A click or a key: the handler reads the state, and acts on what it read.
Control(name) == name \in Controls /\ gtk = "idle"
GtkGoto(there) == gtk' = there /\ UNCHANGED <<midi, jack, seen, channel>>
MovePlayhead(pos) ==
  /\ playhead' = pos
  /\ filled' = FALSE /\ moved' = TRUE
  /\ UNCHANGED <<jumped, play_state, loop, paused>>

\* play_clicked_cb
PlayClicked ==
  /\ Control("play")
  /\ GtkGoto(IF play_state = "rolling" THEN "cue" ELSE "roll")
  /\ UNCHANGED <<transport, history>>

\* stop_clicked_cb
StopClicked ==
  /\ Control("stop")
  /\ GtkGoto(IF play_state = "paused" THEN "stop_cue" ELSE "stop")
  /\ UNCHANGED <<transport, history>>

\* key_release_cb of center_dock.c
SpaceReleased ==
  /\ Control("space")
  /\ play_state \in {"rolling", "paused"}
  /\ GtkGoto(IF play_state = "rolling" THEN "pause" ELSE "roll")
  /\ UNCHANGED <<transport, history>>

\* loop_toggled_cb
LoopToggled ==
  /\ Control("loop")
  /\ loop' = ~loop
  /\ UNCHANGED <<play_state, playhead, paused, midi, jack, seen, channel, history, gtk>>

\* drag_begin and drag_update of ruler.c move the playhead ...
RulerDragged(pos) ==
  /\ Control("ruler")
  /\ MovePlayhead(pos)
  /\ GtkGoto("panic")

\* ... and then panic.
Panic ==
  /\ gtk = "panic"
  /\ gtk' = "idle"
  /\ panic' = TRUE
  /\ UNCHANGED <<transport, queue, sounding, jack, seen, channel, history>>

\* transport_request_roll and transport_request_pause
Request(state) ==
  /\ play_state' = state
  /\ UNCHANGED <<loop, playhead, paused, history>>

RequestRoll == gtk = "roll" /\ Request("roll_requested") /\ GtkGoto("idle")
RequestPause == gtk = "pause" /\ Request("pause_requested") /\ GtkGoto("idle")
StopRequest == gtk = "stop" /\ Request("pause_requested") /\ GtkGoto("panic_all")

\* The playhead goes back to the cue.
GoToCue ==
  /\ gtk \in {"cue", "stop_cue"}
  /\ MovePlayhead(Cue)
  /\ GtkGoto(IF gtk = "stop_cue" THEN "panic_all" ELSE "idle")

\* midi_panic_all
PanicAll ==
  /\ gtk = "panic_all"
  /\ queue' = Panicked
  /\ filled' = FALSE
  /\ gtk' = "idle"
  /\ UNCHANGED <<transport, panic, sounding, jack, seen, channel, moved, jumped>>
-----------------------------------------------------------------------------
Jack ==
  \/ ReadState \/ SwitchState \/ StopPanicking
  \/ DecideAdvance \/ JumpToLoopStart \/ AddToPlayhead

Channel ==
  \/ ChannelPanic \/ ChannelNoPanic \/ ChannelAsks
  \/ ResetQueue \/ FillEvents \/ Dequeue \/ ClearQueue

User ==
  \/ PlayClicked \/ StopClicked \/ SpaceReleased \/ LoopToggled
  \/ \E pos \in Positions : RulerDragged(pos)

Handler == RequestRoll \/ RequestPause \/ StopRequest \/ GoToCue \/ PanicAll \/ Panic

Next == Jack \/ Channel \/ User \/ Handler

Spec == Init /\ [][Next]_vars

\* The callback, the thread of the channel and a handler that has begun go on.
FairSpec == Spec /\ WF_vars(Jack) /\ WF_vars(Channel) /\ WF_vars(Handler)
-----------------------------------------------------------------------------
TypeOK ==
  /\ play_state \in States /\ seen \in States
  /\ loop \in BOOLEAN /\ panic \in BOOLEAN /\ filled \in BOOLEAN /\ moved \in BOOLEAN /\ jumped \in BOOLEAN
  /\ playhead \in 0..LastTick /\ paused \in 0..MaxPosts
  /\ queue \in [off_all : BOOLEAN, on : SUBSET Notes, off : SUBSET Notes]
  /\ sounding \subseteq Notes
  /\ jack \in {"idle", "switch", "wait", "advance", "jump", "add"}
  /\ channel \in {"idle", "start", "ask", "reset", "fill", "dequeue", "clear", "done"}
  /\ gtk \in {"idle", "roll", "pause", "stop", "cue", "stop_cue", "panic_all", "panic"}

\* No note hangs unless the user moves the playhead while it sounds: the end of
\* each sounding note is still ahead of the playhead, or an all-notes-off is on
\* its way, however loop jumps, pauses in the middle of a cycle, toggles of the
\* loop and all-notes-offs of the user interface fall between the steps of the
\* callback and of the channel.
NoNoteHangs ==
  \A n \in sounding : playhead <= End[n] \/ panic \/ queue.off_all \/ moved

\* When the callback moves the playhead on, every note it passes has been played:
\* the state that the callback finds after a cycle is the one that the channel
\* found in it.  (Only a cycle that panics plays nothing.)
NoNoteIsSkipped ==
  [][AddToPlayhead /\ playhead' # playhead /\ filled =>
       \A n \in Notes : playhead <= Start[n] /\ Start[n] <= playhead' =>
         n \in sounding \/ End[n] <= playhead']_vars

\* No request stays with the callback for ever, whatever the user clicks meanwhile.
RequestsAnswered ==
  /\ play_state = "pause_requested" ~> play_state # "pause_requested"
  /\ play_state = "roll_requested" ~> play_state # "roll_requested"

\* After the jump at the end of the loop the first thing the instrument hears is an
\* all-notes-off, although two flags and a queue are on the way: what the callback
\* asks for is neither overtaken nor cleared before the channel sends it.
JumpSilences == [][jumped => sounding' \in {sounding, {}}]_vars

\* "send note off MIDI everywhere" (engine.h), "All sounds off" (midi.c): after the
\* stop button the track falls silent; when nobody has anything left to do and
\* the transport is paused, no note sounds.
SilentAfterStop ==
  (/\ play_state = "paused" /\ gtk = "idle" /\ jack = "idle"
   /\ ~panic /\ ~queue.off_all) => sounding = {}
=============================================================================
