----------------------------- MODULE EngineCycle -----------------------------
(***************************************************************************)
(* The processing cycle of the audio engine and everything that shares     *)
(* memory with it:                                                         *)
(*                                                                         *)
(*  - the JACK thread, which runs jack_process_cb once per period: prepare *)
(*    (take the lock, mark everything unprocessed), mixer_process (wait    *)
(*    for the channels, mix the master), post (give the lock back);        *)
(*  - one thread per channel, which polls channel->processed and runs      *)
(*    channel_process when it is 0;                                        *)
(*  - the GTK thread, which exports (the same cycle, driven from a loop),  *)
(*    drops a plugin on a slot under the lock, and adds or removes a       *)
(*    channel without it.                                                  *)
(*                                                                         *)
(* Audio data is left out: a buffer is only known as filled in this cycle  *)
(* or not ("done").  The transport and the port graph have modules of      *)
(* their own.                                                              *)
(*                                                                         *)
(* An operator whose name ends in Mutant is a mistake one could make in    *)
(* the action that follows it; no specification uses it.                   *)
(***************************************************************************)
EXTENDS Arrays

CONSTANTS
  Channels,        \* every channel other than the master, live or created later
  StripSize,       \* STRIP_SIZE, the slots of a channel strip
  InitialChannels, \* Mixer.channels when the engine starts, in array order
  InitialSources,  \* channels whose stereo_out feeds the stereo_in of a bus
  InitialStrip,    \* the <<channel, slot>> that hold a plugin at the start
  Buses,           \* channels of type CT_BUS
  Editable,        \* channels on which the user drops plugins
  Removable,       \* channels that the user deletes
  ExportBlocks     \* blocks between start marker and end marker

Slots == 1..StripSize
AnyChannel == CHOOSE c \in Channels : TRUE

ASSUME EngineAssumption ==
  /\ Channels # {}
  /\ StripSize \in Nat \ {0}
  /\ InitialChannels \in Seq(Channels) /\ Distinct(InitialChannels)
  /\ InitialSources \in [Channels -> Seq(Channels)]
  /\ InitialStrip \subseteq Channels \X Slots
  /\ Buses \subseteq Channels
  /\ Editable \subseteq Channels
  /\ Removable \subseteq Channels
  /\ ExportBlocks \in Nat

VARIABLES
  run,          \* AudioEngine.run
  lock,         \* AudioEngine.port_operation_lock, the semaphore's count
  channels,     \* Mixer.channels
  processed,    \* Channel.processed
  stop,         \* Channel.stop_thread
  strip,        \* the <<channel, slot>> that hold a plugin
  plProcessed,  \* Plugin.processed, by place in the strip
  feeds,        \* <<c, s, t>>: slot s of c is connected to slot t, or to Out(c)
  srcs,         \* Port.srcs of the stereo_in of each channel
  pc,           \* where the two threads that run cycles are
  i, j, cur,    \* the loops that reset the flags: indices and local channel
  blocks,       \* exported blocks: the playhead of the export
  edit,         \* the <<channel, slot>> that the GTK thread is editing
  tpc,          \* where each channel thread is
  k,            \* the source or the slot a channel thread is at
  done          \* channels that finished channel_process in this cycle

mixerVars  == <<channels, stop>>
wiringVars == <<strip, feeds, srcs>>
flagVars   == <<processed, plProcessed>>
driverVars == <<pc, i, j, cur, blocks, edit>>
threadVars == <<tpc, k>>
vars == <<run, lock, mixerVars, wiringVars, flagVars, driverVars, threadVars, done>>

Drivers == {"jack", "gtk"}
Out == StripSize + 1                    \* the stereo_out of the channel
Occupied(c) == {s \in Slots : <<c, s>> \in strip}
Fed(c, t) == {s \in Slots : <<c, s, t>> \in feeds}

\* A channel thread that is inside channel_process.
InProcess(c) == tpc[c] \in {"sum_in", "strip", "sum_out", "mark"}

\* A thread that has taken the semaphore and not given it back.
Critical(d) == pc[d] \in {"reset", "wait", "mix", "slot_edit"}

At(d, here) == pc[d] = here
Goto(d, there) == pc' = [pc EXCEPT ![d] = there]

\* How the plugins of a loaded channel are wired: each to the next occupied
\* slot, the last one to the stereo_out.
InitialFeeds ==
  {f \in {<<e[1], e[2], t>> : e \in InitialStrip, t \in 1..Out} :
     LET later == {e[2] : e \in {x \in InitialStrip : x[1] = f[1] /\ x[2] > f[2]}}
     IN  \/ later = {} /\ f[3] = Out
         \/ f[3] \in later /\ \A s \in later : f[3] <= s}

Init ==
  /\ run = TRUE
  /\ lock = 1
  /\ channels = InitialChannels
  /\ processed = [c \in Channels |-> TRUE]
  /\ stop = [c \in Channels |-> FALSE]
  /\ strip = InitialStrip
  /\ plProcessed = [e \in Channels \X Slots |-> TRUE]
  /\ feeds = InitialFeeds
  /\ srcs = InitialSources
  /\ pc = [d \in Drivers |-> "idle"]
  /\ i = 1 /\ j = 0 /\ cur = AnyChannel
  /\ blocks = 0
  /\ edit = <<AnyChannel, 1>>
  /\ tpc = [c \in Channels |->
              IF c \in Elements(InitialChannels) THEN "poll" ELSE "none"]
  /\ k = [c \in Channels |-> 1]
  /\ done = {}
-----------------------------------------------------------------------------
(***************************************************************************)
(* The cycle, as the JACK callback and the export loop run it.             *)
(***************************************************************************)
\* jack_process_cb returns at once when the engine must not run.
JackCallback ==
  /\ At("jack", "idle") /\ run
  /\ Goto("jack", "acquire")
  /\ UNCHANGED <<run, lock, mixerVars, wiringVars, flagVars, i, j, cur, blocks, edit,
                 threadVars, done>>

\* A new cycle starts: nobody has processed anything yet.
StartCycle == i' = 1 /\ j' = 0 /\ cur' = cur /\ done' = {}

\* zix_sem_wait in engine_process_prepare and in exporter_export.
Acquire(d) ==
  /\ At(d, "acquire") /\ lock > 0
  /\ lock' = lock - 1
  /\ Goto(d, "reset")
  /\ StartCycle
  /\ UNCHANGED <<run, mixerVars, wiringVars, flagVars, blocks, edit, threadVars>>

\* channel->processed = 0, for the channel at position i of the array ...
ResetChannel(d) ==
  /\ At(d, "reset") /\ i <= Len(channels) /\ j = 0
  /\ processed' = [processed EXCEPT ![channels[i]] = FALSE]
  /\ cur' = channels[i]
  /\ j' = 1
  /\ UNCHANGED <<run, lock, mixerVars, wiringVars, plProcessed, pc, i, blocks, edit,
                 threadVars, done>>

\* The loop over the strip runs up to and including STRIP_SIZE.
ResetSlotMutant(d) ==
  /\ At(d, "reset") /\ j \in Slots
  /\ j' = j + 1
  /\ UNCHANGED <<run, lock, mixerVars, wiringVars, flagVars, pc, i, cur, blocks, edit,
                 threadVars, done>>

\* ... and then, one after the other, the plugins of its strip.
ResetSlot(d) ==
  /\ At(d, "reset") /\ j \in Slots
  /\ plProcessed' = IF j \in Occupied(cur)
                    THEN [plProcessed EXCEPT ![<<cur, j>>] = FALSE]
                    ELSE plProcessed
  /\ IF j = StripSize THEN i' = i + 1 /\ j' = 0 ELSE i' = i /\ j' = j + 1
  /\ UNCHANGED <<run, lock, mixerVars, wiringVars, processed, pc, cur, blocks, edit,
                 threadVars, done>>

ResetDone(d) ==
  /\ At(d, "reset") /\ i > Len(channels) /\ j = 0
  /\ Goto(d, "wait")
  /\ UNCHANGED <<run, lock, mixerVars, wiringVars, flagVars, i, j, cur, blocks, edit,
                 threadVars, done>>

\* The wait forgets the last channel.
AllProcessedMutant(d) ==
  /\ At(d, "wait")
  /\ \A n \in 1..(Len(channels) - 1) : processed[channels[n]]
  /\ Goto(d, "mix")
  /\ UNCHANGED <<run, lock, mixerVars, wiringVars, flagVars, i, j, cur, blocks, edit,
                 threadVars, done>>

\* The busy wait of mixer_process and of the export, then the master.  The
\* scan of the array is one step: while a driver waits, flags only rise.
AllProcessed(d) ==
  /\ At(d, "wait")
  /\ \A n \in DOMAIN channels : processed[channels[n]]
  /\ Goto(d, "mix")
  /\ UNCHANGED <<run, lock, mixerVars, wiringVars, flagVars, i, j, cur, blocks, edit,
                 threadVars, done>>

\* engine_post_process gives the lock back.
JackPost ==
  /\ At("jack", "mix")
  /\ lock' = lock + 1
  /\ Goto("jack", "idle")
  /\ UNCHANGED <<run, mixerVars, wiringVars, flagVars, i, j, cur, blocks, edit,
                 threadVars, done>>

\* The export dialog stops the engine before it exports.
ExportStart ==
  /\ At("gtk", "idle")
  /\ run' = FALSE
  /\ blocks' = 0
  /\ Goto("gtk", "acquire")
  /\ UNCHANGED <<lock, mixerVars, wiringVars, flagVars, i, j, cur, edit, threadVars, done>>

\* The playhead is still inside the range: another block, under the same lock.
ExportNext ==
  /\ At("gtk", "mix") /\ blocks < ExportBlocks
  /\ blocks' = blocks + 1
  /\ Goto("gtk", "reset")
  /\ StartCycle
  /\ UNCHANGED <<run, lock, mixerVars, wiringVars, flagVars, edit, threadVars>>

\* The export returns without zix_sem_post.
ExportEndMutant ==
  /\ At("gtk", "mix") /\ blocks >= ExportBlocks
  /\ run' = TRUE
  /\ Goto("gtk", "idle")
  /\ UNCHANGED <<lock, mixerVars, wiringVars, flagVars, i, j, cur, blocks, edit,
                 threadVars, done>>

ExportEnd ==
  /\ At("gtk", "mix") /\ blocks >= ExportBlocks
  /\ lock' = lock + 1
  /\ run' = TRUE
  /\ Goto("gtk", "idle")
  /\ UNCHANGED <<mixerVars, wiringVars, flagVars, i, j, cur, blocks, edit, threadVars, done>>
-----------------------------------------------------------------------------
(***************************************************************************)
(* Edits of the GTK thread.                                                *)
(***************************************************************************)
\* A plugin is dropped on a slot of the mixer and has been instantiated.
SlotDrop(c, s) ==
  /\ At("gtk", "idle") /\ c \in Elements(channels)
  /\ edit' = <<c, s>>
  /\ Goto("gtk", "slot_wait")
  /\ UNCHANGED <<run, lock, mixerVars, wiringVars, flagVars, i, j, cur, blocks,
                 threadVars, done>>

\* The result of a failed wait is ignored.
SlotLockMutant ==
  /\ At("gtk", "slot_wait")
  /\ lock' = IF lock > 0 THEN lock - 1 ELSE lock
  /\ Goto("gtk", "slot_edit")
  /\ UNCHANGED <<run, mixerVars, wiringVars, flagVars, i, j, cur, blocks, edit,
                 threadVars, done>>

SlotLock ==
  /\ At("gtk", "slot_wait") /\ lock > 0
  /\ lock' = lock - 1
  /\ Goto("gtk", "slot_edit")
  /\ UNCHANGED <<run, mixerVars, wiringVars, flagVars, i, j, cur, blocks, edit,
                 threadVars, done>>

\* port_disconnect_all deletes while it walks forward, so it skips the source
\* that moves into the hole: the sources at even positions stay.
AfterDisconnectAll(ports) == [n \in 1..(Len(ports) \div 2) |-> ports[2 * n]]

\* channel_add_plugin: what was in the slot is freed, with its connections; the
\* new plugin is wired between its neighbours, which stay connected to what
\* they were connected to.  The first plugin of a bus takes over its stereo_in.
AddPlugin(c, s) ==
  LET later   == {x \in Occupied(c) : x > s}
      earlier == {x \in Occupied(c) : x < s}
      kept    == {f \in feeds : ~(f[1] = c /\ s \in {f[2], f[3]})}
      target  == IF later = {} THEN Out ELSE CHOOSE x \in later : \A y \in later : x <= y
      source  == {x \in earlier : \A y \in earlier : y <= x}
  IN  /\ strip' = strip \cup {<<c, s>>}
      /\ feeds' = kept \cup {<<c, s, target>>} \cup {<<c, x, s>> : x \in source}
      /\ plProcessed' = [plProcessed EXCEPT ![<<c, s>>] = TRUE]
      /\ srcs' = IF c \in Buses /\ earlier = {}
                 THEN [srcs EXCEPT ![c] = AfterDisconnectAll(@)]
                 ELSE srcs

SlotAdd ==
  /\ At("gtk", "slot_edit")
  /\ AddPlugin(edit[1], edit[2])
  /\ lock' = lock + 1
  /\ Goto("gtk", "idle")
  /\ UNCHANGED <<run, mixerVars, processed, i, j, cur, blocks, edit, threadVars, done>>

\* channel_create starts the thread of the channel (setup_thread) ...
CreateChannel(c) ==
  /\ At("gtk", "idle") /\ tpc[c] = "none"
  /\ processed' = [processed EXCEPT ![c] = TRUE]
  /\ stop' = [stop EXCEPT ![c] = FALSE]
  /\ tpc' = [tpc EXCEPT ![c] = "poll"]
  /\ edit' = <<c, 1>>
  /\ Goto("gtk", "created")
  /\ UNCHANGED <<run, lock, channels, wiringVars, plProcessed, i, j, cur, blocks, k, done>>

\* ... mixer_add_channel makes the engine see it ...
MixerAddChannel ==
  /\ At("gtk", "created")
  /\ channels' = ArrayAppend(channels, edit[1])
  /\ Goto("gtk", "add_plugin")
  /\ UNCHANGED <<run, lock, stop, wiringVars, flagVars, i, j, cur, blocks, edit,
                 threadVars, done>>

\* ... and only then the plugin is put in its first slot, without the lock.
AddFirstPlugin ==
  /\ At("gtk", "add_plugin")
  /\ AddPlugin(edit[1], edit[2])
  /\ Goto("gtk", "idle")
  /\ UNCHANGED <<run, lock, mixerVars, processed, i, j, cur, blocks, edit, threadVars, done>>

\* mixer_remove_channel: no lock is taken.
MixerRemoveChannel(c) ==
  /\ At("gtk", "idle") /\ c \in Elements(channels)
  /\ run' = FALSE
  /\ stop' = [stop EXCEPT ![c] = TRUE]
  /\ edit' = <<c, 1>>
  /\ Goto("gtk", "remove")
  /\ UNCHANGED <<lock, channels, wiringVars, flagVars, i, j, cur, blocks, threadVars, done>>

DeleteFromMixer ==
  /\ At("gtk", "remove")
  /\ channels' = ArrayDelete(channels, edit[1])
  /\ Goto("gtk", "free")
  /\ UNCHANGED <<run, lock, stop, wiringVars, flagVars, i, j, cur, blocks, edit,
                 threadVars, done>>

\* channel_free: plugins and ports are freed, and leave the ports they were
\* connected to; the Channel itself is never freed.
ChannelFree ==
  /\ At("gtk", "free")
  /\ srcs' = [b \in Channels |-> ArrayDelete(srcs[b], edit[1])]
  /\ Goto("gtk", "idle")
  /\ UNCHANGED <<run, lock, channels, stop, strip, feeds, flagVars, i, j, cur, blocks, edit,
                 threadVars, done>>
-----------------------------------------------------------------------------
(***************************************************************************)
(* The thread of a channel.  After a channel is freed its thread may go on *)
(* with what it was doing; that is one of the outcomes of the undefined    *)
(* behaviour, and the one modelled.                                        *)
(***************************************************************************)
ThreadGoto(c, there) == tpc' = [tpc EXCEPT ![c] = there]
ThreadOnly == UNCHANGED <<run, lock, mixerVars, wiringVars, driverVars>>

PollStop(c) ==
  /\ tpc[c] = "poll"
  /\ ThreadGoto(c, IF stop[c] THEN "exit" ELSE "test")
  /\ ThreadOnly /\ UNCHANGED <<flagVars, k, done>>

\* Enter channel_process, or sleep and poll again.  (nframes > 0: JACK reports
\* its buffer size before it calls the process callback.)
TestProcessed(c) ==
  /\ tpc[c] = "test"
  /\ ThreadGoto(c, IF processed[c] THEN "poll" ELSE "sum_in")
  /\ k' = [k EXCEPT ![c] = 1]
  /\ ThreadOnly /\ UNCHANGED <<flagVars, done>>

\* The owner of the port is waited for, not the owner of its source.
SumSourceMutant(c) ==
  /\ tpc[c] = "sum_in" /\ k[c] <= Len(srcs[c])
  /\ processed[c]
  /\ k' = [k EXCEPT ![c] = @ + 1]
  /\ ThreadOnly /\ UNCHANGED <<flagVars, tpc, done>>

\* port_sum_signal_from_inputs on stereo_in: wait for the owner of each source.
SumSource(c) ==
  /\ tpc[c] = "sum_in" /\ k[c] <= Len(srcs[c])
  /\ processed[srcs[c][k[c]]]
  /\ k' = [k EXCEPT ![c] = @ + 1]
  /\ ThreadOnly /\ UNCHANGED <<flagVars, tpc, done>>

SumInDone(c) ==
  /\ tpc[c] = "sum_in" /\ k[c] > Len(srcs[c])
  /\ ThreadGoto(c, "strip")
  /\ k' = [k EXCEPT ![c] = 1]
  /\ ThreadOnly /\ UNCHANGED <<flagVars, done>>

\* One slot of the strip: wait for the plugins that feed it, then
\* plugin_process, which ends by marking the plugin.
RunSlot(c) ==
  /\ tpc[c] = "strip" /\ k[c] \in Occupied(c)
  /\ \A s \in Fed(c, k[c]) : plProcessed[<<c, s>>]
  /\ plProcessed' = [plProcessed EXCEPT ![<<c, k[c]>>] = TRUE]
  /\ k' = [k EXCEPT ![c] = @ + 1]
  /\ ThreadOnly /\ UNCHANGED <<processed, tpc, done>>

SkipSlot(c) ==
  /\ tpc[c] = "strip" /\ k[c] \in Slots \ Occupied(c)
  /\ k' = [k EXCEPT ![c] = @ + 1]
  /\ ThreadOnly /\ UNCHANGED <<flagVars, tpc, done>>

StripDone(c) ==
  /\ tpc[c] = "strip" /\ k[c] > StripSize
  /\ ThreadGoto(c, "sum_out")
  /\ ThreadOnly /\ UNCHANGED <<flagVars, k, done>>

\* The sum of stereo_out waits for the plugins that are connected to it.
SumOut(c) ==
  /\ tpc[c] = "sum_out"
  /\ \A s \in Fed(c, Out) : plProcessed[<<c, s>>]
  /\ ThreadGoto(c, "mark")
  /\ ThreadOnly /\ UNCHANGED <<flagVars, k, done>>

\* The end of channel_process ...
Mark(c) ==
  /\ tpc[c] = "mark"
  /\ processed' = [processed EXCEPT ![c] = TRUE]
  /\ done' = done \cup {c}
  /\ ThreadGoto(c, "mark_again")
  /\ ThreadOnly /\ UNCHANGED <<plProcessed, k>>

\* The second assignment makes the channel ready for the next cycle.
MarkAgainMutant(c) ==
  /\ tpc[c] = "mark_again"
  /\ processed' = [processed EXCEPT ![c] = FALSE]
  /\ ThreadGoto(c, "poll")
  /\ ThreadOnly /\ UNCHANGED <<plProcessed, k, done>>

\* ... and the second assignment, in process_channel_work.
MarkAgain(c) ==
  /\ tpc[c] = "mark_again"
  /\ processed' = [processed EXCEPT ![c] = TRUE]
  /\ ThreadGoto(c, "poll")
  /\ ThreadOnly /\ UNCHANGED <<plProcessed, k, done>>
-----------------------------------------------------------------------------
Cycle(d) ==
  \/ Acquire(d) \/ ResetChannel(d) \/ ResetSlot(d) \/ ResetDone(d) \/ AllProcessed(d)

Jack == JackCallback \/ Cycle("jack") \/ JackPost

\* What the user may start, and the rest of what the GTK thread does with it.
UserRequest ==
  \/ ExportStart
  \/ \E c \in Editable, s \in Slots : SlotDrop(c, s)
  \/ \E c \in Channels : CreateChannel(c)
  \/ \E c \in Removable : MixerRemoveChannel(c)

GtkWork ==
  \/ Cycle("gtk") \/ ExportNext \/ ExportEnd
  \/ SlotLock \/ SlotAdd
  \/ MixerAddChannel \/ AddFirstPlugin
  \/ DeleteFromMixer \/ ChannelFree

ChannelThread(c) ==
  \/ PollStop(c) \/ TestProcessed(c)
  \/ SumSource(c) \/ SumInDone(c)
  \/ RunSlot(c) \/ SkipSlot(c) \/ StripDone(c)
  \/ SumOut(c) \/ Mark(c) \/ MarkAgain(c)

Next == Jack \/ UserRequest \/ GtkWork \/ \E c \in Channels : ChannelThread(c)

Spec == Init /\ [][Next]_vars

\* Every thread keeps running, and a thread blocked on the semaphore is
\* eventually the one that a post wakes.
Fairness ==
  /\ WF_vars(Jack) /\ WF_vars(GtkWork)
  /\ \A c \in Channels : WF_vars(ChannelThread(c))
  /\ \A d \in Drivers : SF_vars(Acquire(d))
  /\ SF_vars(SlotLock)

FairSpec == Spec /\ Fairness
-----------------------------------------------------------------------------
ControlTypes ==
  /\ run \in BOOLEAN
  /\ lock \in 0..1
  /\ pc \in [Drivers -> {"idle", "acquire", "reset", "wait", "mix", "slot_wait",
                         "slot_edit", "created", "add_plugin", "remove", "free"}]
  /\ i \in Nat \ {0} /\ j \in 0..StripSize /\ cur \in Channels
  /\ blocks \in 0..ExportBlocks
  /\ edit \in Channels \X Slots

MixerTypes ==
  /\ channels \in Seq(Channels)
  /\ stop \in [Channels -> BOOLEAN]
  /\ strip \subseteq Channels \X Slots
  /\ feeds \subseteq Channels \X Slots \X (1..Out)
  /\ srcs \in [Channels -> Seq(Channels)]

FlagTypes ==
  /\ processed \in [Channels -> BOOLEAN]
  /\ plProcessed \in [Channels \X Slots -> BOOLEAN]
  /\ done \subseteq Channels

ThreadTypes ==
  /\ tpc \in [Channels -> {"none", "poll", "test", "sum_in", "strip", "sum_out", "mark",
                           "mark_again", "exit"}]
  /\ k \in [Channels -> Nat \ {0}]

TypeOK == ControlTypes /\ MixerTypes /\ FlagTypes /\ ThreadTypes

\* The semaphore is a mutex: its count and the threads between its wait and its
\* post always add up to one.  (engine_process_prepare to engine_post_process,
\* the export loop, the slot drop.)
LockExclusion ==
  /\ lock = 1 => \A d \in Drivers : ~Critical(d)
  /\ lock = 0 => Critical("jack") # Critical("gtk")

\* While the callback or the export mixes the master, no thread of a channel in
\* the mixer is inside channel_process: what mixer_process waits for is over.
MasterMixesAlone ==
  \A d \in Drivers : At(d, "mix") => \A c \in Elements(channels) : ~InProcess(c)

\* While channel_slot.c rewires a strip under the lock, no thread of a channel in
\* the mixer is inside channel_process, although those threads never lock.
EditsAlone ==
  At("gtk", "slot_edit") => \A c \in Elements(channels) : ~InProcess(c)

\* A thread enters channel_process at most once in a cycle: two writes of the flag
\* and one reset never add up to a second round over the same buffers.
OncePerCycle ==
  [][\A c \in Channels : ~InProcess(c) /\ InProcess(c)' => c \notin done]_vars

\* "When every channel has finished processing, the signals are summed and sent to
\* Jack" (mixer.h): the master is only mixed when each channel in the mixer has
\* processed in this cycle.
EveryChannelMixed ==
  \A d \in Drivers : At(d, "mix") => Elements(channels) \subseteq done

\* "wait for channels to finish processing" (mixer.c): the wait ends.
CycleCompletes == \A d \in Drivers : At(d, "wait") ~> At(d, "mix")

\* An export that waits for the lock of a running engine ends.
ExportCompletes == At("gtk", "acquire") ~> At("gtk", "idle")
=============================================================================
