------------------------- MODULE EngineCycle_proofs -------------------------
(***************************************************************************)
(* For every set of channels, routing, strip size and export length: the   *)
(* types of EngineCycle, the lock, and what the busy wait on               *)
(* channel->processed buys although the channel threads never lock.        *)
(***************************************************************************)
EXTENDS EngineCycle, Operators_proofs

\* How the processed flag, the thread of the channel and the cycle hang
\* together: a thread is inside channel_process only with its flag down, and the
\* flag of a channel in the mixer is down only while somebody runs the part of
\* a cycle between the reset of the flags and the end of the wait.
DownInProcess == \A c \in Channels : InProcess(c) => ~processed[c]

DownInCycle ==
  \A c \in Elements(channels) :
    ~processed[c] => \E d \in Drivers : pc[d] \in {"reset", "wait"}

\* A channel whose thread was just created is not yet in the mixer, so nobody has
\* reset its flag.
CreatedInv ==
  /\ \A c \in Elements(channels) : tpc[c] # "none"
  /\ At("gtk", "created") => /\ tpc[edit[1]] # "none"
                            /\ processed[edit[1]]
                            /\ edit[1] \notin Elements(channels)

\* What the reset loop still has in front of it.
ToReset(n) == n > i \/ (n = i /\ j = 0)

\* A channel that has processed in this cycle keeps its flag up until the next
\* one: the loop that lowers the flags meets no channel twice, since the array
\* holds no channel twice and a deletion only moves channels towards the part of
\* the array the loop has left behind.
ResetOnce ==
  /\ Distinct(channels)
  /\ \A c \in done : processed[c] /\ tpc[c] # "none"
  /\ \A d \in Drivers : At(d, "reset") =>
       \A n \in DOMAIN channels :
         ToReset(n) => channels[n] \notin done /\ processed[channels[n]]
  /\ At("gtk", "created") => edit[1] \notin done

IInv ==
  /\ TypeOK /\ LockExclusion /\ DownInProcess /\ DownInCycle /\ CreatedInv
  /\ ResetOnce

\* Two threads are never between a wait and a post of the semaphore.
LEMMA OneCritical ==
  ASSUME TypeOK, LockExclusion
  PROVE  ~(Critical("jack") /\ Critical("gtk"))
<1>1. lock = 0 \/ lock = 1
  BY DEF TypeOK, ControlTypes
<1> QED
  BY <1>1 DEF LockExclusion, Drivers, Critical

\* The sources that port_disconnect_all leaves behind are sources it found.
LEMMA DisconnectAllType ==
  ASSUME NEW S, NEW ports \in Seq(S)
  PROVE  AfterDisconnectAll(ports) \in Seq(S)
<1>1. Len(ports) \in Nat
  OBVIOUS
<1>2. Len(ports) \div 2 \in Nat /\ 2 * (Len(ports) \div 2) <= Len(ports)
  BY <1>1
<1>3. \A n \in 1..(Len(ports) \div 2) : ports[2 * n] \in S
  BY <1>1, <1>2
<1> QED
  BY <1>2, <1>3 DEF AfterDisconnectAll

\* channel_add_plugin keeps the types of what it rewires.
LEMMA AddPluginType ==
  ASSUME TypeOK, NEW c \in Channels, NEW s \in Slots, AddPlugin(c, s)
  PROVE  /\ strip' \subseteq Channels \X Slots
         /\ feeds' \subseteq Channels \X Slots \X (1..Out)
         /\ plProcessed' \in [Channels \X Slots -> BOOLEAN]
         /\ srcs' \in [Channels -> Seq(Channels)]
<1> USE EngineAssumption DEF TypeOK, MixerTypes, FlagTypes
<1>1. strip' \subseteq Channels \X Slots
  BY DEF AddPlugin
<1>2. plProcessed' \in [Channels \X Slots -> BOOLEAN]
  BY DEF AddPlugin
<1>3. srcs' \in [Channels -> Seq(Channels)]
  BY DisconnectAllType DEF AddPlugin
<1>4. feeds' \subseteq Channels \X Slots \X (1..Out)
  <2> DEFINE later == {x \in Occupied(c) : x > s}
             target == IF later = {} THEN Out ELSE CHOOSE x \in later : \A y \in later : x <= y
  <2>1. later \in SUBSET Slots /\ Slots \in SUBSET Nat
    BY DEF Occupied, Slots
  <2>2. later # {} => target \in later
    BY <2>1, LeastNatural
  <2>4. Slots \subseteq 1..Out /\ Out \in 1..Out
    BY DEF Slots, Out
  <2>9. later = {} => target = Out
    OBVIOUS
  <2> HIDE DEF target
  <2>3. target \in 1..Out
    BY <2>1, <2>2, <2>4, <2>9
  <2> HIDE DEF later
  <2>5. ASSUME NEW f \in {<<c, x, s>> : x \in Occupied(c)}
        PROVE  f \in Channels \X Slots \X (1..Out)
    <3>1. PICK x \in Occupied(c) : f = <<c, x, s>>
      OBVIOUS
    <3>2. x \in Slots /\ s \in 1..Out
      BY <2>4 DEF Occupied
    <3> HIDE DEF TypeOK, MixerTypes
    <3> QED
      BY <3>1, <3>2
  <2>6. {<<c, s, target>>} \subseteq Channels \X Slots \X (1..Out)
    BY <2>3
  <2>7. feeds' \subseteq feeds \cup {<<c, s, target>>} \cup {<<c, x, s>> : x \in Occupied(c)}
    BY DEF AddPlugin, target, later
  <2>8. feeds \subseteq Channels \X Slots \X (1..Out)
    OBVIOUS
  <2> HIDE DEF TypeOK, MixerTypes
  <2> QED
    BY <2>5, <2>6, <2>7, <2>8
<1> QED
  BY <1>1, <1>2, <1>3, <1>4
-----------------------------------------------------------------------------
(***************************************************************************)
(* Types, one lemma for each part of the state.  A post raises the         *)
(* semaphore only when it is down, which takes the lock invariant.         *)
(***************************************************************************)
LEMMA TypeInit == Init => TypeOK
<1> SUFFICES ASSUME Init PROVE TypeOK
  OBVIOUS
<1> USE EngineAssumption DEF Init
<1>1. ControlTypes
  BY DEF ControlTypes, Slots, AnyChannel, Drivers
<1>2. MixerTypes
  BY DEF MixerTypes, InitialFeeds, Slots, Out
<1>3. FlagTypes /\ ThreadTypes
  BY DEF FlagTypes, ThreadTypes
<1> QED
  BY <1>1, <1>2, <1>3 DEF TypeOK

\* The two drivers, the lock and the loop variables.
LEMMA ControlStep ==
  ASSUME TypeOK, LockExclusion, [Next]_vars
  PROVE  ControlTypes'
<1>0. /\ StripSize \in Nat \ {0} /\ ExportBlocks \in Nat /\ 1 \in Slots
      /\ Editable \subseteq Channels /\ Removable \subseteq Channels
  BY EngineAssumption DEF Slots
<1> USE <1>0 DEF TypeOK, ControlTypes, At, Goto, Drivers,
            mixerVars, wiringVars, flagVars, driverVars, threadVars
<1>1. ASSUME NEW d \in Drivers, Acquire(d)
      PROVE  ControlTypes'
  <2>1. lock' \in 0..1
    BY <1>1 DEF Acquire, StartCycle
  <2>2. pc' \in [Drivers -> {"idle", "acquire", "reset", "wait", "mix", "slot_wait",
                         "slot_edit", "created", "add_plugin", "remove", "free"}]
    BY <1>1 DEF Acquire, StartCycle
  <2>3. run' \in BOOLEAN /\ blocks' \in 0..ExportBlocks /\ edit' \in Channels \X Slots
    BY <1>1 DEF Acquire, StartCycle
  <2>4. i' \in Nat \ {0} /\ j' \in 0..StripSize /\ cur' \in Channels
    BY <1>1 DEF Acquire, StartCycle
  <2> QED
    BY <2>1, <2>2, <2>3, <2>4
<1>2. ASSUME NEW d \in Drivers, ResetChannel(d)
      PROVE  ControlTypes'
  BY <1>2 DEF ResetChannel, MixerTypes
<1>3. ASSUME NEW d \in Drivers, ResetSlot(d)
      PROVE  ControlTypes'
  <2>1. lock' \in 0..1
    BY <1>3 DEF ResetSlot, MixerTypes
  <2>2. pc' \in [Drivers -> {"idle", "acquire", "reset", "wait", "mix", "slot_wait",
                         "slot_edit", "created", "add_plugin", "remove", "free"}]
    BY <1>3 DEF ResetSlot, MixerTypes
  <2>3. run' \in BOOLEAN /\ blocks' \in 0..ExportBlocks /\ edit' \in Channels \X Slots
    BY <1>3 DEF ResetSlot, MixerTypes
  <2>4. i' \in Nat \ {0} /\ j' \in 0..StripSize /\ cur' \in Channels
    BY <1>3 DEF ResetSlot, MixerTypes, Slots
  <2> QED
    BY <2>1, <2>2, <2>3, <2>4
<1>4. ASSUME NEW d \in Drivers, ResetDone(d)
      PROVE  ControlTypes'
  BY <1>4 DEF ResetDone
<1>5. ASSUME NEW d \in Drivers, AllProcessed(d)
      PROVE  ControlTypes'
  BY <1>5 DEF AllProcessed
<1>6. CASE JackCallback
  BY <1>6 DEF JackCallback
<1>7. CASE JackPost
  BY <1>7 DEF JackPost, LockExclusion, Critical
<1>8. CASE ExportStart
  <2>1. lock' \in 0..1
    BY <1>8 DEF ExportStart
  <2>2. pc' \in [Drivers -> {"idle", "acquire", "reset", "wait", "mix", "slot_wait",
                         "slot_edit", "created", "add_plugin", "remove", "free"}]
    BY <1>8 DEF ExportStart
  <2>3. run' \in BOOLEAN /\ blocks' \in 0..ExportBlocks /\ edit' \in Channels \X Slots
    <3>1. blocks' = 0 /\ run' = FALSE /\ edit' = edit
      BY <1>8 DEF ExportStart
    <3>2. 0 \in 0..ExportBlocks
      BY <1>0
    <3>3. edit \in Channels \X Slots
      OBVIOUS
    <3> HIDE DEF TypeOK, ControlTypes
    <3> QED
      BY <3>1, <3>2, <3>3
  <2>4. i' \in Nat \ {0} /\ j' \in 0..StripSize /\ cur' \in Channels
    BY <1>8 DEF ExportStart
  <2> QED
    BY <2>1, <2>2, <2>3, <2>4
<1>9. CASE ExportNext
  <2>1. lock' \in 0..1
    BY <1>9 DEF ExportNext, StartCycle
  <2>2. pc' \in [Drivers -> {"idle", "acquire", "reset", "wait", "mix", "slot_wait",
                         "slot_edit", "created", "add_plugin", "remove", "free"}]
    BY <1>9 DEF ExportNext, StartCycle
  <2>3. run' \in BOOLEAN /\ blocks' \in 0..ExportBlocks /\ edit' \in Channels \X Slots
    BY <1>9 DEF ExportNext, StartCycle
  <2>4. i' \in Nat \ {0} /\ j' \in 0..StripSize /\ cur' \in Channels
    BY <1>9 DEF ExportNext, StartCycle
  <2> QED
    BY <2>1, <2>2, <2>3, <2>4
<1>10. CASE ExportEnd
  <2>1. lock' \in 0..1
    BY <1>10 DEF ExportEnd, LockExclusion, Critical
  <2>2. pc' \in [Drivers -> {"idle", "acquire", "reset", "wait", "mix", "slot_wait",
                         "slot_edit", "created", "add_plugin", "remove", "free"}]
    BY <1>10 DEF ExportEnd, LockExclusion, Critical
  <2>3. run' \in BOOLEAN /\ blocks' \in 0..ExportBlocks /\ edit' \in Channels \X Slots
    BY <1>10 DEF ExportEnd, LockExclusion, Critical
  <2>4. i' \in Nat \ {0} /\ j' \in 0..StripSize /\ cur' \in Channels
    BY <1>10 DEF ExportEnd, LockExclusion, Critical
  <2> QED
    BY <2>1, <2>2, <2>3, <2>4
<1>11. CASE SlotLock
  BY <1>11 DEF SlotLock
<1>12. CASE SlotAdd
  BY <1>12 DEF SlotAdd, LockExclusion, Critical
<1>13. CASE MixerAddChannel
  BY <1>13 DEF MixerAddChannel
<1>14. CASE AddFirstPlugin
  BY <1>14 DEF AddFirstPlugin
<1>15. CASE DeleteFromMixer
  BY <1>15 DEF DeleteFromMixer
<1>16. CASE ChannelFree
  BY <1>16 DEF ChannelFree
<1>17. ASSUME NEW c \in Editable, NEW s \in Slots, SlotDrop(c, s)
      PROVE  ControlTypes'
  BY <1>17 DEF SlotDrop
<1>18. ASSUME NEW c \in Channels, CreateChannel(c)
      PROVE  ControlTypes'
  BY <1>18 DEF CreateChannel
<1>19. ASSUME NEW c \in Removable, MixerRemoveChannel(c)
      PROVE  ControlTypes'
  BY <1>19 DEF MixerRemoveChannel
<1>20. ASSUME NEW c \in Channels, ChannelThread(c)
      PROVE  ControlTypes'
  BY <1>20 DEF ChannelThread, PollStop, TestProcessed, SumSource, SumInDone, RunSlot,
       SkipSlot, StripDone, SumOut, Mark, MarkAgain, ThreadOnly
<1>21. CASE UNCHANGED vars
  BY <1>21 DEF vars
<1> QED
  BY <1>1, <1>2, <1>3, <1>4, <1>5, <1>6, <1>7, <1>8, <1>9, <1>10, <1>11, <1>12, <1>13,
       <1>14, <1>15, <1>16, <1>17, <1>18, <1>19, <1>20, <1>21 DEF Next, Jack,
       UserRequest, GtkWork, Cycle

\* The array of channels and the wiring.
LEMMA MixerStep ==
  ASSUME TypeOK, [Next]_vars
  PROVE  MixerTypes'
<1> USE DEF TypeOK, MixerTypes, At, Goto, Drivers,
            mixerVars, wiringVars, flagVars, driverVars, threadVars
<1>1. CASE SlotAdd
  BY <1>1, AddPluginType DEF SlotAdd, ControlTypes
<1>2. CASE MixerAddChannel
  BY <1>2, AppendAdds DEF MixerAddChannel, ControlTypes
<1>3. CASE AddFirstPlugin
  BY <1>3, AddPluginType DEF AddFirstPlugin, ControlTypes
<1>4. CASE DeleteFromMixer
  BY <1>4, DeleteShrinks DEF DeleteFromMixer, ControlTypes
<1>5. CASE ChannelFree
  BY <1>5, DeleteShrinks DEF ChannelFree, ControlTypes
<1>6. ASSUME NEW c \in Channels, CreateChannel(c)
      PROVE  MixerTypes'
  BY <1>6 DEF CreateChannel
<1>7. ASSUME NEW c \in Removable, MixerRemoveChannel(c)
      PROVE  MixerTypes'
  BY <1>7 DEF MixerRemoveChannel
<1>8. ASSUME NEW d \in Drivers, Acquire(d) \/ ResetChannel(d) \/ ResetSlot(d) \/
     ResetDone(d) \/ AllProcessed(d)
      PROVE  MixerTypes'
  BY <1>8 DEF Acquire, ResetChannel, ResetSlot, ResetDone, AllProcessed, StartCycle
<1>9. CASE JackCallback \/ JackPost \/ ExportStart \/ ExportNext \/ ExportEnd \/ SlotLock
  BY <1>9 DEF JackCallback, JackPost, ExportStart, ExportNext, ExportEnd, SlotLock,
       StartCycle
<1>10. ASSUME NEW c \in Editable, NEW s \in Slots, SlotDrop(c, s)
      PROVE  MixerTypes'
  BY <1>10 DEF SlotDrop
<1>11. ASSUME NEW c \in Channels, ChannelThread(c)
      PROVE  MixerTypes'
  BY <1>11 DEF ChannelThread, PollStop, TestProcessed, SumSource, SumInDone, RunSlot,
       SkipSlot, StripDone, SumOut, Mark, MarkAgain, ThreadOnly
<1>12. CASE UNCHANGED vars
  BY <1>12 DEF vars
<1> QED
  BY <1>1, <1>2, <1>3, <1>4, <1>5, <1>6, <1>7, <1>8, <1>9, <1>10, <1>11, <1>12 DEF Next,
       Jack, UserRequest, GtkWork, Cycle

\* The processed flags.
LEMMA FlagStep ==
  ASSUME TypeOK, [Next]_vars
  PROVE  FlagTypes'
<1> USE DEF TypeOK, FlagTypes, At, Goto, Drivers,
            mixerVars, wiringVars, flagVars, driverVars, threadVars
<1>1. ASSUME NEW d \in Drivers, ResetChannel(d)
      PROVE  FlagTypes'
  BY <1>1 DEF ResetChannel, MixerTypes, ControlTypes
<1>2. ASSUME NEW d \in Drivers, ResetSlot(d)
      PROVE  FlagTypes'
  BY <1>2 DEF ResetSlot, ControlTypes
<1>3. CASE SlotAdd
  BY <1>3, AddPluginType DEF SlotAdd, ControlTypes
<1>4. CASE AddFirstPlugin
  BY <1>4, AddPluginType DEF AddFirstPlugin, ControlTypes
<1>5. ASSUME NEW c \in Channels, CreateChannel(c)
      PROVE  FlagTypes'
  BY <1>5 DEF CreateChannel
<1>6. ASSUME NEW c \in Channels, RunSlot(c)
      PROVE  FlagTypes'
  BY <1>6 DEF RunSlot, Occupied, ThreadOnly
<1>7. ASSUME NEW c \in Channels, Mark(c)
      PROVE  FlagTypes'
  BY <1>7 DEF Mark, ThreadOnly
<1>8. ASSUME NEW c \in Channels, MarkAgain(c)
      PROVE  FlagTypes'
  BY <1>8 DEF MarkAgain, ThreadOnly
<1>9. ASSUME NEW d \in Drivers, Acquire(d) \/ ResetDone(d) \/ AllProcessed(d)
      PROVE  FlagTypes'
  BY <1>9 DEF Acquire, ResetDone, AllProcessed, StartCycle
<1>10. CASE JackCallback \/ JackPost \/ ExportStart \/ ExportNext \/ ExportEnd \/
     SlotLock \/ MixerAddChannel \/ DeleteFromMixer \/ ChannelFree
  BY <1>10 DEF JackCallback, JackPost, ExportStart, ExportNext, ExportEnd, SlotLock,
       MixerAddChannel, DeleteFromMixer, ChannelFree, StartCycle
<1>11. ASSUME NEW c \in Editable, NEW s \in Slots, SlotDrop(c, s)
      PROVE  FlagTypes'
  BY <1>11 DEF SlotDrop
<1>12. ASSUME NEW c \in Removable, MixerRemoveChannel(c)
      PROVE  FlagTypes'
  BY <1>12 DEF MixerRemoveChannel
<1>13. ASSUME NEW c \in Channels, PollStop(c) \/ TestProcessed(c) \/ SumSource(c) \/
     SumInDone(c) \/ SkipSlot(c) \/ StripDone(c) \/ SumOut(c)
      PROVE  FlagTypes'
  BY <1>13 DEF PollStop, TestProcessed, SumSource, SumInDone, SkipSlot, StripDone,
       SumOut, ThreadOnly
<1>14. CASE UNCHANGED vars
  BY <1>14 DEF vars
<1> QED
  BY <1>1, <1>2, <1>3, <1>4, <1>5, <1>6, <1>7, <1>8, <1>9, <1>10, <1>11, <1>12, <1>13,
       <1>14 DEF Next, Jack, UserRequest, GtkWork, Cycle, ChannelThread

\* The channel threads.
LEMMA ThreadStep ==
  ASSUME TypeOK, [Next]_vars
  PROVE  ThreadTypes'
<1> USE DEF TypeOK, ThreadTypes, At, Goto, Drivers,
            mixerVars, wiringVars, flagVars, driverVars, threadVars
<1>1. ASSUME NEW c \in Channels, CreateChannel(c)
      PROVE  ThreadTypes'
  BY <1>1 DEF CreateChannel
<1>2. ASSUME NEW c \in Channels, PollStop(c)
      PROVE  ThreadTypes'
  BY <1>2 DEF PollStop, ThreadGoto, ThreadOnly
<1>3. ASSUME NEW c \in Channels, TestProcessed(c)
      PROVE  ThreadTypes'
  BY <1>3 DEF TestProcessed, ThreadGoto, ThreadOnly
<1>4. ASSUME NEW c \in Channels, SumSource(c)
      PROVE  ThreadTypes'
  BY <1>4 DEF SumSource, ThreadGoto, ThreadOnly
<1>5. ASSUME NEW c \in Channels, SumInDone(c)
      PROVE  ThreadTypes'
  BY <1>5 DEF SumInDone, ThreadGoto, ThreadOnly
<1>6. ASSUME NEW c \in Channels, RunSlot(c)
      PROVE  ThreadTypes'
  BY <1>6 DEF RunSlot, ThreadGoto, ThreadOnly
<1>7. ASSUME NEW c \in Channels, SkipSlot(c)
      PROVE  ThreadTypes'
  BY <1>7 DEF SkipSlot, ThreadGoto, ThreadOnly
<1>8. ASSUME NEW c \in Channels, StripDone(c)
      PROVE  ThreadTypes'
  BY <1>8 DEF StripDone, ThreadGoto, ThreadOnly
<1>9. ASSUME NEW c \in Channels, SumOut(c)
      PROVE  ThreadTypes'
  BY <1>9 DEF SumOut, ThreadGoto, ThreadOnly
<1>10. ASSUME NEW c \in Channels, Mark(c)
      PROVE  ThreadTypes'
  BY <1>10 DEF Mark, ThreadGoto, ThreadOnly
<1>11. ASSUME NEW c \in Channels, MarkAgain(c)
      PROVE  ThreadTypes'
  BY <1>11 DEF MarkAgain, ThreadGoto, ThreadOnly
<1>12. ASSUME NEW d \in Drivers, Acquire(d) \/ ResetChannel(d) \/ ResetSlot(d) \/
     ResetDone(d) \/ AllProcessed(d)
      PROVE  ThreadTypes'
  BY <1>12 DEF Acquire, ResetChannel, ResetSlot, ResetDone, AllProcessed, StartCycle
<1>13. CASE JackCallback \/ JackPost \/ ExportStart \/ ExportNext \/ ExportEnd \/
     SlotLock \/ SlotAdd \/ MixerAddChannel \/ AddFirstPlugin \/ DeleteFromMixer \/
     ChannelFree
  BY <1>13 DEF JackCallback, JackPost, ExportStart, ExportNext, ExportEnd, SlotLock,
       SlotAdd, MixerAddChannel, AddFirstPlugin, DeleteFromMixer, ChannelFree,
       StartCycle
<1>14. ASSUME NEW c \in Editable, NEW s \in Slots, SlotDrop(c, s)
      PROVE  ThreadTypes'
  BY <1>14 DEF SlotDrop
<1>15. ASSUME NEW c \in Removable, MixerRemoveChannel(c)
      PROVE  ThreadTypes'
  BY <1>15 DEF MixerRemoveChannel
<1>16. CASE UNCHANGED vars
  BY <1>16 DEF vars
<1> QED
  BY <1>1, <1>2, <1>3, <1>4, <1>5, <1>6, <1>7, <1>8, <1>9, <1>10, <1>11, <1>12, <1>13,
       <1>14, <1>15, <1>16 DEF Next, Jack, UserRequest, GtkWork, Cycle, ChannelThread,
       Drivers

\* Every step keeps the types.
LEMMA TypeStep ==
  ASSUME TypeOK, LockExclusion, [Next]_vars
  PROVE  TypeOK'
BY ControlStep, MixerStep, FlagStep, ThreadStep DEF TypeOK

-----------------------------------------------------------------------------
(***************************************************************************)
(* The lock, the flags and the threads.                                    *)
(***************************************************************************)
LEMMA InvInit ==
  Init => LockExclusion /\ DownInProcess /\ DownInCycle /\ CreatedInv /\ ResetOnce
BY EngineAssumption
   DEF Init, LockExclusion, Critical, Drivers, At, DownInProcess, InProcess, DownInCycle,
       CreatedInv, Elements, ResetOnce

\* Every wait takes the semaphore from 1 to 0, every post brings it back.
LEMMA LockStep ==
  ASSUME TypeOK, LockExclusion, [Next]_vars
  PROVE  LockExclusion'
<1> USE DEF TypeOK, ControlTypes, LockExclusion, Critical, At, Goto, Drivers, StartCycle,
            mixerVars, wiringVars, flagVars, driverVars, threadVars
<1>1. ASSUME NEW d \in Drivers, Acquire(d)
      PROVE  LockExclusion'
  BY <1>1 DEF Acquire
<1>2. ASSUME NEW d \in Drivers, ResetChannel(d) \/ ResetSlot(d)
      PROVE  LockExclusion'
  BY <1>2 DEF ResetChannel, ResetSlot
<1>3. ASSUME NEW d \in Drivers, ResetDone(d)
      PROVE  LockExclusion'
  BY <1>3 DEF ResetDone
<1>4. ASSUME NEW d \in Drivers, AllProcessed(d)
      PROVE  LockExclusion'
  BY <1>4 DEF AllProcessed
<1>5. CASE JackCallback
  BY <1>5 DEF JackCallback
<1>6. CASE JackPost
  BY <1>6 DEF JackPost
<1>7. CASE ExportStart
  BY <1>7 DEF ExportStart
<1>8. CASE ExportNext
  BY <1>8 DEF ExportNext
<1>9. CASE ExportEnd
  BY <1>9 DEF ExportEnd
<1>10. CASE SlotLock
  BY <1>10 DEF SlotLock
<1>11. CASE SlotAdd
  BY <1>11 DEF SlotAdd
<1>12. CASE MixerAddChannel \/ AddFirstPlugin \/ DeleteFromMixer \/ ChannelFree
  BY <1>12 DEF MixerAddChannel, AddFirstPlugin, DeleteFromMixer, ChannelFree
<1>13. ASSUME NEW c \in Editable, NEW s \in Slots, SlotDrop(c, s)
      PROVE  LockExclusion'
  BY <1>13 DEF SlotDrop
<1>14. ASSUME NEW c \in Channels, CreateChannel(c)
      PROVE  LockExclusion'
  BY <1>14 DEF CreateChannel
<1>15. ASSUME NEW c \in Removable, MixerRemoveChannel(c)
      PROVE  LockExclusion'
  BY <1>15 DEF MixerRemoveChannel
<1>16. ASSUME NEW c \in Channels, ChannelThread(c)
      PROVE  LockExclusion'
  BY <1>16 DEF ChannelThread, PollStop, TestProcessed, SumSource, SumInDone, RunSlot,
       SkipSlot, StripDone, SumOut, Mark, MarkAgain, ThreadOnly
<1>17. CASE UNCHANGED vars
  BY <1>17 DEF vars
<1> QED
  BY <1>1, <1>2, <1>3, <1>4, <1>5, <1>6, <1>7, <1>8, <1>9, <1>10, <1>11, <1>12, <1>13,
       <1>14, <1>15, <1>16, <1>17
     DEF Next, Jack, UserRequest, GtkWork, Cycle

\* Only its own thread raises the flag of a channel that is processing.
LEMMA DownInProcessStep ==
  ASSUME TypeOK, DownInProcess, [Next]_vars
  PROVE  DownInProcess'
<1> USE DEF TypeOK, FlagTypes, ThreadTypes, DownInProcess, InProcess, At, Goto,
     Drivers, StartCycle,
            mixerVars, wiringVars, flagVars, driverVars, threadVars
<1>1. ASSUME NEW d \in Drivers, Acquire(d) \/ ResetSlot(d) \/ ResetDone(d) \/
     AllProcessed(d)
      PROVE  DownInProcess'
  BY <1>1 DEF Acquire, ResetSlot, ResetDone, AllProcessed
<1>2. ASSUME NEW d \in Drivers, ResetChannel(d)
      PROVE  DownInProcess'
  BY <1>2, EngineAssumption DEF ResetChannel, MixerTypes
<1>3. CASE JackCallback \/ JackPost \/ ExportStart \/ ExportNext \/ ExportEnd \/
     SlotLock \/ SlotAdd \/ MixerAddChannel \/ AddFirstPlugin \/ DeleteFromMixer \/
     ChannelFree
  BY <1>3 DEF JackCallback, JackPost, ExportStart, ExportNext, ExportEnd, SlotLock,
       SlotAdd, MixerAddChannel, AddFirstPlugin, DeleteFromMixer, ChannelFree
<1>4. ASSUME NEW c \in Editable, NEW s \in Slots, SlotDrop(c, s)
      PROVE  DownInProcess'
  BY <1>4 DEF SlotDrop
<1>5. ASSUME NEW c \in Channels, CreateChannel(c)
      PROVE  DownInProcess'
  BY <1>5 DEF CreateChannel
<1>6. ASSUME NEW c \in Removable, MixerRemoveChannel(c)
      PROVE  DownInProcess'
  BY <1>6 DEF MixerRemoveChannel
<1>7. ASSUME NEW c \in Channels, PollStop(c) \/ TestProcessed(c)
      PROVE  DownInProcess'
  BY <1>7 DEF PollStop, TestProcessed, ThreadGoto, ThreadOnly
<1>8. ASSUME NEW c \in Channels, SumSource(c) \/ SumInDone(c) \/ RunSlot(c) \/
     SkipSlot(c) \/ StripDone(c) \/ SumOut(c)
      PROVE  DownInProcess'
  BY <1>8 DEF SumSource, SumInDone, RunSlot, SkipSlot, StripDone, SumOut, ThreadGoto,
       ThreadOnly
<1>9. ASSUME NEW c \in Channels, Mark(c)
      PROVE  DownInProcess'
  BY <1>9 DEF Mark, ThreadGoto, ThreadOnly
<1>10. ASSUME NEW c \in Channels, MarkAgain(c)
      PROVE  DownInProcess'
  BY <1>10 DEF MarkAgain, ThreadGoto, ThreadOnly
<1>11. CASE UNCHANGED vars
  BY <1>11 DEF vars
<1> QED
  BY <1>1, <1>2, <1>3, <1>4, <1>5, <1>6, <1>7, <1>8, <1>9, <1>10, <1>11
     DEF Next, Jack, UserRequest, GtkWork, Cycle, ChannelThread

\* A flag goes down in the reset loop only, and a cycle ends with all flags up.
LEMMA DownInCycleStep ==
  ASSUME TypeOK, CreatedInv, DownInCycle, [Next]_vars
  PROVE  DownInCycle'
<1>0. Elements(channels) \subseteq Channels /\ edit[1] \in Channels
  BY DEF TypeOK, MixerTypes, ControlTypes, Elements
<1> USE <1>0 DEF TypeOK, ControlTypes, FlagTypes, DownInCycle, At, Goto, Drivers, StartCycle,
            mixerVars, wiringVars, flagVars, driverVars, threadVars
<1>1. ASSUME NEW d \in Drivers, Acquire(d)
      PROVE  DownInCycle'
  BY <1>1 DEF Acquire
<1>2. ASSUME NEW d \in Drivers, ResetChannel(d)
      PROVE  DownInCycle'
  BY <1>2 DEF ResetChannel
<1>3. ASSUME NEW d \in Drivers, ResetSlot(d)
      PROVE  DownInCycle'
  BY <1>3 DEF ResetSlot
<1>4. ASSUME NEW d \in Drivers, ResetDone(d)
      PROVE  DownInCycle'
  BY <1>4 DEF ResetDone
<1>5. ASSUME NEW d \in Drivers, AllProcessed(d)
      PROVE  DownInCycle'
  BY <1>5 DEF AllProcessed, Elements
<1>6. CASE JackCallback \/ ExportStart \/ ExportNext
  BY <1>6 DEF JackCallback, ExportStart, ExportNext
<1>7. CASE JackPost
  BY <1>7 DEF JackPost
<1>8. CASE ExportEnd
  BY <1>8 DEF ExportEnd
<1>9. CASE SlotLock \/ SlotAdd \/ AddFirstPlugin \/ ChannelFree
  BY <1>9 DEF SlotLock, SlotAdd, AddFirstPlugin, ChannelFree
<1>10. CASE MixerAddChannel
  <2>1. Elements(channels') = Elements(channels) \cup {edit[1]}
    BY <1>10, AppendAdds DEF MixerAddChannel, MixerTypes
  <2>2. processed' = processed /\ processed[edit[1]]
    BY <1>10 DEF MixerAddChannel, CreatedInv
  <2>3. \A d \in Drivers : pc[d] \in {"reset", "wait"} => pc'[d] = pc[d]
    BY <1>10 DEF MixerAddChannel
  <2> QED
    BY <2>1, <2>2, <2>3
<1>11. CASE DeleteFromMixer
  BY <1>11, DeleteShrinks DEF DeleteFromMixer, MixerTypes
<1>12. ASSUME NEW c \in Editable, NEW s \in Slots, SlotDrop(c, s)
      PROVE  DownInCycle'
  BY <1>12 DEF SlotDrop
<1>13. ASSUME NEW c \in Channels, CreateChannel(c)
      PROVE  DownInCycle'
  BY <1>13 DEF CreateChannel
<1>14. ASSUME NEW c \in Removable, MixerRemoveChannel(c)
      PROVE  DownInCycle'
  BY <1>14 DEF MixerRemoveChannel
<1>15. ASSUME NEW c \in Channels, PollStop(c) \/ TestProcessed(c) \/ SumSource(c) \/
     SumInDone(c) \/ RunSlot(c) \/ SkipSlot(c) \/ StripDone(c) \/ SumOut(c)
      PROVE  DownInCycle'
  BY <1>15 DEF PollStop, TestProcessed, SumSource, SumInDone, RunSlot, SkipSlot,
       StripDone, SumOut, ThreadGoto, ThreadOnly
<1>16. ASSUME NEW c \in Channels, Mark(c) \/ MarkAgain(c)
      PROVE  DownInCycle'
  BY <1>16 DEF Mark, MarkAgain, ThreadGoto, ThreadOnly
<1>17. CASE UNCHANGED vars
  BY <1>17 DEF vars
<1> QED
  BY <1>1, <1>2, <1>3, <1>4, <1>5, <1>6, <1>7, <1>8, <1>9, <1>10, <1>11, <1>12, <1>13,
       <1>14, <1>15, <1>16, <1>17
     DEF Next, Jack, UserRequest, GtkWork, Cycle, ChannelThread

\* A channel is created, then added to the mixer, by one thread.
LEMMA CreatedStep ==
  ASSUME TypeOK, CreatedInv, [Next]_vars
  PROVE  CreatedInv'
<1>0. Elements(channels) \subseteq Channels /\ edit[1] \in Channels
  BY DEF TypeOK, MixerTypes, ControlTypes, Elements
<1> USE <1>0 DEF TypeOK, ControlTypes, FlagTypes, ThreadTypes, CreatedInv, At, Goto,
     Drivers, StartCycle,
            mixerVars, wiringVars, flagVars, driverVars, threadVars
<1>1. ASSUME NEW d \in Drivers, Acquire(d) \/ ResetSlot(d) \/ ResetDone(d) \/
     AllProcessed(d)
      PROVE  CreatedInv'
  BY <1>1 DEF Acquire, ResetSlot, ResetDone, AllProcessed
<1>2. ASSUME NEW d \in Drivers, ResetChannel(d)
      PROVE  CreatedInv'
  BY <1>2 DEF ResetChannel, MixerTypes, Elements
<1>3. CASE JackCallback \/ JackPost \/ ExportStart \/ ExportNext \/ ExportEnd \/
     SlotLock \/ SlotAdd \/ AddFirstPlugin \/ ChannelFree
  BY <1>3 DEF JackCallback, JackPost, ExportStart, ExportNext, ExportEnd, SlotLock,
       SlotAdd, AddFirstPlugin, ChannelFree
<1>4. CASE MixerAddChannel
  BY <1>4, AppendAdds DEF MixerAddChannel, MixerTypes
<1>5. CASE DeleteFromMixer
  BY <1>5, DeleteShrinks DEF DeleteFromMixer, MixerTypes
<1>6. ASSUME NEW c \in Editable, NEW s \in Slots, SlotDrop(c, s)
      PROVE  CreatedInv'
  BY <1>6 DEF SlotDrop
<1>7. ASSUME NEW c \in Channels, CreateChannel(c)
      PROVE  CreatedInv'
  BY <1>7 DEF CreateChannel
<1>8. ASSUME NEW c \in Removable, MixerRemoveChannel(c)
      PROVE  CreatedInv'
  BY <1>8 DEF MixerRemoveChannel
<1>9. ASSUME NEW c \in Channels, PollStop(c) \/ TestProcessed(c) \/ SumSource(c) \/
     SumInDone(c) \/ RunSlot(c) \/ SkipSlot(c) \/ StripDone(c) \/ SumOut(c)
      PROVE  CreatedInv'
  BY <1>9 DEF PollStop, TestProcessed, SumSource, SumInDone, RunSlot, SkipSlot,
       StripDone, SumOut, ThreadGoto, ThreadOnly
<1>10. ASSUME NEW c \in Channels, Mark(c) \/ MarkAgain(c)
      PROVE  CreatedInv'
  BY <1>10 DEF Mark, MarkAgain, ThreadGoto, ThreadOnly
<1>11. CASE UNCHANGED vars
  BY <1>11 DEF vars
<1> QED
  BY <1>1, <1>2, <1>3, <1>4, <1>5, <1>6, <1>7, <1>8, <1>9, <1>10, <1>11
     DEF Next, Jack, UserRequest, GtkWork, Cycle, ChannelThread

\* A driver that starts a cycle holds the lock, so it finds all flags up; the loop
\* lowers flags of channels that have not processed yet.
LEMMA ResetOnceStep ==
  ASSUME TypeOK, LockExclusion, DownInProcess, DownInCycle, CreatedInv, ResetOnce,
         [Next]_vars
  PROVE  ResetOnce'
<1>0. /\ Elements(channels) \subseteq Channels /\ edit[1] \in Channels
      /\ \A n \in DOMAIN channels : n \in Nat /\ channels[n] \in Elements(channels)
      /\ DOMAIN channels = 1..Len(channels) /\ Len(channels) \in Nat
  BY DEF TypeOK, MixerTypes, ControlTypes, Elements
<1> USE <1>0 DEF TypeOK, ControlTypes, FlagTypes, ThreadTypes, ResetOnce, ToReset, At, Goto,
     Drivers, StartCycle, mixerVars, wiringVars, flagVars, driverVars, threadVars
<1>1. ASSUME NEW d \in Drivers, Acquire(d)
      PROVE  ResetOnce'
  <2>1. \A e \in Drivers : pc[e] \notin {"reset", "wait"}
    BY <1>1 DEF Acquire, LockExclusion, Critical
  <2>2. \A c \in Elements(channels) : processed[c]
    BY <2>1 DEF DownInCycle
  <2> QED
    BY <1>1, <2>2 DEF Acquire
<1>2. ASSUME NEW d \in Drivers, ResetChannel(d)
      PROVE  ResetOnce'
  <2>1. /\ i \in DOMAIN channels /\ j = 0 /\ pc[d] = "reset"
        /\ channels[i] \notin done /\ channels[i] \in Channels
        /\ processed' = [processed EXCEPT ![channels[i]] = FALSE]
        /\ i' = i /\ j' = 1
        /\ UNCHANGED <<channels, done, tpc, pc, edit>>
    BY <1>2 DEF ResetChannel
  <2>2. ASSUME NEW n \in DOMAIN channels, n > i, channels[n] = channels[i]
        PROVE  FALSE
    <3>1. Distinct(channels) /\ n \in Nat /\ i \in Nat
      OBVIOUS
    <3>2. n = i
      BY <2>1, <2>2, <3>1 DEF Distinct
    <3> QED
      BY <2>2, <3>1, <3>2
  <2> QED
    BY <2>1, <2>2
<1>3. ASSUME NEW d \in Drivers, ResetSlot(d)
      PROVE  ResetOnce'
  <2>1. \A n \in DOMAIN channels : ToReset(n)' => ToReset(n)
    BY <1>3 DEF ResetSlot, Slots
  <2>2. UNCHANGED <<channels, done, tpc, pc, edit, processed>>
    BY <1>3 DEF ResetSlot
  <2> QED
    BY <2>1, <2>2
<1>4. ASSUME NEW d \in Drivers, ResetDone(d)
      PROVE  ResetOnce'
  BY <1>4 DEF ResetDone
<1>5. ASSUME NEW d \in Drivers, AllProcessed(d)
      PROVE  ResetOnce'
  BY <1>5 DEF AllProcessed
<1>6. CASE JackCallback
  BY <1>6 DEF JackCallback
<1>7. CASE JackPost
  BY <1>7 DEF JackPost
<1>8. CASE ExportStart
  BY <1>8 DEF ExportStart
<1>9. CASE ExportNext
  <2>1. \A e \in Drivers : pc[e] \notin {"reset", "wait"}
    BY <1>9, OneCritical DEF ExportNext, Critical
  <2>2. \A c \in Elements(channels) : processed[c]
    BY <2>1 DEF DownInCycle
  <2> QED
    BY <1>9, <2>2 DEF ExportNext
<1>10. CASE ExportEnd
  BY <1>10 DEF ExportEnd
<1>11. CASE SlotLock
  BY <1>11 DEF SlotLock
<1>12. CASE SlotAdd
  BY <1>12 DEF SlotAdd
<1>13. CASE MixerAddChannel
  <2>1. /\ channels' = ArrayAppend(channels, edit[1])
        /\ UNCHANGED <<processed, done, tpc, i, j, edit>>
        /\ pc' = [pc EXCEPT !["gtk"] = "add_plugin"]
        /\ edit[1] \notin done /\ processed[edit[1]] /\ edit[1] \notin Elements(channels)
    BY <1>13 DEF MixerAddChannel, CreatedInv
  <2>2. Distinct(channels')
    BY <2>1, AppendDistinct DEF MixerTypes
  <2>3. /\ DOMAIN channels' = 1..(Len(channels) + 1)
        /\ \A n \in DOMAIN channels : channels'[n] = channels[n]
        /\ channels'[Len(channels) + 1] = edit[1]
    BY <2>1 DEF ArrayAppend, MixerTypes
  <2>4. \A n \in DOMAIN channels' : n \in DOMAIN channels \/ n = Len(channels) + 1
    BY <2>3
  <2> QED
    BY <2>1, <2>2, <2>3, <2>4
<1>14. CASE AddFirstPlugin
  BY <1>14 DEF AddFirstPlugin
<1>15. CASE DeleteFromMixer
  <2>1. /\ channels' = ArrayDelete(channels, edit[1])
        /\ UNCHANGED <<processed, done, tpc, i, j, edit>>
        /\ pc' = [pc EXCEPT !["gtk"] = "free"]
    BY <1>15 DEF DeleteFromMixer
  <2>2. Distinct(channels') /\ channels' \in Seq(Channels)
    BY <2>1, DeleteRemoves, DeleteShrinks DEF MixerTypes
  <2>3. ASSUME NEW n \in DOMAIN channels'
        PROVE  \E m \in DOMAIN channels : (m = n \/ m = n + 1) /\ channels'[n] = channels[m]
    <3>1. channels \in Seq(Channels) /\ n \in DOMAIN ArrayDelete(channels, edit[1])
      BY <2>1, <2>3 DEF MixerTypes
    <3> HIDE DEF TypeOK, ResetOnce
    <3> QED
      BY <2>1, <3>1, DeleteMoves
  <2>4. ASSUME NEW n \in DOMAIN channels', ToReset(n)
        PROVE  \E m \in DOMAIN channels : ToReset(m) /\ channels'[n] = channels[m]
    <3>1. n \in Nat
      BY <2>2
    <3>2. PICK m \in DOMAIN channels : (m = n \/ m = n + 1) /\ channels'[n] = channels[m]
      BY <2>3
    <3> QED
      BY <2>4, <3>1, <3>2
  <2>5. \A n \in DOMAIN channels' : ToReset(n)' => ToReset(n)
    BY <2>1
  <2>6. \A d \in Drivers : pc'[d] = "reset" => pc[d] = "reset"
    BY <2>1
  <2> HIDE DEF ToReset
  <2> QED
    BY <2>1, <2>2, <2>4, <2>5, <2>6
<1>16. CASE ChannelFree
  BY <1>16 DEF ChannelFree
<1>17. ASSUME NEW c \in Editable, NEW s \in Slots, SlotDrop(c, s)
      PROVE  ResetOnce'
  BY <1>17 DEF SlotDrop
<1>18. ASSUME NEW c \in Channels, CreateChannel(c)
      PROVE  ResetOnce'
  BY <1>18 DEF CreateChannel
<1>19. ASSUME NEW c \in Removable, MixerRemoveChannel(c)
      PROVE  ResetOnce'
  BY <1>19 DEF MixerRemoveChannel
<1>20. ASSUME NEW c \in Channels, PollStop(c) \/ TestProcessed(c) \/ SumSource(c) \/
     SumInDone(c) \/ RunSlot(c) \/ SkipSlot(c) \/ StripDone(c) \/ SumOut(c)
      PROVE  ResetOnce'
  <2>1. UNCHANGED <<channels, processed, done, pc, i, j, edit>>
    BY <1>20 DEF PollStop, TestProcessed, SumSource, SumInDone, RunSlot, SkipSlot,
       StripDone, SumOut, ThreadOnly
  <2>2. \A b \in Channels : tpc[b] # "none" => tpc'[b] # "none"
    <3>1. CASE PollStop(c) \/ TestProcessed(c)
      BY <3>1 DEF PollStop, TestProcessed, ThreadGoto
    <3>2. CASE SumSource(c) \/ SumInDone(c) \/ RunSlot(c) \/ SkipSlot(c)
      BY <3>2 DEF SumSource, SumInDone, RunSlot, SkipSlot, ThreadGoto
    <3>3. CASE StripDone(c) \/ SumOut(c)
      BY <3>3 DEF StripDone, SumOut, ThreadGoto
    <3> QED
      BY <1>20, <3>1, <3>2, <3>3
  <2> QED
    BY <2>1, <2>2
<1>21. ASSUME NEW c \in Channels, Mark(c)
      PROVE  ResetOnce'
  <2>1. ~processed[c]
    BY <1>21 DEF Mark, DownInProcess, InProcess
  <2>2. At("gtk", "created") => edit[1] # c
    BY <2>1 DEF CreatedInv
  <2> QED
    BY <1>21, <2>1, <2>2 DEF Mark, ThreadGoto, ThreadOnly
<1>22. ASSUME NEW c \in Channels, MarkAgain(c)
      PROVE  ResetOnce'
  BY <1>22 DEF MarkAgain, ThreadGoto, ThreadOnly
<1>23. CASE UNCHANGED vars
  BY <1>23 DEF vars
<1> QED
  BY <1>1, <1>2, <1>3, <1>4, <1>5, <1>6, <1>7, <1>8, <1>9, <1>10, <1>11, <1>12, <1>13,
       <1>14, <1>15, <1>16, <1>17, <1>18, <1>19, <1>20, <1>21, <1>22, <1>23
     DEF Next, Jack, UserRequest, GtkWork, Cycle, ChannelThread

-----------------------------------------------------------------------------
\* The inductive invariant holds in every state.
LEMMA Invariance == Spec => []IInv
<1>1. Init => IInv
  BY TypeInit, InvInit DEF IInv
<1>2. IInv /\ [Next]_vars => IInv'
  BY TypeStep, LockStep, DownInProcessStep, DownInCycleStep, CreatedStep,
     ResetOnceStep DEF IInv
<1> QED
  BY <1>1, <1>2, PTL DEF Spec

\* Every variable of the model keeps its type.
THEOREM TypeCorrect == Spec => []TypeOK
<1>1. IInv => TypeOK
  BY DEF IInv
<1> QED
  BY <1>1, Invariance, PTL

\* port_operation_lock is held by at most one of the JACK callback, the export and
\* the slot drop, and its count never exceeds one.
THEOREM LockCorrect == Spec => []LockExclusion
<1>1. IInv => LockExclusion
  BY DEF IInv
<1> QED
  BY <1>1, Invariance, PTL

\* The channel threads take no lock; a thread inside channel_process has its flag
\* down, the flag is down only while somebody is in the reset or in the wait, and
\* that somebody holds the lock: so the holder that is past the wait is alone.
LEMMA NobodyProcesses ==
  ASSUME IInv, NEW d \in Drivers, pc[d] \in {"mix", "slot_edit"},
         NEW c \in Elements(channels)
  PROVE  ~InProcess(c)
<1>1. SUFFICES ASSUME InProcess(c) PROVE FALSE
  OBVIOUS
<1>2. c \in Channels
  BY DEF IInv, TypeOK, MixerTypes, Elements
<1>3. PICK other \in Drivers : pc[other] \in {"reset", "wait"}
  BY <1>1, <1>2 DEF IInv, DownInProcess, DownInCycle
<1>4. other # d /\ Critical(other) /\ Critical(d)
  BY <1>3 DEF Critical
<1> QED
  BY <1>4, OneCritical DEF IInv, Drivers

\* The callback and the export mix the master while no channel of the mixer is
\* being processed (mixer_process).
THEOREM MixCorrect == Spec => []MasterMixesAlone
<1>1. IInv => MasterMixesAlone
  BY NobodyProcesses DEF MasterMixesAlone, At
<1> QED
  BY <1>1, Invariance, PTL

\* channel_slot.c rewires a strip while no channel of the mixer is being processed.
THEOREM EditCorrect == Spec => []EditsAlone
<1>1. IInv => EditsAlone
  BY NobodyProcesses DEF EditsAlone, At, Drivers
<1> QED
  BY <1>1, Invariance, PTL

\* Only the thread itself enters channel_process, and it does so with its flag down:
\* the flag of a channel that is done in this cycle is up.
LEMMA EntersOnce ==
  ASSUME IInv, [Next]_vars, NEW c \in Channels, ~InProcess(c), InProcess(c)'
  PROVE  c \notin done
<1> USE DEF IInv, TypeOK, ThreadTypes, InProcess, ThreadGoto,
            mixerVars, wiringVars, flagVars, driverVars, threadVars
<1>1. ASSUME NEW b \in Channels, TestProcessed(b)
      PROVE  c \notin done
  BY <1>1 DEF TestProcessed, ResetOnce
<1>2. ASSUME NEW b \in Channels, PollStop(b)
      PROVE  FALSE
  BY <1>2 DEF PollStop
<1>3. ASSUME NEW b \in Channels, SumSource(b) \/ SumInDone(b) \/ RunSlot(b) \/ SkipSlot(b)
      PROVE  FALSE
  BY <1>3 DEF SumSource, SumInDone, RunSlot, SkipSlot
<1>4. ASSUME NEW b \in Channels, StripDone(b) \/ SumOut(b)
      PROVE  FALSE
  BY <1>4 DEF StripDone, SumOut
<1>5. ASSUME NEW b \in Channels, Mark(b) \/ MarkAgain(b)
      PROVE  FALSE
  BY <1>5 DEF Mark, MarkAgain
<1>6. ASSUME NEW b \in Channels, CreateChannel(b)
      PROVE  FALSE
  BY <1>6 DEF CreateChannel
<1>7. ASSUME NEW b \in Removable, MixerRemoveChannel(b)
      PROVE  FALSE
  BY <1>7 DEF MixerRemoveChannel
<1>8. ASSUME NEW b \in Editable, NEW s \in Slots, SlotDrop(b, s)
      PROVE  FALSE
  BY <1>8 DEF SlotDrop
<1>9. ASSUME NEW d \in Drivers, Acquire(d) \/ ResetChannel(d) \/ ResetSlot(d) \/
     ResetDone(d) \/ AllProcessed(d)
      PROVE  FALSE
  BY <1>9 DEF Acquire, ResetChannel, ResetSlot, ResetDone, AllProcessed
<1>10. CASE JackCallback \/ JackPost \/ ExportStart \/ ExportNext \/ ExportEnd \/
     SlotLock \/ SlotAdd \/ MixerAddChannel \/ AddFirstPlugin \/ DeleteFromMixer \/
     ChannelFree
  BY <1>10 DEF JackCallback, JackPost, ExportStart, ExportNext, ExportEnd, SlotLock,
       SlotAdd, MixerAddChannel, AddFirstPlugin, DeleteFromMixer, ChannelFree
<1>11. CASE UNCHANGED vars
  BY <1>11 DEF vars
<1> QED
  BY <1>1, <1>2, <1>3, <1>4, <1>5, <1>6, <1>7, <1>8, <1>9, <1>10, <1>11
     DEF Next, Jack, UserRequest, GtkWork, Cycle, ChannelThread, Drivers

\* A thread enters channel_process at most once in a cycle, whatever the order of
\* the reset loop, the second write of the flag, the export and the deletions.
THEOREM OncePerCycleCorrect == Spec => OncePerCycle
<1>1. IInv /\ [Next]_vars => [\A c \in Channels : ~InProcess(c) /\ InProcess(c)' => c \notin done]_vars
  BY EntersOnce
<1> QED
  BY <1>1, Invariance, PTL DEF Spec, OncePerCycle
=============================================================================
