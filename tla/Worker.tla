-------------------------------- MODULE Worker --------------------------------
(***************************************************************************)
(* The worker of an LV2 plugin (lv2/worker.c).  While it runs, the plugin  *)
(* schedules requests; a thread of the host hands them to work(), which    *)
(* responds; the next cycle hands the responses to the plugin.  Requests   *)
(* and responses are two ring writes each, a size and a body.  A restore   *)
(* schedules on a second worker that has no thread: work() runs at once,   *)
(* in the thread that restores, and the two share a lock and the plugin.   *)
(*                                                                         *)
(* A message is its number; Size gives its length in cells.  What work()   *)
(* does is the plugin's: it responds once to every request it is given.    *)
(*                                                                         *)
(* An operator whose name ends in Mutant is a mistake one could make in    *)
(* the definition that follows it.                                         *)
(***************************************************************************)
EXTENDS Cells, Integers

CONSTANTS
  Size,        \* the length of every message, a sequence: what run() may schedule
  RingSize,    \* the cells of the rings, all of them 4096 bytes in the code
  Word32       \* uint32_t counts modulo Word32

Messages == 1..Len(Size)
Restore == Len(Size) + 1   \* the request of a restore, of the size of the first

ASSUME WorkerAssumption ==
  /\ Size \in Seq(Nat) /\ Size # <<>>
  /\ RingSize \in Nat \ {0}
  /\ Word32 \in Nat /\ Word32 > RingSize

VARIABLES
  requests,             \* LV2_Worker.requests of the worker with a thread
  responses,            \* LV2_Worker.responses of both workers
  sem,                  \* LV2_Worker.sem
  workLock,             \* Lv2Plugin.work_lock
  wpc,                  \* where the worker's thread is
  job,                  \* what it works on: a message, 0 when it is not one
  half,                 \* the message whose size is written and whose body is not
  left,                 \* read_space of the loop that hands out responses
  scheduled,            \* messages that run() scheduled, in order
  worked,               \* what the thread gave to work(), in order
  dropped               \* a write found no room

requestVars == <<requests, sem, scheduled, half>>
threadVars == <<wpc, job, worked>>
responseVars == <<responses, left>>

Workers == {"worker", "state_worker"}
workerVars == <<requestVars, threadVars, responseVars, workLock, dropped>>

SizeOf(m) == IF m \in Messages THEN Size[m] ELSE Size[1]
Fits(ring, n) == Len(ring) + n <= RingSize

\* What a read of a size returns: nothing from a ring that is empty, the size of
\* the message, or anything when the cell is not a size.
MessagesAt(ring) ==
  IF ring = <<>> THEN {0}
  ELSE IF ring[1].is = "header" THEN {ring[1].of}
  ELSE Messages \cup {0}

\* lv2_worker_init: the thread waits and everything is empty.
lv2_worker_init ==
  /\ requests = <<>> /\ responses = [w \in Workers |-> <<>>]
  /\ sem = 0 /\ workLock = 1
  /\ wpc = "wait" /\ job = 0 /\ half = 0 /\ left = 0
  /\ scheduled = <<>> /\ worked = <<>>
  /\ dropped = FALSE
-----------------------------------------------------------------------------
\* lv2_worker_schedule in the thread that runs the plugin: the size ...
ScheduleSize(m) ==
  /\ half = 0 /\ m \in Messages /\ m = Len(scheduled) + 1
  /\ requests' = RingWrite(requests, RingSize, <<Header(m)>>)
  /\ dropped' = (dropped \/ ~Fits(requests, 1))
  /\ half' = m
  /\ UNCHANGED <<sem, scheduled, threadVars, responseVars, workLock>>

\* The thread is woken before the body is written.
ScheduleBodyMutant ==
  /\ half # 0
  /\ IF Len(scheduled) < half
     THEN /\ sem' = sem + 1 /\ scheduled' = Append(scheduled, half)
          /\ UNCHANGED <<requests, half>>
     ELSE /\ requests' = RingWrite(requests, RingSize, Body(half, SizeOf(half)))
          /\ half' = 0
          /\ UNCHANGED <<sem, scheduled>>
  /\ UNCHANGED <<threadVars, responseVars, workLock, dropped>>

\* ... and the body; both results are ignored, and the thread is woken.
ScheduleBody ==
  /\ half # 0
  /\ requests' = RingWrite(requests, RingSize, Body(half, SizeOf(half)))
  /\ dropped' = (dropped \/ ~Fits(requests, SizeOf(half)))
  /\ sem' = sem + 1
  /\ scheduled' = Append(scheduled, half)
  /\ half' = 0
  /\ UNCHANGED <<threadVars, responseVars, workLock>>
-----------------------------------------------------------------------------
(***************************************************************************)
(* worker_func.                                                            *)
(***************************************************************************)
WorkerWait ==
  /\ wpc = "wait" /\ sem > 0
  /\ sem' = sem - 1
  /\ wpc' = "read"
  /\ UNCHANGED <<requests, scheduled, half, job, worked, responseVars, workLock, dropped>>

\* The size and the body.  A size of zero makes realloc free the buffer and
\* return NULL, which ends the thread, unless there was no buffer yet.
WorkerRead ==
  /\ wpc = "read"
  /\ LET rest == RingRest(requests, 1)
     IN  \E m \in MessagesAt(requests) :
           LET n == IF m = 0 THEN 0 ELSE SizeOf(m)
           IN  /\ job' = IF RingRead(rest, n) = Body(m, n) THEN m ELSE 0
               /\ IF n = 0 /\ worked # <<>>
                  THEN /\ wpc' = "ended"
                       /\ requests' = rest
                  ELSE /\ wpc' = "lock"
                       /\ requests' = RingRest(rest, n)
  /\ UNCHANGED <<sem, scheduled, half, worked, responseVars, workLock, dropped>>

WorkerLock ==
  /\ wpc = "lock" /\ workLock > 0
  /\ workLock' = workLock - 1
  /\ worked' = Append(worked, job)
  /\ wpc' = "work"
  /\ UNCHANGED <<requestVars, job, responseVars, dropped>>

Respond(w, cells) == [responses EXCEPT ![w] = RingWrite(@, RingSize, cells)]

\* work() answers a request with lv2_worker_respond: the size ...
RespondSize ==
  /\ wpc = "work"
  /\ wpc' = IF job = 0 THEN "unlock" ELSE "body"
  /\ responses' = IF job = 0 THEN responses ELSE Respond("worker", <<Header(job)>>)
  /\ UNCHANGED <<requestVars, job, worked, left, workLock, dropped>>

\* ... and the body.
RespondBody ==
  /\ wpc = "body"
  /\ responses' = Respond("worker", Body(job, SizeOf(job)))
  /\ wpc' = "unlock"
  /\ UNCHANGED <<requestVars, job, worked, left, workLock, dropped>>

\* The lock is kept when there was nothing to work on.
WorkerUnlockMutant ==
  /\ wpc = "unlock"
  /\ workLock' = workLock
  /\ wpc' = "wait"
  /\ UNCHANGED <<requestVars, job, worked, responseVars, dropped>>

WorkerUnlock ==
  /\ wpc = "unlock"
  /\ workLock' = workLock + 1
  /\ wpc' = "wait"
  /\ UNCHANGED <<requestVars, job, worked, responseVars, dropped>>

WorkerThread ==
  WorkerWait \/ WorkerRead \/ WorkerLock \/ RespondSize \/ RespondBody \/ WorkerUnlock
-----------------------------------------------------------------------------
\* lv2_worker_schedule of the worker without a thread: work() runs at once,
\* under the lock, in the thread that restores.
ScheduleNow ==
  /\ workLock > 0
  /\ workLock' = workLock - 1
  /\ responses' = Respond("state_worker", <<Header(Restore)>>)
  /\ UNCHANGED <<requestVars, threadVars, left, dropped>>

ScheduleNowEnd ==
  /\ responses' = Respond("state_worker", Body(Restore, SizeOf(Restore)))
  /\ workLock' = workLock + 1
  /\ UNCHANGED <<requestVars, threadVars, left, dropped>>

\* lv2_worker_emit_responses looks once at how much there is to read.
EmitStart(w) ==
  /\ left' = Len(responses[w])
  /\ UNCHANGED <<requestVars, threadVars, responses, workLock, dropped>>

\* One turn of its loop.  A body that is not there yet is replaced by what the
\* buffer holds from before; more is then subtracted than was seen, and the
\* unsigned count goes around.
EmitResponse(w) ==
  /\ left # 0
  /\ LET rest == RingRest(responses[w], 1)
     IN  \E m \in MessagesAt(responses[w]) :
           LET n == IF m = 0 THEN 0 ELSE SizeOf(m)
           IN  /\ responses' = [responses EXCEPT ![w] = RingRest(rest, n)]
               /\ left' = (left - (1 + n)) % Word32
  /\ UNCHANGED <<requestVars, threadVars, workLock, dropped>>
=============================================================================
