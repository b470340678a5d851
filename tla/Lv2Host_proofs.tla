---------------------------- MODULE Lv2Host_proofs ----------------------------
(***************************************************************************)
(* For every plugin, every size of its requests and of the rings, and      *)
(* every interleaving of the threads of module Lv2Host: the worker is      *)
(* given the requests that were scheduled, in order, and nothing else, as  *)
(* long as no write found a ring full; a URI that was mapped is found      *)
(* again under its id; what a UI writes is applied once, in order; and     *)
(* events are written within the buffers of their ports.                   *)
(***************************************************************************)
EXTENDS Lv2Host, Operators_proofs, SequenceTheorems

(***************************************************************************)
(* The requests of the worker.  The ring holds the requests behind the     *)
(* last one that was taken out of it; the body of the one that is being    *)
(* scheduled may be missing.                                               *)
(***************************************************************************)
\* How many requests left the ring.
Taken == IF wpc \in {"lock", "ended"} THEN Len(worked) + 1 ELSE Len(worked)

\* Where the ring holds every whole request, at its header, and where it ends.
LaidOut(at) ==
  /\ at[Taken + 1] = 1
  /\ \A m, n \in DOMAIN at : m <= n => at[m] <= at[n]
  /\ \A m \in (Taken + 1)..Len(scheduled) :
       /\ at[m + 1] = at[m] + 1 + SizeOf(m)
       /\ requests[at[m]] = Header(m)
       /\ \A n \in 1..SizeOf(m) : requests[at[m] + n] = Unit(m)
  /\ Len(requests) + 1 = at[Len(scheduled) + 1] + (IF half = 0 THEN 0 ELSE 1)
  /\ half # 0 => requests[Len(requests)] = Header(half)

RequestCells == [is : {"header", "body"}, of : Messages]

\* A post per request that was scheduled, a wait per request that was taken.
OrderInv ==
  /\ requests \in Seq(RequestCells)
  /\ sem \in Nat
  /\ half \in Messages \cup {0}
  /\ half # 0 => half = Len(scheduled) + 1
  /\ scheduled \in Seq(Messages) /\ worked \in Seq(Messages)
  /\ \A n \in 1..Len(scheduled) : scheduled[n] = n
  /\ \A n \in 1..Len(worked) : worked[n] = n
  /\ Taken <= Len(scheduled)
  /\ sem + (IF wpc = "read" THEN 1 ELSE 0) = Len(scheduled) - Taken
  /\ wpc = "lock" => job = Len(worked) + 1
  /\ \E at \in [(Taken + 1)..(Len(scheduled) + 1) -> 1..(Len(requests) + 1)] : LaidOut(at)

RequestsInv == ~dropped => OrderInv

\* The sizes of the messages.
LEMMA SizeType ==
  /\ Messages = 1..Len(Size) /\ Len(Size) \in Nat /\ 0 \notin Messages
  /\ \A m \in Messages : SizeOf(m) \in Nat
BY WorkerAssumption DEF Messages, SizeOf

\* Nothing was scheduled yet.
LEMMA RequestsInit == Init => RequestsInv
<1> SUFFICES ASSUME Init PROVE OrderInv
  BY DEF RequestsInv
<1> USE DEF Init, lv2_worker_init
<1>1. Taken = 0 /\ Len(scheduled) = 0 /\ Len(requests) = 0 /\ Len(worked) = 0
  BY DEF Taken
<1> DEFINE at == [m \in 1..1 |-> 1]
<1>2. at \in [1..1 -> 1..1] /\ LaidOut(at)
  BY <1>1, SizeType DEF LaidOut
<1>3. \E where \in [(Taken + 1)..(Len(scheduled) + 1) -> 1..(Len(requests) + 1)] : LaidOut(where)
  BY <1>1, <1>2
<1> HIDE DEF at
<1> QED
  BY <1>1, <1>3 DEF OrderInv

\* A message that starts and ends in a ring lies in it.
LEMMA LiesWithin ==
  ASSUME NEW start \in Nat, start >= 1, NEW size \in Nat, NEW end \in Nat,
         start + 1 + size <= end
  PROVE  start \in 1..end /\ \A n \in 1..size : start + n \in 1..end
OBVIOUS

\* lv2_worker_schedule writes the size of the next request ...
LEMMA ScheduleSizeStep ==
  ASSUME RequestsInv, NEW m \in Messages, ScheduleSize(m)
  PROVE  RequestsInv'
<1> SUFFICES ASSUME ~dropped' PROVE OrderInv'
  BY DEF RequestsInv
<1>1. OrderInv /\ Len(requests) + 1 <= RingSize
  BY DEF RequestsInv, ScheduleSize, Fits
<1>2. /\ half = 0 /\ half' = m /\ m = Len(scheduled) + 1
      /\ requests' = RingWrite(requests, RingSize, <<Header(m)>>)
      /\ UNCHANGED <<sem, scheduled, wpc, job, worked>>
  BY DEF ScheduleSize, threadVars
<1>3. <<Header(m)>> \in Seq(RequestCells) /\ Len(<<Header(m)>>) = 1
  BY DEF RequestCells, Header
<1>4. /\ requests' \in Seq(RequestCells) /\ Len(requests') = Len(requests) + 1
      /\ \A n \in 1..Len(requests) : requests'[n] = requests[n]
      /\ requests'[Len(requests) + 1] = Header(m)
  <2>1. requests \in Seq(RequestCells)
    BY <1>1 DEF OrderInv
  <2> DEFINE cells == <<Header(m)>>
  <2>2. cells \in Seq(RequestCells) /\ Len(cells) = 1 /\ cells[1] = Header(m)
    BY <1>3
  <2>3. Len(requests) \in Nat /\ Len(requests) + Len(cells) <= RingSize
    BY <1>1, <2>1, <2>2
  <2> HIDE DEF cells
  <2>4. requests' = requests \o cells
    BY <1>2, <2>3 DEF RingWrite, cells
  <2>5. requests \o cells \in Seq(RequestCells)
    BY <2>1, <2>2, ConcatProperties, Zenon
  <2>8. Len(requests \o cells) = Len(requests) + Len(cells)
    BY <2>1, <2>2, ConcatProperties, Zenon
  <2>6. \A n \in 1..Len(requests) : (requests \o cells)[n] = requests[n]
    BY <2>1, <2>2, ConcatProperties
  <2>7. (requests \o cells)[Len(requests) + 1] = cells[1]
    BY <2>1, <2>2, <2>3
  <2> QED
    BY <2>2, <2>4, <2>5, <2>6, <2>7, <2>8
<1>5. PICK at \in [(Taken + 1)..(Len(scheduled) + 1) -> 1..(Len(requests) + 1)] : LaidOut(at)
  BY <1>1 DEF OrderInv
<1>6. /\ Taken' = Taken /\ Taken \in Nat /\ Taken <= Len(scheduled)
      /\ Len(scheduled) \in Nat /\ Len(requests) \in Nat
  BY <1>1, <1>2 DEF Taken, OrderInv
<1>9. ASSUME NEW n \in (Taken + 1)..(Len(scheduled) + 1)
      PROVE  n \in DOMAIN at /\ at[n] \in 1..(Len(requests) + 1)
  BY <1>5
<1>7. at \in [(Taken' + 1)..(Len(scheduled') + 1) -> 1..(Len(requests') + 1)]
  BY <1>2, <1>4, <1>5, <1>6
<1>8. LaidOut(at)'
  <2>1. ASSUME NEW l \in (Taken + 1)..Len(scheduled)
        PROVE  /\ at[l + 1] = at[l] + 1 + SizeOf(l)
               /\ requests'[at[l]] = Header(l)
               /\ \A n \in 1..SizeOf(l) : requests'[at[l] + n] = Unit(l)
    <3>1. /\ l \in 1..Len(scheduled) /\ l \in Nat
          /\ at[l] \in 1..(Len(requests) + 1) /\ at[l + 1] \in 1..(Len(requests) + 1)
      BY <1>6, <1>9
    <3>2. SizeOf(l) \in Nat
      <4>1. l = scheduled[l] /\ scheduled[l] \in Messages
        BY <1>1, <3>1 DEF OrderInv
      <4> QED
        BY <4>1, SizeType
    <3>3. at[l + 1] = at[l] + 1 + SizeOf(l) /\ at[l + 1] <= Len(requests) + 1
      BY <1>5, <3>1 DEF LaidOut
    <3>4. at[l] \in 1..Len(requests) /\ \A n \in 1..SizeOf(l) : at[l] + n \in 1..Len(requests)
      BY <1>6, <3>1, <3>2, <3>3
    <3> QED
      BY <1>4, <1>5, <3>3, <3>4 DEF LaidOut
  <2>2. Len(requests) + 1 = at[Len(scheduled) + 1]
    <3>1. at[Len(scheduled) + 1] \in Nat
      BY <1>6, <1>9
    <3> QED
      BY <1>2, <1>5, <3>1 DEF LaidOut
  <2>3. m # 0
    BY SizeType
  <2>5. at[Taken + 1] = 1 /\ \A l, n \in DOMAIN at : l <= n => at[l] <= at[n]
    BY <1>5 DEF LaidOut
  <2>6. Len(requests') + 1 = at[Len(scheduled) + 1] + 1
    BY <1>4, <1>6, <2>2
  <2>7. requests'[Len(requests')] = Header(m)
    BY <1>4
  <2> QED
    BY <1>2, <1>6, <2>1, <2>3, <2>5, <2>6, <2>7 DEF LaidOut
<1> QED
  BY <1>1, <1>2, <1>4, <1>6, <1>7, <1>8 DEF OrderInv

\* The body of a message.
LEMMA BodyType ==
  ASSUME NEW m \in Messages, NEW size \in Nat
  PROVE  /\ Body(m, size) \in Seq(RequestCells)
         /\ Len(Body(m, size)) = size
         /\ \A n \in 1..size : Body(m, size)[n] = Unit(m)
<1>1. Unit(m) \in RequestCells
  BY DEF Unit, RequestCells
<1>2. [n \in 1..size |-> Unit(m)] \in Seq(RequestCells)
  BY <1>1
<1>3. DOMAIN [n \in 1..size |-> Unit(m)] = 1..size
  OBVIOUS
<1> QED
  BY <1>2, <1>3 DEF Body

\* ... then its body, and posts.
LEMMA ScheduleBodyStep ==
  ASSUME RequestsInv, ScheduleBody
  PROVE  RequestsInv'
<1> SUFFICES ASSUME ~dropped' PROVE OrderInv'
  BY DEF RequestsInv
<1> DEFINE size == SizeOf(half)
           last == Len(scheduled)
           end == Len(requests)
           cells == Body(half, size)
<1>1. OrderInv /\ end + size <= RingSize
  BY DEF RequestsInv, ScheduleBody, Fits
<1>2. /\ half \in Messages /\ half = last + 1 /\ half' = 0 /\ half # 0
      /\ scheduled' = Append(scheduled, half)
      /\ requests' = RingWrite(requests, RingSize, cells)
      /\ sem' = sem + 1
      /\ UNCHANGED <<wpc, job, worked>>
  BY <1>1, SizeType DEF ScheduleBody, threadVars, OrderInv
<1>3. size \in Nat
  BY <1>2, SizeType
<1>4. /\ Taken' = Taken /\ Taken \in Nat /\ Taken <= last
      /\ last \in Nat /\ end \in Nat /\ requests \in Seq(RequestCells)
      /\ scheduled \in Seq(Messages)
  BY <1>1, <1>2 DEF Taken, OrderInv
<1>5. /\ scheduled' \in Seq(Messages) /\ Len(scheduled') = last + 1
      /\ \A n \in 1..(last + 1) : scheduled'[n] = n
  BY <1>1, <1>2, <1>4 DEF OrderInv
<1>6. /\ requests' \in Seq(RequestCells) /\ Len(requests') = end + size
      /\ \A n \in 1..end : requests'[n] = requests[n]
      /\ \A n \in 1..size : requests'[end + n] = Unit(half)
  <2>1. cells \in Seq(RequestCells) /\ Len(cells) = size /\ \A n \in 1..size : cells[n] = Unit(half)
    BY <1>2, <1>3, BodyType
  <2> HIDE DEF cells, size, end
  <2>2. requests' = requests \o cells
    BY <1>1, <1>2, <2>1 DEF RingWrite, end
  <2>3. requests \o cells \in Seq(RequestCells)
    BY <1>4, <2>1, ConcatProperties, Zenon
  <2>4. Len(requests \o cells) = end + Len(cells)
    BY <1>4, <2>1, ConcatProperties, Zenon DEF end
  <2>5. \A n \in 1..end : (requests \o cells)[n] = requests[n]
    BY <1>4, <2>1 DEF end
  <2>6. \A n \in 1..size : (requests \o cells)[end + n] = cells[n]
    BY <1>3, <1>4, <2>1 DEF end
  <2> QED
    BY <2>1, <2>2, <2>3, <2>4, <2>5, <2>6
<1>7. PICK at \in [(Taken + 1)..(last + 1) -> 1..(end + 1)] : LaidOut(at)
  BY <1>1 DEF OrderInv
<1>8. ASSUME NEW n \in (Taken + 1)..(last + 1)
      PROVE  n \in DOMAIN at /\ at[n] \in 1..(end + 1)
  BY <1>7
<1>9. at[last + 1] = end /\ requests[end] = Header(half)
  <2>1. at[last + 1] \in Nat
    BY <1>4, <1>8
  <2> QED
    BY <1>2, <1>4, <1>7, <2>1 DEF LaidOut
<1> HIDE DEF size, last, end, cells
<1>10. PICK longer \in [(Taken + 1)..(last + 2) -> 1..(end + size + 1)] :
         /\ \A m \in (Taken + 1)..(last + 1) : longer[m] = at[m]
         /\ longer[last + 2] = end + 1 + size
  <2> DEFINE extended == [n \in (Taken + 1)..(last + 2) |->
                            IF n <= last + 1 THEN at[n] ELSE end + 1 + size]
  <2>1. ASSUME NEW n \in (Taken + 1)..(last + 2)
        PROVE  extended[n] \in 1..(end + size + 1)
    <3>1. CASE n <= last + 1
      BY <1>3, <1>4, <1>8, <3>1
    <3>2. CASE ~(n <= last + 1)
      BY <1>3, <1>4, <3>2
    <3> QED
      BY <3>1, <3>2
  <2>2. \A m \in (Taken + 1)..(last + 1) : extended[m] = at[m]
    BY <1>4
  <2>3. extended[last + 2] = end + 1 + size
    BY <1>4
  <2>4. extended \in [(Taken + 1)..(last + 2) -> 1..(end + size + 1)]
    BY <2>1
  <2> HIDE DEF extended
  <2> QED
    BY <2>2, <2>3, <2>4
<1>11. \A m \in (Taken + 1)..(last + 1) : longer[m] = at[m]
  BY <1>10
<1>12. longer[last + 2] = end + 1 + size
  BY <1>10
<1>13. DOMAIN longer = (Taken + 1)..(last + 2)
  BY <1>10
<1>14. longer[Taken + 1] = 1
  BY <1>4, <1>7, <1>11 DEF LaidOut
<1>15. ASSUME NEW m \in DOMAIN longer, NEW n \in DOMAIN longer, m <= n
       PROVE  longer[m] <= longer[n]
  <2>1. CASE n <= last + 1
    <3>1. m \in (Taken + 1)..(last + 1) /\ n \in (Taken + 1)..(last + 1)
      BY <1>4, <1>13, <1>15, <2>1
    <3>2. at[m] <= at[n]
      BY <1>8, <1>7, <1>15, <3>1 DEF LaidOut
    <3> QED
      BY <1>11, <3>1, <3>2
  <2>2. CASE n = last + 2 /\ m <= last + 1
    <3>1. m \in (Taken + 1)..(last + 1)
      BY <1>4, <1>13, <2>2
    <3>2. longer[m] \in 1..(end + 1)
      BY <1>8, <1>11, <3>1
    <3> QED
      BY <1>3, <1>4, <1>12, <2>2, <3>2
  <2>3. CASE n = last + 2 /\ m = last + 2
    BY <1>3, <1>4, <1>12, <2>3
  <2> QED
    BY <1>4, <1>13, <1>15, <2>1, <2>2, <2>3
<1>16. ASSUME NEW m \in (Taken + 1)..(last + 1)
       PROVE  /\ longer[m + 1] = longer[m] + 1 + SizeOf(m)
              /\ requests'[longer[m]] = Header(m)
              /\ \A n \in 1..SizeOf(m) : requests'[longer[m] + n] = Unit(m)
  <2>1. CASE m <= last
    <3>1. /\ m \in (Taken + 1)..last /\ m \in Nat /\ m \in 1..last
          /\ m + 1 \in (Taken + 1)..(last + 1)
      BY <1>4, <2>1
    <3>2. /\ at[m + 1] = at[m] + 1 + SizeOf(m)
          /\ requests[at[m]] = Header(m)
          /\ \A n \in 1..SizeOf(m) : requests[at[m] + n] = Unit(m)
      BY <1>7, <3>1 DEF LaidOut, last
    <3>3. SizeOf(m) \in Nat
      <4>1. m = scheduled[m] /\ scheduled[m] \in Messages
        BY <1>1, <1>4, <3>1 DEF OrderInv, last
      <4> QED
        BY <4>1, SizeType
    <3>4. at[m + 1] <= at[last + 1]
      <4>1. m + 1 <= last + 1 /\ last + 1 \in (Taken + 1)..(last + 1)
        BY <1>4, <3>1
      <4> QED
        BY <1>7, <1>8, <3>1, <4>1 DEF LaidOut
    <3>5. at[m] \in 1..end /\ \A n \in 1..SizeOf(m) : at[m] + n \in 1..end
      <4>1. at[m] \in 1..(end + 1) /\ at[m + 1] \in 1..(end + 1)
        BY <1>8, <3>1
      <4>2. at[m] + 1 + SizeOf(m) <= end
        BY <1>9, <3>2, <3>4
      <4>3. at[m] \in Nat /\ at[m] >= 1
        BY <1>4, <4>1
      <4> QED
        BY <1>4, <3>3, <4>2, <4>3, LiesWithin
    <3>6. longer[m] = at[m] /\ longer[m + 1] = at[m + 1]
      BY <1>11, <3>1
    <3> QED
      BY <1>6, <3>2, <3>5, <3>6
  <2>2. CASE m = last + 1
    <3>1. longer[m] = end /\ m + 1 = last + 2 /\ m = half
      BY <1>2, <1>4, <1>9, <1>11, <2>2 DEF last
    <3>2. end \in 1..end
      BY <1>4, <1>8, <1>9
    <3>3. SizeOf(m) = size
      BY <3>1 DEF size
    <3> QED
      BY <1>3, <1>4, <1>6, <1>9, <1>12, <3>1, <3>2, <3>3
  <2> QED
    BY <1>4, <2>1, <2>2
<1>17. Len(requests') + 1 = longer[last + 2] + 0
  BY <1>3, <1>4, <1>6, <1>12
<1>18. LaidOut(longer)'
  <2>1. (last + 1) + 1 = last + 2
    BY <1>4
  <2> QED
    BY <1>2, <1>4, <1>5, <1>14, <1>15, <1>16, <1>17, <2>1 DEF LaidOut
<1>19. \E where \in [(Taken' + 1)..(Len(scheduled') + 1) -> 1..(Len(requests') + 1)] : LaidOut(where)'
  <2>1. (last + 1) + 1 = last + 2
    BY <1>4
  <2>2. longer \in [(Taken' + 1)..(Len(scheduled') + 1) -> 1..(Len(requests') + 1)]
    BY <1>4, <1>5, <1>6, <1>10, <2>1
  <2> QED
    BY <1>18, <2>2
<1> QED
  <2>1. sem' \in Nat /\ sem' + (IF wpc = "read" THEN 1 ELSE 0) = (last + 1) - Taken
    <3>1. sem \in Nat /\ sem + (IF wpc = "read" THEN 1 ELSE 0) = last - Taken
      BY <1>1 DEF OrderInv, last
    <3> QED
      BY <1>2, <1>4, <3>1
  <2>2. Taken <= last + 1
    BY <1>4
  <2> QED
    BY <1>1, <1>2, <1>4, <1>5, <1>6, <1>19, <2>1, <2>2 DEF OrderInv

\* worker_func wakes up: a request is in the ring.
LEMMA WorkerWaitStep ==
  ASSUME RequestsInv, WorkerWait
  PROVE  RequestsInv'
<1> SUFFICES ASSUME ~dropped' PROVE OrderInv'
  BY DEF RequestsInv
<1>1. /\ OrderInv /\ wpc = "wait" /\ wpc' = "read" /\ sem > 0 /\ sem' = sem - 1
      /\ UNCHANGED <<requests, scheduled, half, job, worked>>
  BY DEF RequestsInv, WorkerWait
<1>2. Taken' = Taken
  BY <1>1 DEF Taken
<1>3. sem' \in Nat /\ sem' + 1 = Len(scheduled) - Taken
  <2>1. sem \in Nat /\ sem + 0 = Len(scheduled) - Taken
    BY <1>1 DEF OrderInv
  <2> QED
    BY <1>1, <2>1
<1>4. \A at : LaidOut(at)' <=> LaidOut(at)
  BY <1>1, <1>2 DEF LaidOut
<1> QED
  BY <1>1, <1>2, <1>3, <1>4 DEF OrderInv

\* It takes the size and the body of the oldest request, and nothing more.
LEMMA WorkerReadStep ==
  ASSUME RequestsInv, WorkerRead
  PROVE  RequestsInv'
<1> SUFFICES ASSUME ~dropped' PROVE OrderInv'
  BY DEF RequestsInv
<1> DEFINE first == Taken + 1
           size == SizeOf(first)
           last == Len(scheduled)
           end == Len(requests)
           rest == RingRest(requests, 1)
<1>1. OrderInv /\ wpc = "read" /\ UNCHANGED <<sem, scheduled, half, worked>>
  BY DEF RequestsInv, WorkerRead
<1>2. /\ Taken = Len(worked) /\ Taken \in Nat /\ last \in Nat /\ end \in Nat
      /\ requests \in Seq(RequestCells) /\ scheduled \in Seq(Messages)
      /\ sem \in Nat /\ sem + 1 = last - Taken
  BY <1>1 DEF Taken, OrderInv
<1>3. first \in 1..last /\ first <= last
  BY <1>2
<1>4. first \in Messages /\ first # 0 /\ size \in Nat
  <2>1. scheduled[first] = first /\ scheduled[first] \in Messages
    BY <1>1, <1>2, <1>3 DEF OrderInv
  <2> QED
    BY <2>1, SizeType
<1>5. PICK at \in [first..(last + 1) -> 1..(end + 1)] : LaidOut(at)
  BY <1>1 DEF OrderInv
<1>6. ASSUME NEW n \in first..(last + 1)
      PROVE  n \in DOMAIN at /\ at[n] \in 1..(end + 1)
  BY <1>5
<1>7. /\ at[first] = 1 /\ at[first + 1] = 2 + size
      /\ requests[1] = Header(first)
      /\ \A n \in 1..size : requests[1 + n] = Unit(first)
  <2>1. first \in first..last
    BY <1>2, <1>3
  <2>2. /\ at[first] = 1 /\ at[first + 1] = at[first] + 1 + size
        /\ requests[at[first]] = Header(first)
        /\ \A n \in 1..size : requests[at[first] + n] = Unit(first)
    BY <1>5, <2>1 DEF LaidOut
  <2> QED
    BY <1>4, <2>2
<1>8. 1 + size <= end
  <2>1. first + 1 \in first..(last + 1) /\ last + 1 \in first..(last + 1)
    BY <1>2, <1>3
  <2>2. at[first + 1] <= at[last + 1]
    BY <1>2, <1>3, <1>5, <1>6, <2>1 DEF LaidOut
  <2>3. end + 1 = at[last + 1] + (IF half = 0 THEN 0 ELSE 1)
    BY <1>5 DEF LaidOut
  <2>4. at[last + 1] \in 1..(end + 1)
    BY <1>6, <2>1
  <2> QED
    BY <1>2, <1>4, <1>7, <2>2, <2>3, <2>4
<1>9. requests # <<>> /\ requests[1].is = "header" /\ requests[1].of = first
  BY <1>2, <1>4, <1>7, <1>8 DEF Header
<1>10. MessagesAt(requests) = {first}
  BY <1>9 DEF MessagesAt
<1>11. rest = SubSeq(requests, 2, end)
  BY <1>2, <1>4, <1>8 DEF RingRest
<1> HIDE DEF last, end, rest, size
<1>12. /\ rest \in Seq(RequestCells) /\ Len(rest) = end - 1
       /\ \A n \in 1..(end - 1) : rest[n] = requests[1 + n]
  <2>1. /\ 2 \in Int /\ end \in Int /\ (2 <= end \/ end = 1)
        /\ \A n \in 2..end : requests[n] \in RequestCells
    <3>1. end \in Nat /\ requests \in Seq(RequestCells) /\ end = Len(requests)
      BY <1>2 DEF end
    <3>2. \A n \in 2..end : requests[n] \in RequestCells
      BY <3>1
    <3>3. end >= 1
      BY <1>4, <1>8, <3>1
    <3> QED
      BY <3>1, <3>2, <3>3
  <2>2. /\ rest \in Seq(RequestCells)
        /\ Len(rest) = IF 2 <= end THEN end - 2 + 1 ELSE 0
        /\ \A n \in 1..(end - 2 + 1) : rest[n] = requests[2 + n - 1]
    BY <1>11, <2>1, SubSeqProperties
  <2> QED
    BY <2>1, <2>2
<1>13. RingRead(rest, size) = Body(first, size)
  <2>1. size <= Len(rest)
    BY <1>2, <1>4, <1>8, <1>12
  <2>2. RingRead(rest, size) = SubSeq(rest, 1, size)
    BY <2>1 DEF RingRead
  <2>3. SubSeq(rest, 1, size) = [n \in 1..size |-> rest[n]]
    BY <1>4, <1>12, <2>1
  <2>4. \A n \in 1..size : rest[n] = Unit(first)
    BY <1>2, <1>4, <1>7, <1>8, <1>12
  <2> QED
    BY <2>2, <2>3, <2>4 DEF Body
<1>14. /\ job' = first
       /\ \/ wpc' = "ended" /\ requests' = rest /\ size = 0
          \/ wpc' = "lock" /\ requests' = RingRest(rest, size)
  BY <1>4, <1>10, <1>13 DEF WorkerRead, rest, size
<1>15. /\ requests' \in Seq(RequestCells) /\ Len(requests') = end - (1 + size)
       /\ \A n \in 1..(end - (1 + size)) : requests'[n] = requests[n + (1 + size)]
  <2>1. CASE requests' = rest /\ size = 0
    BY <1>2, <1>12, <2>1
  <2>2. CASE requests' = RingRest(rest, size)
    <3>1. requests' = SubSeq(rest, size + 1, end - 1)
      <4>1. size <= Len(rest)
        BY <1>2, <1>4, <1>8, <1>12
      <4> QED
        BY <1>12, <2>2, <4>1 DEF RingRest
    <3>2. \A n \in (size + 1)..(end - 1) : rest[n] \in RequestCells
      BY <1>2, <1>4, <1>12
    <3>3. /\ requests' \in Seq(RequestCells)
          /\ Len(requests') = IF size + 1 <= end - 1 THEN (end - 1) - (size + 1) + 1 ELSE 0
          /\ \A n \in 1..((end - 1) - (size + 1) + 1) : requests'[n] = rest[(size + 1) + n - 1]
      <4>1. size + 1 \in Int /\ end - 1 \in Int
        BY <1>2, <1>4
      <4> QED
        BY <3>1, <3>2, <4>1, SubSeqProperties
    <3>4. Len(requests') = end - (1 + size)
      BY <1>2, <1>4, <1>8, <3>3
    <3>5. ASSUME NEW n \in 1..(end - (1 + size))
          PROVE  requests'[n] = requests[n + (1 + size)]
      <4>1. n \in 1..((end - 1) - (size + 1) + 1) /\ size + n \in 1..(end - 1)
            /\ (size + 1) + n - 1 = size + n /\ 1 + (size + n) = n + (1 + size)
        BY <1>2, <1>4, <1>8, <3>5
      <4>2. requests'[n] = rest[size + n]
        BY <3>3, <4>1
      <4>3. rest[size + n] = requests[1 + (size + n)]
        BY <1>12, <4>1
      <4> QED
        BY <4>1, <4>2, <4>3
    <3> QED
      BY <3>3, <3>4, <3>5
  <2> QED
    BY <1>14, <2>1, <2>2
<1>16. Taken' = first /\ job' = Len(worked') + 1
  BY <1>1, <1>2, <1>14 DEF Taken
<1> HIDE DEF first
<1>17. ASSUME NEW n \in (first + 1)..(last + 1)
       PROVE  at[n] - (1 + size) \in 1..(Len(requests') + 1)
  <2>1. at[first + 1] <= at[n]
    <3>1. n \in first..(last + 1) /\ first + 1 \in first..(last + 1) /\ first + 1 <= n
      BY <1>2, <1>3
    <3> QED
      BY <1>5, <1>6, <3>1 DEF LaidOut
  <2>2. at[n] \in 1..(end + 1)
    BY <1>2, <1>3, <1>6
  <2>3. Len(requests') = end - (1 + size) /\ at[first + 1] = 2 + size
    BY <1>7, <1>15
  <2> QED
    BY <1>2, <1>4, <1>8, <2>1, <2>2, <2>3
<1>18. PICK moved \in [(first + 1)..(last + 1) -> 1..(Len(requests') + 1)] :
         \A n \in (first + 1)..(last + 1) : moved[n] = at[n] - (1 + size)
  <2> DEFINE shifted == [n \in (first + 1)..(last + 1) |-> at[n] - (1 + size)]
  <2>1. shifted \in [(first + 1)..(last + 1) -> 1..(Len(requests') + 1)]
    BY <1>17
  <2> QED
    BY <2>1
<1>19. moved[first + 1] = 1
  <2>1. first + 1 \in (first + 1)..(last + 1)
    BY <1>2, <1>3
  <2> QED
    BY <1>4, <1>7, <1>18, <2>1
<1>20. ASSUME NEW m \in DOMAIN moved, NEW n \in DOMAIN moved, m <= n
       PROVE  moved[m] <= moved[n]
  <2>1. m \in first..(last + 1) /\ n \in first..(last + 1)
    BY <1>2, <1>3, <1>18
  <2>2. at[m] <= at[n] /\ at[m] \in 1..(end + 1) /\ at[n] \in 1..(end + 1)
    BY <1>5, <1>6, <1>20, <2>1 DEF LaidOut
  <2>3. moved[m] = at[m] - (1 + size) /\ moved[n] = at[n] - (1 + size)
    BY <1>18
  <2> QED
    BY <1>2, <1>4, <2>2, <2>3
<1>21. ASSUME NEW m \in (first + 1)..last
       PROVE  /\ moved[m + 1] = moved[m] + 1 + SizeOf(m)
              /\ requests'[moved[m]] = Header(m)
              /\ \A n \in 1..SizeOf(m) : requests'[moved[m] + n] = Unit(m)
  <2>1. /\ m \in first..last /\ m \in (first + 1)..(last + 1) /\ m + 1 \in (first + 1)..(last + 1)
        /\ m \in 1..last /\ m \in first..(last + 1) /\ m + 1 \in first..(last + 1)
    BY <1>2, <1>3
  <2>2. SizeOf(m) \in Nat
    <3>1. scheduled[m] = m /\ scheduled[m] \in Messages
      BY <1>1, <1>2, <2>1 DEF OrderInv, last
    <3> QED
      BY <3>1, SizeType
  <2>3. /\ at[m + 1] = at[m] + 1 + SizeOf(m)
        /\ requests[at[m]] = Header(m)
        /\ \A n \in 1..SizeOf(m) : requests[at[m] + n] = Unit(m)
    BY <1>5, <2>1 DEF LaidOut, last, first
  <2>4. moved[m] = at[m] - (1 + size) /\ moved[m + 1] = at[m + 1] - (1 + size)
    BY <1>18, <2>1
  <2>5. at[m] \in Nat /\ at[m + 1] \in Nat
    BY <1>2, <1>6, <2>1
  <2>6. moved[m + 1] = moved[m] + 1 + SizeOf(m)
    BY <1>4, <2>2, <2>3, <2>4, <2>5
  <2>7. moved[m] \in Nat /\ moved[m] >= 1 /\ moved[m + 1] \in 1..(Len(requests') + 1)
    BY <1>15, <1>18, <2>1
  <2>8. moved[last + 1] <= Len(requests') + 1
    BY <1>18, <1>2, <1>3
  <2>9. /\ moved[m] \in 1..Len(requests')
        /\ \A n \in 1..SizeOf(m) : moved[m] + n \in 1..Len(requests')
    <3>1. Len(requests') \in Nat
      BY <1>15
    <3>2. moved[m] + 1 + SizeOf(m) <= Len(requests') + 1
      BY <2>6, <2>7, <3>1
    <3> QED
      BY <2>2, <2>7, <3>1, <3>2
  <2>10. requests'[moved[m]] = requests[moved[m] + (1 + size)]
    BY <1>15, <2>9
  <2>11. ASSUME NEW n \in 1..SizeOf(m)
         PROVE  requests'[moved[m] + n] = requests[at[m] + n]
    <3>1. requests'[moved[m] + n] = requests[(moved[m] + n) + (1 + size)]
      BY <1>15, <2>9
    <3>2. (moved[m] + n) + (1 + size) = at[m] + n
      BY <1>4, <2>2, <2>4, <2>5
    <3> QED
      BY <3>1, <3>2
  <2>12. moved[m] + (1 + size) = at[m]
    BY <1>4, <2>4, <2>5
  <2> QED
    BY <2>3, <2>6, <2>10, <2>11, <2>12
<1>22. Len(requests') + 1 = moved[last + 1] + (IF half = 0 THEN 0 ELSE 1)
  <2>1. last + 1 \in (first + 1)..(last + 1) /\ last + 1 \in first..(last + 1)
    BY <1>2, <1>3
  <2>2. end + 1 = at[last + 1] + (IF half = 0 THEN 0 ELSE 1)
    BY <1>5 DEF LaidOut, last, end
  <2>3. at[last + 1] \in Nat /\ moved[last + 1] = at[last + 1] - (1 + size)
    BY <1>2, <1>6, <1>18, <2>1
  <2> QED
    BY <1>2, <1>4, <1>15, <2>2, <2>3
<1>23. half # 0 => requests'[Len(requests')] = Header(half)
  <2> SUFFICES ASSUME half # 0 PROVE requests'[Len(requests')] = Header(half)
    OBVIOUS
  <2>1. requests[end] = Header(half)
    BY <1>5 DEF LaidOut, end
  <2>2. Len(requests') \in 1..(end - (1 + size)) /\ Len(requests') + (1 + size) = end
    <3>1. last + 1 \in (first + 1)..(last + 1)
      BY <1>2, <1>3
    <3>2. moved[last + 1] >= 1 /\ moved[last + 1] \in Nat
      BY <1>15, <1>18, <3>1
    <3>3. Len(requests') + 1 = moved[last + 1] + 1
      BY <1>22
    <3> QED
      BY <1>2, <1>4, <1>15, <3>2, <3>3
  <2> QED
    BY <1>15, <2>1, <2>2
<1>24. LaidOut(moved)'
  BY <1>1, <1>16, <1>19, <1>20, <1>21, <1>22, <1>23 DEF LaidOut, last
<1>25. moved \in [(Taken' + 1)..(Len(scheduled') + 1) -> 1..(Len(requests') + 1)]
  BY <1>1, <1>16, <1>18 DEF last
<1>26. sem' + (IF wpc' = "read" THEN 1 ELSE 0) = Len(scheduled') - Taken'
  <2>1. first = Taken + 1 /\ wpc' # "read"
    BY <1>14 DEF first
  <2> QED
    BY <1>1, <1>2, <1>16, <2>1 DEF last
<1>27. Taken' <= Len(scheduled')
  BY <1>1, <1>3, <1>16 DEF last
<1>28. \E where \in [(Taken' + 1)..(Len(scheduled') + 1) -> 1..(Len(requests') + 1)] : LaidOut(where)'
  BY <1>24, <1>25
<1> QED
  BY <1>1, <1>15, <1>16, <1>26, <1>27, <1>28 DEF OrderInv

\* It takes the lock and calls work() with the request that it took.
LEMMA WorkerLockStep ==
  ASSUME RequestsInv, WorkerLock
  PROVE  RequestsInv'
<1> SUFFICES ASSUME ~dropped' PROVE OrderInv'
  BY DEF RequestsInv
<1>1. /\ OrderInv /\ wpc = "lock" /\ wpc' = "work" /\ worked' = Append(worked, job)
      /\ UNCHANGED <<requests, sem, scheduled, half, job>>
  BY DEF RequestsInv, WorkerLock, requestVars
<1>2. /\ worked \in Seq(Messages) /\ scheduled \in Seq(Messages)
      /\ Taken = Len(worked) + 1 /\ job = Len(worked) + 1 /\ Taken <= Len(scheduled)
  BY <1>1 DEF OrderInv, Taken
<1>3. job \in Messages
  <2>1. job \in 1..Len(scheduled)
    BY <1>2
  <2>2. scheduled[job] = job /\ scheduled[job] \in Messages
    BY <1>1, <1>2, <2>1 DEF OrderInv
  <2> QED
    BY <2>2
<1>4. /\ worked' \in Seq(Messages) /\ Len(worked') = Len(worked) + 1
      /\ \A n \in 1..Len(worked') : worked'[n] = n
  BY <1>1, <1>2, <1>3 DEF OrderInv
<1>5. Taken' = Taken
  BY <1>1, <1>2, <1>4 DEF Taken
<1>6. \A at : LaidOut(at)' <=> LaidOut(at)
  BY <1>1, <1>5 DEF LaidOut
<1> QED
  BY <1>1, <1>4, <1>5, <1>6 DEF OrderInv

\* Responses and locks are nothing to the requests.
LEMMA WorkerAnswersStep ==
  ASSUME RequestsInv, UNCHANGED <<requestVars, worked, dropped>>,
         \/ wpc' = wpc /\ job' = job
         \/ wpc \in {"work", "body", "unlock"} /\ wpc' \in {"body", "unlock", "wait"}
  PROVE  RequestsInv'
<1> SUFFICES ASSUME ~dropped' PROVE OrderInv'
  BY DEF RequestsInv
<1>1. OrderInv /\ UNCHANGED <<requests, sem, scheduled, half, worked>>
  BY DEF RequestsInv, requestVars
<1>2. Taken' = Taken /\ (wpc' = "read" <=> wpc = "read")
  BY <1>1 DEF Taken
<1>3. \A at : LaidOut(at)' <=> LaidOut(at)
  BY <1>1, <1>2 DEF LaidOut
<1>4. wpc' = "lock" => job' = Len(worked') + 1
  BY <1>1 DEF OrderInv
<1> QED
  BY <1>1, <1>2, <1>3, <1>4 DEF OrderInv

\* The thread of the worker, and what the other threads do to the worker.
LEMMA WorkerThreadStep ==
  ASSUME RequestsInv, WorkerThread
  PROVE  RequestsInv'
<1>1. CASE RespondSize
  BY <1>1, WorkerAnswersStep DEF RespondSize
<1>2. CASE RespondBody
  BY <1>2, WorkerAnswersStep DEF RespondBody
<1>3. CASE WorkerUnlock
  BY <1>3, WorkerAnswersStep DEF WorkerUnlock
<1> QED
  BY <1>1, <1>2, <1>3, WorkerWaitStep, WorkerReadStep, WorkerLockStep DEF WorkerThread

\* Neither the responses nor a restore touches the requests.
LEMMA HostAnswers ==
  ASSUME RequestsInv,
         \/ EmitResponses \/ RestoreSchedules \/ UNCHANGED workerVars
  PROVE  RequestsInv'
<1>1. UNCHANGED <<requestVars, worked, dropped>> /\ wpc' = wpc /\ job' = job
  <2>1. CASE EmitResponses
    BY <2>1 DEF EmitResponses, EmitStart, EmitResponse, threadVars
  <2>2. CASE RestoreSchedules
    BY <2>2 DEF RestoreSchedules, ScheduleNow, ScheduleNowEnd, threadVars
  <2>3. CASE UNCHANGED workerVars
    BY <2>3 DEF workerVars, threadVars
  <2> QED
    BY <2>1, <2>2, <2>3
<1> QED
  BY <1>1, WorkerAnswersStep

\* Every step keeps the order of the requests.
LEMMA RequestsStep ==
  ASSUME RequestsInv, [Next]_vars
  PROVE  RequestsInv'
<1>1. CASE Work
  BY <1>1, WorkerThreadStep DEF Work
<1>2. CASE Schedule
  BY <1>2, ScheduleSizeStep, ScheduleBodyStep DEF Schedule
<1>3. CASE EmitResponses \/ RestoreSchedules
  BY <1>3, HostAnswers
<1>4. CASE SuilWrite \/ MoveWidget \/ DoubleClickSlot \/ DestroyWindow \/ lv2_close_ui \/
     IdleClose \/ UpdateStart \/ UpdateEvent \/ UpdateEnd
  <2>1. UNCHANGED workerVars
    BY <1>4 DEF SuilWrite, MoveWidget, DoubleClickSlot, DestroyWindow, lv2_close_ui,
         IdleClose, UpdateStart, UpdateEvent, UpdateEnd
  <2> QED
    BY <2>1, HostAnswers
<1>5. CASE DropPlugin \/ DialogEnds \/ OpenFirst \/ AddPlugin \/ lv2_apply_state \/
     WaitForPause \/ Restoring \/ Resume
  <2>1. UNCHANGED workerVars
    BY <1>5 DEF DropPlugin, DialogEnds, OpenFirst, AddPlugin, lv2_apply_state,
         WaitForPause, Restoring, Resume
  <2> QED
    BY <2>1, HostAnswers
<1>6. CASE on_preset_activate \/ on_save_preset_activate \/ on_delete_preset_activate \/
     UserTransport \/ TransportAnswers
  <2>1. UNCHANGED workerVars
    BY <1>6 DEF on_preset_activate, on_save_preset_activate, on_delete_preset_activate,
         UserTransport, TransportAnswers
  <2> QED
    BY <2>1, HostAnswers
<1>7. CASE PreparePorts \/ RunStart \/ MapUri \/ RunEnd \/ EmitEnd \/ SendHeader \/
     SendBody \/ ProcessEnd
  <2>1. UNCHANGED workerVars
    BY <1>7 DEF PreparePorts, RunStart, MapUri, RunEnd, EmitEnd, SendHeader, SendBody,
         ProcessEnd
  <2> QED
    BY <2>1, HostAnswers
<1>8. CASE UNCHANGED vars
  BY <1>8, HostAnswers DEF vars
<1> QED
  BY <1>1, <1>2, <1>3, <1>4, <1>5, <1>6, <1>7, <1>8 DEF Next, GtkThread, ChannelThread

\* The requests are in order in every state.
LEMMA RequestsInvariance == Spec => []RequestsInv
<1>1. Init => RequestsInv
  BY RequestsInit
<1>2. RequestsInv /\ [Next]_vars => RequestsInv'
  BY RequestsStep
<1> QED
  BY <1>1, <1>2, PTL DEF Spec

\* work() is given the requests that run() scheduled, whole and in order, as long as
\* no write found the ring full: two writes and a post on one side, a wait and two
\* reads on the other (lv2_worker_schedule and worker_func).
THEOREM RequestsInOrderCorrect == Spec => []RequestsInOrder
<1>1. ASSUME RequestsInv
      PROVE  RequestsInOrder
  <2> SUFFICES ASSUME OrderInv
               PROVE  /\ Len(worked) <= Len(scheduled)
                      /\ worked = SubSeq(scheduled, 1, Len(worked))
    BY <1>1 DEF RequestsInv, RequestsInOrder
  <2>1. /\ worked \in Seq(Messages) /\ scheduled \in Seq(Messages)
        /\ \A n \in 1..Len(scheduled) : scheduled[n] = n
        /\ \A n \in 1..Len(worked) : worked[n] = n
    BY DEF OrderInv
  <2>2. Len(worked) <= Len(scheduled)
    BY <2>1 DEF OrderInv, Taken
  <2>3. \A n \in 1..Len(worked) : worked[n] = scheduled[n]
    BY <2>1, <2>2
  <2> QED
    BY <2>1, <2>2, <2>3
<1> QED
  BY <1>1, RequestsInvariance, PTL
-----------------------------------------------------------------------------
(***************************************************************************)
(* The map of URIs: whatever is mapped keeps its index in order.           *)
(***************************************************************************)
\* A map without URIs is in order.
LEMMA EmptyMap == GoodMap(symap_new) /\ symap_new \in SymapType(Nat)
<1>1. symap_new.symbols = <<>> /\ symap_new.index = <<>> /\ SymapSize(symap_new) = 0
  BY DEF symap_new, SymapSize
<1>2. 1..0 = {}
  OBVIOUS
<1> QED
  BY <1>1, <1>2 DEF GoodMap, Sorted, SymapType, symap_new

\* Mapping a URI leads from a map to a map.
LEMMA MapType ==
  ASSUME NEW map \in SymapType(Nat), GoodMap(map), NEW uri \in Nat
  PROVE  map_uri(map, uri).map \in SymapType(Nat) /\ GoodMap(map_uri(map, uri).map)
<1> DEFINE new == symap_map(map, uri).map
<1>1. GoodMap(new)
  BY MapKeepsOrder
<1>2. new = map \/ new = [symbols |-> new.symbols, index |-> new.index]
  BY DEF symap_map
<1> HIDE DEF new
<1>3. new.symbols \in Seq(Nat) /\ new.index \in Seq(Nat)
  <2> DEFINE size == SymapSize(new)
  <2>1. new.symbols \in Seq(Nat) /\ new.index \in Seq(1..size) /\ size \in Nat
    BY <1>1 DEF GoodMap, SymapSize
  <2> HIDE DEF size
  <2>2. 1..size \subseteq Nat
    BY <2>1
  <2> QED
    BY <2>1, <2>2
<1>4. new \in SymapType(Nat)
  BY <1>2, <1>3 DEF SymapType
<1> QED
  BY <1>1, <1>4 DEF map_uri, new

\* What lv2_instantiate maps before all others.
LEMMA CachedMap == GoodMap(CachedUrids)
<1> DEFINE N == Len(CachedUris)
           S == {map \in SymapType(Nat) : GoodMap(map)}
           G == [p \in (1..N) \X S |-> symap_map(p[2], CachedUris[p[1]]).map]
           none == symap_new
           Rec(f) == f = [n \in 0..N |-> IF n = 0 THEN none
                                         ELSE symap_map(f[n - 1], CachedUris[n]).map]
<1>1. N \in Nat /\ none \in S /\ \A n \in 1..N : CachedUris[n] \in Nat
  BY InstanceAssumption, EmptyMap
<1>2. \A n \in 1..N, before \in S : symap_map(before, CachedUris[n]).map \in S
  BY <1>1, MapType DEF map_uri
<1> HIDE DEF Rec
<1>3. G \in [(1..N) \X S -> S]
  <2> HIDE DEF S, N
  <2> QED
    BY <1>2
<1>4. \A n \in 1..N, before \in S : G[<<n, before>>] = symap_map(before, CachedUris[n]).map
  <2> HIDE DEF S, N
  <2> QED
    OBVIOUS
<1> HIDE DEF G, N, S, none
<1>5. PICK f \in [0..N -> S] : GoesOn(f, N, none, G)
  BY <1>1, <1>3, RecursionExists
<1>6. \A n \in 1..N : n \in 0..N /\ n # 0 /\ n - 1 \in 0..N
  BY <1>1
<1>7. \A n \in 1..N : f[n] = symap_map(f[n - 1], CachedUris[n]).map
  BY <1>4, <1>5, <1>6 DEF GoesOn
<1>8. \A n \in 0..N : f[n] = IF n = 0 THEN none ELSE symap_map(f[n - 1], CachedUris[n]).map
  BY <1>1, <1>5, <1>7 DEF GoesOn
<1>9. Rec(f)
  <2>1. f = [n \in 0..N |-> f[n]]
    OBVIOUS
  <2> QED
    BY <2>1, <1>8 DEF Rec
<1> DEFINE mapped == CHOOSE g : Rec(g)
<1>10. Rec(mapped)
  BY <1>9
<1>11. CachedUrids = mapped[N]
  BY DEF CachedUrids, mapped, N, none, Rec
<1> HIDE DEF mapped
<1>12. \A n \in 0..N : mapped[n] = IF n = 0 THEN none
                                   ELSE symap_map(mapped[n - 1], CachedUris[n]).map
  BY <1>10 DEF Rec
<1>13. Alike(mapped, f, N)
  BY <1>1, <1>5, <1>6, <1>7, <1>12 DEF Alike, GoesOn
<1>14. mapped[N] = f[N] /\ f[N] \in S
  BY <1>1, <1>13, RecursionUnique
<1> QED
  BY <1>11, <1>14 DEF S

\* Whether a property gets a control or not, the map behind it is in order.
LEMMA AddPropertyMap ==
  ASSUME NEW before, GoodMap(before.map), NEW p, p.uri \in Nat, NEW writable
  PROVE  GoodMap(AddProperty(before, p, writable).map)
<1>1. GoodMap(map_uri(before.map, p.uri).map)
  BY MapKeepsOrder DEF map_uri
<1>2. \/ AddProperty(before, p, writable).map = before.map
      \/ AddProperty(before, p, writable).map = map_uri(before.map, p.uri).map
  BY DEF AddProperty
<1> QED
  BY <1>1, <1>2

\* So does the loop over the properties of a plugin.
LEMMA CreateControlsMap ==
  ASSUME NEW lp0, Len(lp0.properties) \in Nat,
         \A n \in 1..Len(lp0.properties) : lp0.properties[n].uri \in Nat,
         NEW first, GoodMap(first.map), NEW writable
  PROVE  GoodMap(lv2_create_controls(lp0, first, writable).map)
<1> DEFINE N == Len(lp0.properties)
           After(n, before) ==
             IF (IF writable THEN lp0.properties[n].writable ELSE lp0.properties[n].readable)
             THEN AddProperty(before, lp0.properties[n], writable) ELSE before
           Rec(f) == f = [n \in 0..N |-> IF n = 0 THEN first ELSE After(n, f[n - 1])]
           Upto(k) == \E f : /\ f = [n \in 0..N |-> f[n]]
                             /\ f[0] = first
                             /\ \A n \in 1..k : f[n] = After(n, f[n - 1])
           added == CHOOSE f : Rec(f)
<1>1. N \in Nat
  OBVIOUS
<1>2. \A n \in 1..N : \A before : GoodMap(before.map) => GoodMap(After(n, before).map)
  BY AddPropertyMap
<1>3. lv2_create_controls(lp0, first, writable) = added[N]
  BY DEF lv2_create_controls
<1> HIDE DEF N, After
<1>4. Upto(0)
  <2> DEFINE f == [n \in 0..N |-> first]
  <2>1. f = [n \in 0..N |-> f[n]] /\ f[0] = first
    BY <1>1
  <2>2. 1..0 = {}
    OBVIOUS
  <2> HIDE DEF f
  <2> QED
    BY <2>1, <2>2
<1>5. ASSUME NEW k \in 1..N, Upto(k - 1)
      PROVE  Upto(k)
  <2>1. PICK f : /\ f = [n \in 0..N |-> f[n]]
                 /\ f[0] = first
                 /\ \A n \in 1..(k - 1) : f[n] = After(n, f[n - 1])
    BY <1>5
  <2> DEFINE g == [n \in 0..N |-> IF n = k THEN After(k, f[k - 1]) ELSE f[n]]
  <2>2. g = [n \in 0..N |-> g[n]] /\ g[0] = first
    BY <1>1, <2>1
  <2>3. ASSUME NEW n \in 1..k PROVE g[n] = After(n, g[n - 1])
    <3>1. n \in 0..N /\ n - 1 \in 0..N /\ n - 1 # k
      BY <1>1
    <3>2. g[n - 1] = f[n - 1]
      BY <3>1
    <3>3. CASE n = k
      BY <3>1, <3>2, <3>3
    <3>4. CASE n # k
      <4>1. n \in 1..(k - 1) /\ g[n] = f[n]
        BY <1>1, <3>1, <3>4
      <4> QED
        BY <2>1, <3>2, <4>1
    <3> QED
      BY <3>3, <3>4
  <2> HIDE DEF g
  <2> QED
    BY <2>2, <2>3
<1> HIDE DEF Upto
<1>6. Upto(N)
  <2> DEFINE T == {k \in 0..N : ~Upto(k)}
  <2>1. ASSUME T # {} PROVE FALSE
    <3>1. T \in SUBSET Nat
      OBVIOUS
    <3>2. PICK least \in T : \A k \in T : least <= k
      BY <2>1, <3>1, LeastNatural
    <3>3. least # 0 /\ least \in 0..N /\ ~Upto(least)
      BY <1>4, <3>2
    <3>4. least - 1 \in 0..N /\ least \in 1..N /\ ~(least <= least - 1)
      BY <1>1, <3>3
    <3>5. Upto(least - 1)
      BY <3>2, <3>4
    <3> QED
      BY <1>5, <3>3, <3>4, <3>5
  <2> QED
    BY <1>1, <2>1
<1>7. PICK f : /\ f = [n \in 0..N |-> f[n]]
               /\ f[0] = first
               /\ \A n \in 1..N : f[n] = After(n, f[n - 1])
  BY <1>6 DEF Upto
<1>8. Rec(f)
  <2> HIDE DEF added, Rec
  <2>1. ASSUME NEW n \in 0..N
        PROVE  f[n] = IF n = 0 THEN first ELSE After(n, f[n - 1])
    <3>1. n = 0 \/ n \in 1..N
      BY <1>1
    <3>2. CASE n = 0
      BY <1>7, <3>2
    <3>3. CASE n \in 1..N
      <4>1. n # 0
        BY <1>1, <3>3
      <4>2. f[n] = After(n, f[n - 1])
        BY <1>7, <3>3, Zenon
      <4> QED
        BY <4>1, <4>2
    <3> QED
      BY <3>1, <3>2, <3>3
  <2>2. f = [n \in 0..N |-> f[n]]
    BY <1>7
  <2> USE DEF Rec
  <2> QED
    BY <2>1, <2>2
<1>9. Rec(added)
  BY <1>8
<1> HIDE DEF added
<1>10. added[0] = first /\ \A n \in 1..N : n - 1 \in 0..N /\ added[n] = After(n, added[n - 1])
  BY <1>1, <1>9
<1> HIDE DEF Rec
<1> DEFINE T == {n \in 0..N : ~GoodMap(added[n].map)}
<1>11. ASSUME T # {} PROVE FALSE
  <2>1. T \in SUBSET Nat
    BY <1>1
  <2>2. PICK least \in T : \A n \in T : least <= n
    BY <1>11, <2>1, LeastNatural
  <2>3. least # 0 /\ least \in 0..N /\ ~GoodMap(added[least].map)
    BY <1>10, <2>2
  <2>4. least - 1 \in 0..N /\ least \in 1..N /\ ~(least <= least - 1)
    BY <1>1, <2>3
  <2>5. GoodMap(added[least - 1].map)
    BY <2>2, <2>4
  <2> QED
    BY <1>2, <1>10, <2>3, <2>4, <2>5
<1>12. GoodMap(added[N].map)
  BY <1>1, <1>11
<1> QED
  BY <1>3, <1>12

\* The URIs are in order, always.
UrisInv == GoodMap(symap)

\* Every step keeps the URIs in order.
LEMMA UrisStep ==
  ASSUME UrisInv, [Next]_vars
  PROVE  UrisInv'
<1>1. CASE DropPlugin
  <2>1. PICK d \in scan_plugins(Descriptions) : UNCHANGED symap \/ lv2_instantiate(d)
    BY <1>1 DEF DropPlugin
  <2>2. CASE UNCHANGED symap
    BY <2>2 DEF UrisInv
  <2>3. CASE lv2_instantiate(d)
    <3> DEFINE first == [map |-> CachedUrids, controls |-> PortControls(d)]
               written == lv2_create_controls(d, first, TRUE)
    <3>1. symap' = lv2_create_controls(d, written, FALSE).map
      BY <2>3 DEF lv2_instantiate
    <3>2. /\ Len(d.properties) \in Nat
          /\ \A n \in 1..Len(d.properties) : d.properties[n].uri \in Nat
      BY <2>1, HostAssumption DEF scan_plugins
    <3>3. GoodMap(first.map)
      BY CachedMap
    <3> HIDE DEF first
    <3>4. GoodMap(written.map)
      BY <3>2, <3>3, CreateControlsMap
    <3> HIDE DEF written
    <3>5. GoodMap(lv2_create_controls(d, written, FALSE).map)
      BY <3>2, <3>4, CreateControlsMap
    <3> QED
      BY <3>1, <3>5 DEF UrisInv
  <2> QED
    BY <2>1, <2>2, <2>3
<1>2. CASE MapUri
  <2>1. symap' = symap_map(symap, NewUri).map /\ NewUri \in Nat
    BY <1>2, HostAssumption DEF MapUri, map_uri
  <2>2. GoodMap(symap_map(symap, NewUri).map)
    BY <2>1, MapKeepsOrder DEF UrisInv
  <2> QED
    BY <2>1, <2>2 DEF UrisInv
<1>3. CASE UNCHANGED symap
  BY <1>3 DEF UrisInv
<1>4. CASE SuilWrite \/ MoveWidget \/ DoubleClickSlot \/ DestroyWindow \/ lv2_close_ui \/
     IdleClose \/ UpdateStart \/ UpdateEvent \/ UpdateEnd
  <2>1. UNCHANGED symap
    BY <1>4 DEF SuilWrite, MoveWidget, DoubleClickSlot, DestroyWindow, lv2_close_ui,
         IdleClose, UpdateStart, UpdateEvent, UpdateEnd
  <2> QED
    BY <1>3, <2>1
<1>5. CASE DialogEnds \/ OpenFirst \/ AddPlugin \/ lv2_apply_state \/
     WaitForPause \/ Restoring \/ RestoreSchedules \/ Resume
  <2>1. UNCHANGED symap
    BY <1>5 DEF DialogEnds, OpenFirst, AddPlugin, lv2_apply_state,
         WaitForPause, Restoring, RestoreSchedules, Resume
  <2> QED
    BY <1>3, <2>1
<1>6. CASE on_preset_activate \/ on_save_preset_activate \/ on_delete_preset_activate \/
     UserTransport \/ TransportAnswers
  <2>1. UNCHANGED symap
    BY <1>6 DEF on_preset_activate, on_save_preset_activate, on_delete_preset_activate,
         UserTransport, TransportAnswers
  <2> QED
    BY <1>3, <2>1
<1>7. CASE PreparePorts \/ RunStart \/ Schedule \/ RunEnd \/ EmitResponses \/ EmitEnd \/
     SendHeader \/ SendBody \/ ProcessEnd \/ Work
  <2>1. UNCHANGED symap
    BY <1>7 DEF PreparePorts, RunStart, Schedule, RunEnd, EmitResponses, EmitEnd, SendHeader,
         SendBody, ProcessEnd, Work
  <2> QED
    BY <1>3, <2>1
<1>8. CASE UNCHANGED vars
  BY <1>3, <1>8 DEF vars
<1> QED
  BY <1>1, <1>2, <1>4, <1>5, <1>6, <1>7, <1>8 DEF Next, GtkThread, ChannelThread

\* A URI that the host or the plugin mapped once is found again under the id it got,
\* however many others were mapped since and wherever strcmp puts them: the binary
\* search ends, and every insertion keeps the index in order (symap_search, symap_map).
THEOREM UrisFoundAgainCorrect == Spec => []UrisFoundAgain
<1>1. Init => UrisInv
  BY EmptyMap DEF Init, UrisInv
<1>2. UrisInv /\ [Next]_vars => UrisInv'
  BY UrisStep
<1>3. ASSUME UrisInv
      PROVE  UrisFoundAgain
  <2>1. Sorted(symap)
    BY <1>3 DEF UrisInv, GoodMap
  <2>2. ASSUME NEW id \in 1..SymapSize(symap)
        PROVE  map_uri(symap, unmap_uri(symap, id)[1]) = [map |-> symap, id |-> id]
    <3>1. unmap_uri(symap, id)[1] = symap.symbols[id]
      BY DEF unmap_uri, symap_unmap
    <3>2. symap_map(symap, symap.symbols[id]) = [map |-> symap, id |-> id]
      BY <1>3, FoundAgain DEF UrisInv
    <3> QED
      BY <3>1, <3>2 DEF map_uri
  <2> QED
    BY <2>1, <2>2 DEF UrisFoundAgain
<1> QED
  BY <1>1, <1>2, <1>3, PTL DEF Spec
-----------------------------------------------------------------------------
(***************************************************************************)
(* What the UI writes.  The ring holds the changes behind the last one     *)
(* that was applied, each of them whole.                                   *)
(***************************************************************************)
CellsOf(S) == [is : {"header", "body"}, of : S]

\* Where the ring ends behind every change of all, from the k-th on.
Ends(ring, all, k, at) ==
  /\ at \in [k..Len(all) -> 0..Len(ring)]
  /\ at[k] = 0 /\ at[Len(all)] = Len(ring)
  /\ \A m, n \in k..Len(all) : m <= n => at[m] <= at[n]
  /\ \A m \in (k + 1)..Len(all) :
       /\ at[m] = at[m - 1] + 1 + ChangeSize(all[m])
       /\ ring[at[m - 1] + 1] = Header(all[m])
       /\ \A n \in 1..ChangeSize(all[m]) : ring[at[m - 1] + 1 + n] = Unit(all[m])

Lists(S, ring, all, k) ==
  all \in Seq(S) /\ ring \in Seq(CellsOf(S)) /\ k \in 0..Len(all)

Held(ring, all, k) == \E S, at : Lists(S, ring, all, k) /\ Ends(ring, all, k, at)

First(all, k) == [n \in 1..k |-> all[n]]

UiInv == \E k : Held(uiEvents, accepted, k) /\ applied = First(accepted, k)

\* A change has one unit or two.
LEMMA ChangeSizes == \A ev : ChangeSize(ev) \in {1, 2} /\ ChangeSize(ev) \in Nat
BY DEF ChangeSize

\* The cells of a change.
LEMMA ChangeCells ==
  ASSUME NEW S, NEW ev \in S, NEW cells, cells = <<Header(ev)>> \o Body(ev, ChangeSize(ev))
  PROVE  /\ cells \in Seq(CellsOf(S)) /\ Len(cells) = 1 + ChangeSize(ev)
         /\ cells[1] = Header(ev)
         /\ \A n \in 1..ChangeSize(ev) : cells[1 + n] = Unit(ev)
<1> DEFINE size == ChangeSize(ev)
           one == <<Header(ev)>>
           body == Body(ev, size)
<1>1. size \in Nat
  BY ChangeSizes
<1>2. Header(ev) \in CellsOf(S) /\ Unit(ev) \in CellsOf(S)
  BY DEF Header, Unit, CellsOf
<1>3. one \in Seq(CellsOf(S)) /\ Len(one) = 1 /\ one[1] = Header(ev)
  BY <1>2
<1>4. body \in Seq(CellsOf(S)) /\ Len(body) = size /\ \A n \in 1..size : body[n] = Unit(ev)
  <2> HIDE DEF size
  <2>1. body = [n \in 1..size |-> Unit(ev)]
    BY DEF Body
  <2> HIDE DEF body
  <2>2. body \in [1..size -> CellsOf(S)] /\ DOMAIN body = 1..size
    BY <1>2, <2>1
  <2>3. \A N \in Nat : \A T : \A s \in [1..N -> T] : s \in Seq(T) /\ Len(s) = N
    OBVIOUS
  <2> QED
    BY <1>1, <2>1, <2>2, <2>3
<1>5. cells = one \o body
  OBVIOUS
<1> HIDE DEF size, one, body
<1>6. one \o body \in Seq(CellsOf(S)) /\ Len(one \o body) = Len(one) + Len(body)
  BY <1>3, <1>4, ConcatProperties, Zenon
<1> DEFINE whole == one \o body
<1>7. \A i \in 1..(1 + size) : whole[i] = IF i <= 1 THEN one[i] ELSE body[i - 1]
  <2>1. \A i \in 1..(Len(one) + Len(body)) :
          whole[i] = IF i <= Len(one) THEN one[i] ELSE body[i - Len(one)]
    BY <1>3, <1>4, ConcatProperties, Zenon
  <2> QED
    BY <1>3, <1>4, <2>1, Zenon
<1>8. whole \in Seq(CellsOf(S)) /\ Len(whole) = 1 + size /\ cells = whole
  BY <1>3, <1>4, <1>5, <1>6
<1> HIDE DEF whole
<1>9. whole[1] = Header(ev)
  BY <1>1, <1>3, <1>7
<1>10. ASSUME NEW n \in 1..size PROVE whole[1 + n] = Unit(ev)
  <2>1. 1 + n \in 1..(1 + size) /\ ~(1 + n <= 1) /\ 1 + n - 1 = n
    BY <1>1
  <2> QED
    BY <1>4, <1>7, <2>1
<1> QED
  BY <1>8, <1>9, <1>10 DEF size

\* A change lies between two ends.
LEMMA LiesBetween ==
  ASSUME NEW start \in Nat, NEW size \in Nat, NEW end \in Nat, start + 1 + size <= end
  PROVE  start + 1 \in 1..end /\ \A n \in 1..size : start + 1 + n \in 1..end
OBVIOUS

\* A change that is written is the last one.
LEMMA HeldLonger ==
  ASSUME NEW ring, NEW all, NEW k, Held(ring, all, k), NEW ev,
         NEW cells, cells = <<Header(ev)>> \o Body(ev, ChangeSize(ev))
  PROVE  Held(ring \o cells, Append(all, ev), k) /\ ring \o cells # ring
<1> DEFINE size == ChangeSize(ev)
           more == Append(all, ev)
           longer == ring \o cells
<1>1. PICK S0, at : Lists(S0, ring, all, k) /\ Ends(ring, all, k, at)
  BY DEF Held
<1> DEFINE S == S0 \cup {ev}
           last == Len(all)
           end == Len(ring)
<1>2. /\ all \in Seq(S) /\ ring \in Seq(CellsOf(S)) /\ k \in 0..last /\ ev \in S
      /\ last \in Nat /\ end \in Nat /\ size \in Nat
  <2>1. S0 \subseteq S /\ CellsOf(S0) \subseteq CellsOf(S) /\ ev \in S
    BY DEF CellsOf
  <2>2. all \in Seq(S0) /\ ring \in Seq(CellsOf(S0)) /\ k \in 0..last
    BY <1>1 DEF Lists
  <2> HIDE DEF S
  <2>3. all \in Seq(S) /\ ring \in Seq(CellsOf(S))
    BY <2>1, <2>2
  <2> QED
    BY <2>1, <2>2, <2>3, ChangeSizes
<1> HIDE DEF S
<1>3. /\ cells \in Seq(CellsOf(S)) /\ Len(cells) = 1 + size /\ cells[1] = Header(ev)
      /\ \A n \in 1..size : cells[1 + n] = Unit(ev)
  BY <1>2, ChangeCells
<1> HIDE DEF size
<1>4. /\ more \in Seq(S) /\ Len(more) = last + 1 /\ more[last + 1] = ev
      /\ \A n \in 1..last : more[n] = all[n]
  BY <1>2
<1>5. /\ longer \in Seq(CellsOf(S)) /\ Len(longer) = end + 1 + size
      /\ \A n \in 1..end : longer[n] = ring[n]
      /\ longer[end + 1] = Header(ev)
      /\ \A n \in 1..size : longer[end + 1 + n] = Unit(ev)
  <2>1. longer \in Seq(CellsOf(S)) /\ Len(longer) = end + Len(cells)
    BY <1>2, <1>3
  <2>2. \A n \in 1..end : longer[n] = ring[n]
    BY <1>2, <1>3
  <2>3. \A n \in 1..Len(cells) : longer[end + n] = cells[n]
    BY <1>2, <1>3
  <2> HIDE DEF longer, end
  <2>4. longer[end + 1] = Header(ev)
    BY <1>2, <1>3, <2>3
  <2>5. ASSUME NEW n \in 1..size PROVE longer[end + 1 + n] = Unit(ev)
    <3>1. 1 + n \in 1..Len(cells) /\ end + (1 + n) = end + 1 + n
      BY <1>2, <1>3
    <3> QED
      BY <1>3, <2>3, <3>1
  <2>6. Len(longer) = end + 1 + size
    BY <1>2, <1>3, <2>1
  <2> QED
    BY <2>1, <2>2, <2>4, <2>5, <2>6
<1>6. longer # ring
  BY <1>2, <1>5
<1> DEFINE new == [m \in k..(last + 1) |-> IF m <= last THEN at[m] ELSE end + 1 + size]
<1>7. /\ at \in [k..last -> 0..end] /\ at[k] = 0 /\ at[last] = end
      /\ \A m, n \in k..last : m <= n => at[m] <= at[n]
      /\ \A m \in (k + 1)..last :
           /\ at[m] = at[m - 1] + 1 + ChangeSize(all[m])
           /\ ring[at[m - 1] + 1] = Header(all[m])
           /\ \A n \in 1..ChangeSize(all[m]) : ring[at[m - 1] + 1 + n] = Unit(all[m])
  BY <1>1 DEF Ends
<1> HIDE DEF more, longer, last, end
<1>8. \A m \in k..last : new[m] = at[m] /\ new[m] \in 0..end
  BY <1>2, <1>7
<1>9. new[last + 1] = end + 1 + size
  BY <1>2
<1>10. new \in [k..(last + 1) -> 0..(end + 1 + size)]
  <2>1. ASSUME NEW m \in k..(last + 1)
        PROVE  (IF m <= last THEN at[m] ELSE end + 1 + size) \in 0..(end + 1 + size)
    <3>1. CASE m <= last
      <4>1. m \in k..last
        BY <1>2, <3>1
      <4> QED
        BY <1>2, <1>7, <3>1, <4>1
    <3>2. CASE ~(m <= last)
      BY <1>2, <3>2
    <3> QED
      BY <3>1, <3>2
  <2> QED
    BY <2>1
<1> HIDE DEF new
<1>11. ASSUME NEW m \in k..(last + 1), NEW n \in k..(last + 1), m <= n
       PROVE  new[m] <= new[n]
  <2>1. CASE n <= last
    <3>1. m \in k..last /\ n \in k..last
      BY <1>2, <1>11, <2>1
    <3> QED
      BY <1>7, <1>8, <1>11, <3>1
  <2>2. CASE m <= last /\ n = last + 1
    <3>1. m \in k..last
      BY <1>2, <2>2
    <3>2. new[m] \in 0..end
      BY <1>8, <3>1
    <3> QED
      BY <1>2, <1>9, <2>2, <3>2
  <2>3. CASE m = last + 1 /\ n = last + 1
    BY <1>2, <1>9, <2>3
  <2> QED
    BY <1>2, <1>11, <2>1, <2>2, <2>3
<1>12. ASSUME NEW m \in (k + 1)..(last + 1)
       PROVE  /\ new[m] = new[m - 1] + 1 + ChangeSize(more[m])
              /\ longer[new[m - 1] + 1] = Header(more[m])
              /\ \A n \in 1..ChangeSize(more[m]) : longer[new[m - 1] + 1 + n] = Unit(more[m])
  <2>1. CASE m <= last
    <3>1. m \in (k + 1)..last /\ m - 1 \in k..last /\ m \in k..last /\ m \in 1..last
      BY <1>2, <2>1
    <3>2. more[m] = all[m] /\ new[m] = at[m] /\ new[m - 1] = at[m - 1]
      BY <1>4, <1>8, <3>1
    <3>3. at[m] \in 0..end /\ at[m - 1] \in 0..end /\ ChangeSize(all[m]) \in Nat
      BY <1>7, <3>1, ChangeSizes
    <3>4. at[m] = at[m - 1] + 1 + ChangeSize(all[m])
      BY <1>7, <3>1
    <3>5. /\ at[m - 1] + 1 \in 1..end
          /\ \A n \in 1..ChangeSize(all[m]) : at[m - 1] + 1 + n \in 1..end
      <4>1. at[m - 1] + 1 + ChangeSize(all[m]) <= end
        BY <1>2, <3>3, <3>4
      <4>2. at[m - 1] \in Nat /\ ChangeSize(all[m]) \in Nat /\ end \in Nat
        BY <1>2, <3>3
      <4> QED
        BY <4>1, <4>2, LiesBetween
    <3>6. /\ ring[at[m - 1] + 1] = Header(all[m])
          /\ \A n \in 1..ChangeSize(all[m]) : ring[at[m - 1] + 1 + n] = Unit(all[m])
      BY <1>7, <3>1
    <3>7. longer[at[m - 1] + 1] = Header(all[m])
      BY <1>5, <3>5, <3>6
    <3>8. \A n \in 1..ChangeSize(all[m]) : longer[at[m - 1] + 1 + n] = Unit(all[m])
      BY <1>5, <3>5, <3>6
    <3> QED
      BY <3>2, <3>4, <3>7, <3>8
  <2>2. CASE m = last + 1
    <3>1. more[m] = ev /\ new[m] = end + 1 + size /\ m - 1 = last
      BY <1>2, <1>4, <1>9, <2>2
    <3>2. new[last] = end
      BY <1>2, <1>7, <1>8
    <3> QED
      BY <1>5, <3>1, <3>2 DEF size
  <2> QED
    BY <1>2, <2>1, <2>2
<1>13. new[k] = 0 /\ new[last + 1] = Len(longer)
  BY <1>2, <1>5, <1>7, <1>8, <1>9
<1>14. Ends(longer, more, k, new)
  BY <1>4, <1>5, <1>10, <1>11, <1>12, <1>13 DEF Ends
<1>15. Lists(S, longer, more, k)
  BY <1>2, <1>4, <1>5 DEF Lists
<1> QED
  BY <1>6, <1>14, <1>15 DEF Held, longer, more

\* What a read copies and leaves.
LEMMA ReadCells ==
  ASSUME NEW C, NEW ring \in Seq(C), NEW n \in 0..Len(ring)
  PROVE  /\ RingRest(ring, n) \in Seq(C) /\ Len(RingRest(ring, n)) = Len(ring) - n
         /\ \A i \in 1..(Len(ring) - n) : RingRest(ring, n)[i] = ring[n + i]
         /\ RingRead(ring, n) \in Seq(C) /\ Len(RingRead(ring, n)) = n
         /\ \A i \in 1..n : RingRead(ring, n)[i] = ring[i]
<1>1. Len(ring) \in Nat /\ n <= Len(ring)
  OBVIOUS
<1>2. RingRest(ring, n) = SubSeq(ring, n + 1, Len(ring)) /\ RingRead(ring, n) = SubSeq(ring, 1, n)
  BY <1>1 DEF RingRest, RingRead
<1>3. /\ SubSeq(ring, n + 1, Len(ring)) \in Seq(C)
      /\ Len(SubSeq(ring, n + 1, Len(ring))) = Len(ring) - n
      /\ \A i \in 1..(Len(ring) - n) : SubSeq(ring, n + 1, Len(ring))[i] = ring[n + i]
  BY <1>1
<1>4. /\ SubSeq(ring, 1, n) \in Seq(C) /\ Len(SubSeq(ring, 1, n)) = n
      /\ \A i \in 1..n : SubSeq(ring, 1, n)[i] = ring[i]
  BY <1>1
<1> QED
  BY <1>2, <1>3, <1>4

\* The first change in the ring is whole, and leaves the others when it is read.
LEMMA HeldShorter ==
  ASSUME NEW ring, NEW all, NEW k, Held(ring, all, k), ring # <<>>,
         NEW ev, ev = ring[1].of, NEW rest, rest = RingRest(ring, 1)
  PROVE  /\ k + 1 \in 1..Len(all) /\ ev = all[k + 1]
         /\ RingRead(rest, ChangeSize(ev)) = Body(ev, ChangeSize(ev))
         /\ Held(RingRest(rest, ChangeSize(ev)), all, k + 1)
<1> DEFINE size == ChangeSize(ev)
           last == Len(all)
           end == Len(ring)
           tail == RingRest(rest, size)
<1>1. PICK S, at : Lists(S, ring, all, k) /\ Ends(ring, all, k, at)
  BY DEF Held
<1> DEFINE C == CellsOf(S)
<1>2. /\ all \in Seq(S) /\ ring \in Seq(C) /\ k \in 0..last
      /\ last \in Nat /\ end \in Nat /\ size \in Nat
  BY <1>1, ChangeSizes DEF Lists
<1>3. /\ at \in [k..last -> 0..end] /\ at[k] = 0 /\ at[last] = end
      /\ \A m, n \in k..last : m <= n => at[m] <= at[n]
      /\ \A m \in (k + 1)..last :
           /\ at[m] = at[m - 1] + 1 + ChangeSize(all[m])
           /\ ring[at[m - 1] + 1] = Header(all[m])
           /\ \A n \in 1..ChangeSize(all[m]) : ring[at[m - 1] + 1 + n] = Unit(all[m])
  BY <1>1 DEF Ends
<1>4. end > 0
  BY <1>2
<1>5. k + 1 \in 1..last /\ k + 1 \in (k + 1)..last /\ k + 1 - 1 = k
  BY <1>2, <1>3, <1>4
<1> HIDE DEF last, end, size, C, tail
<1>21. /\ at[k + 1] = at[k] + 1 + ChangeSize(all[k + 1])
       /\ ring[at[k] + 1] = Header(all[k + 1])
       /\ \A n \in 1..ChangeSize(all[k + 1]) : ring[at[k] + 1 + n] = Unit(all[k + 1])
  <2>1. ASSUME NEW m \in (k + 1)..last, NEW p, p = m - 1
        PROVE  /\ at[m] = at[p] + 1 + ChangeSize(all[m])
               /\ ring[at[p] + 1] = Header(all[m])
               /\ \A n \in 1..ChangeSize(all[m]) : ring[at[p] + 1 + n] = Unit(all[m])
    BY <1>3, <2>1, Zenon
  <2>2. k + 1 \in (k + 1)..last /\ k = k + 1 - 1
    BY <1>5
  <2> DEFINE m == k + 1
  <2>3. m \in (k + 1)..last /\ k = m - 1
    BY <1>2, <1>5
  <2> HIDE DEF m
  <2>4. /\ at[m] = at[k] + 1 + ChangeSize(all[m])
        /\ ring[at[k] + 1] = Header(all[m])
        /\ \A n \in 1..ChangeSize(all[m]) : ring[at[k] + 1 + n] = Unit(all[m])
    BY <2>1, <2>3, Zenon
  <2> QED
    BY <2>4, Zenon DEF m
<1>6. ring[1] = Header(all[k + 1]) /\ ev = all[k + 1]
  <2>1. ring[at[k] + 1] = Header(all[k + 1])
    BY <1>21
  <2> QED
    BY <1>3, <2>1 DEF Header
<1>7. at[k + 1] = 1 + size /\ \A n \in 1..size : ring[1 + n] = Unit(ev)
  <2>1. at[k + 1] = at[k] + 1 + ChangeSize(all[k + 1])
    BY <1>21
  <2>2. \A n \in 1..ChangeSize(all[k + 1]) : ring[at[k] + 1 + n] = Unit(all[k + 1])
    BY <1>21
  <2>3. at[k] + 1 = 1
    BY <1>3
  <2> QED
    BY <1>2, <1>3, <1>6, <2>1, <2>2, <2>3 DEF size
<1>8. 1 + size <= end
  <2>1. k + 1 \in k..last /\ last \in k..last /\ k + 1 <= last
    BY <1>2, <1>5
  <2>2. at[k + 1] <= at[last]
    BY <1>3, <2>1
  <2> QED
    BY <1>2, <1>3, <1>7, <2>2
<1>9. /\ rest \in Seq(C) /\ Len(rest) = end - 1
      /\ \A i \in 1..(end - 1) : rest[i] = ring[1 + i]
  <2>1. 1 \in 0..Len(ring)
    BY <1>2, <1>4 DEF end
  <2> QED
    BY <1>2, <2>1, ReadCells DEF end
<1>10. size \in 0..Len(rest)
  BY <1>2, <1>8, <1>9
<1>11. /\ tail \in Seq(C) /\ Len(tail) = Len(rest) - size
       /\ \A i \in 1..(Len(rest) - size) : tail[i] = rest[size + i]
       /\ RingRead(rest, size) \in Seq(C) /\ Len(RingRead(rest, size)) = size
       /\ \A i \in 1..size : RingRead(rest, size)[i] = rest[i]
  <2>1. \A s \in Seq(C) : \A n \in 0..Len(s) :
          /\ RingRest(s, n) \in Seq(C) /\ Len(RingRest(s, n)) = Len(s) - n
          /\ \A i \in 1..(Len(s) - n) : RingRest(s, n)[i] = s[n + i]
          /\ RingRead(s, n) \in Seq(C) /\ Len(RingRead(s, n)) = n
          /\ \A i \in 1..n : RingRead(s, n)[i] = s[i]
    BY ReadCells
  <2>2. rest \in Seq(C)
    BY <1>9
  <2> QED
    BY <1>10, <2>1, <2>2, Zenon DEF tail
<1>12. RingRead(rest, size) = Body(ev, size)
  <2> DEFINE read == RingRead(rest, size)
  <2>1. read = [i \in 1..size |-> read[i]]
    BY <1>11
  <2>2. \A i \in 1..size : read[i] = Unit(ev)
    BY <1>2, <1>7, <1>8, <1>9, <1>11
  <2> HIDE DEF read
  <2>3. read = [i \in 1..size |-> Unit(ev)]
    BY <2>1, <2>2
  <2> QED
    BY <2>3 DEF read, Body
<1>13. /\ Len(tail) = end - 1 - size
       /\ \A i \in 1..(end - 1 - size) : tail[i] = ring[1 + size + i]
  <2>1. Len(tail) = end - 1 - size
    BY <1>2, <1>9, <1>11
  <2>2. ASSUME NEW i \in 1..(end - 1 - size) PROVE tail[i] = ring[1 + size + i]
    <3>1. i \in 1..(Len(rest) - size) /\ size + i \in 1..(end - 1) /\ 1 + (size + i) = 1 + size + i
      BY <1>2, <1>8, <1>9
    <3> QED
      BY <1>9, <1>11, <3>1
  <2> QED
    BY <2>1, <2>2
<1> DEFINE new == [m \in (k + 1)..last |-> at[m] - 1 - size]
<1>14. ASSUME NEW m \in (k + 1)..last
       PROVE  new[m] = at[m] - 1 - size /\ new[m] \in 0..(end - 1 - size) /\ at[m] \in 0..end
  <2>1. m \in k..last /\ k + 1 \in k..last /\ k + 1 <= m
    BY <1>2
  <2>2. at[m] \in 0..end /\ at[k + 1] <= at[m]
    BY <1>3, <2>1
  <2>3. new[m] = at[m] - 1 - size
    OBVIOUS
  <2> HIDE DEF new
  <2> QED
    BY <1>2, <1>7, <2>2, <2>3
<1>15. new \in [(k + 1)..last -> 0..(end - 1 - size)]
  BY <1>14
<1> HIDE DEF new
<1>16. new[k + 1] = 0 /\ new[last] = end - 1 - size
  <2>1. k + 1 \in (k + 1)..last /\ last \in (k + 1)..last
    BY <1>2, <1>5
  <2>2. new[k + 1] = at[k + 1] - 1 - size /\ new[last] = at[last] - 1 - size
    BY <1>14, <2>1
  <2> QED
    BY <1>2, <1>3, <1>7, <2>2
<1>17. ASSUME NEW m \in (k + 1)..last, NEW n \in (k + 1)..last, m <= n
       PROVE  new[m] <= new[n]
  <2>1. m \in k..last /\ n \in k..last
    BY <1>2
  <2>2. at[m] <= at[n]
    BY <1>3, <1>17, <2>1
  <2> QED
    BY <1>2, <1>14, <2>2
<1>18. ASSUME NEW m \in (k + 1 + 1)..last
       PROVE  /\ new[m] = new[m - 1] + 1 + ChangeSize(all[m])
              /\ tail[new[m - 1] + 1] = Header(all[m])
              /\ \A n \in 1..ChangeSize(all[m]) : tail[new[m - 1] + 1 + n] = Unit(all[m])
  <2>1. m \in (k + 1)..last /\ m - 1 \in (k + 1)..last
    BY <1>2
  <2> DEFINE start == at[m - 1]
             more == ChangeSize(all[m])
             from == new[m - 1]
  <2>2. /\ at[m] = start + 1 + more
        /\ ring[start + 1] = Header(all[m])
        /\ \A n \in 1..more : ring[start + 1 + n] = Unit(all[m])
    BY <1>3, <2>1
  <2>3. /\ start \in 0..end /\ at[m] \in 0..end /\ more \in Nat
        /\ from = start - 1 - size /\ from \in 0..(end - 1 - size) /\ new[m] = at[m] - 1 - size
    BY <1>14, <2>1, ChangeSizes
  <2> HIDE DEF start, more, from
  <2>4. new[m] = from + 1 + more
    BY <1>2, <2>2, <2>3
  <2>5. from + 1 + more <= end - 1 - size
    BY <1>2, <2>2, <2>3
  <2>6. from + 1 \in 1..(end - 1 - size) /\ \A n \in 1..more : from + 1 + n \in 1..(end - 1 - size)
    <3>1. from \in Nat /\ end - 1 - size \in Nat
      BY <1>2, <1>8, <2>3
    <3> QED
      BY <2>3, <2>5, <3>1, LiesBetween
  <2>7. tail[from + 1] = Header(all[m])
    <3>1. 1 + size + (from + 1) = start + 1
      BY <1>2, <2>3
    <3> QED
      BY <1>13, <2>2, <2>6, <3>1
  <2>8. ASSUME NEW n \in 1..more PROVE tail[from + 1 + n] = Unit(all[m])
    <3>1. 1 + size + (from + 1 + n) = start + 1 + n
      BY <1>2, <2>3
    <3> QED
      BY <1>13, <2>2, <2>6, <3>1
  <2> QED
    BY <2>4, <2>7, <2>8 DEF more, from
<1>19. Ends(tail, all, k + 1, new)
  BY <1>13, <1>15, <1>16, <1>17, <1>18 DEF Ends, last
<1>20. Lists(S, tail, all, k + 1)
  BY <1>2, <1>5, <1>11 DEF Lists, last, C
<1> QED
  BY <1>5, <1>6, <1>12, <1>19, <1>20 DEF Held, last, tail, size

\* The changes behind the k-th, up to the m-th.
Behind(all, k, m) == [n \in 1..(m - k) |-> all[k + n]]

\* One more change behind the k-th.
LEMMA BehindLonger ==
  ASSUME NEW S, NEW all \in Seq(S), NEW k \in 0..Len(all), NEW m \in (k + 1)..Len(all)
  PROVE  /\ Behind(all, k, k) = <<>>
         /\ Behind(all, k, m) = Append(Behind(all, k, m - 1), all[m])
         /\ Behind(all, k, m) \in Seq(S) /\ Len(Behind(all, k, m)) = m - k
<1>1. Len(all) \in Nat /\ k \in Nat /\ m \in Nat
  OBVIOUS
<1>2. \A N \in Nat : \A s \in [1..N -> S] : s \in Seq(S) /\ Len(s) = N
  OBVIOUS
<1>3. Behind(all, k, k) = <<>>
  BY <1>1 DEF Behind
<1> DEFINE long == Behind(all, k, m)
           short == Behind(all, k, m - 1)
<1>4. m - k \in Nat /\ m - 1 - k \in Nat /\ m - k = m - 1 - k + 1 /\ m - 1 \in Nat
  BY <1>1
<1>5. long \in [1..(m - k) -> S] /\ \A n \in 1..(m - k) : long[n] = all[k + n]
  BY <1>1 DEF Behind
<1>6. short \in [1..(m - 1 - k) -> S] /\ \A n \in 1..(m - 1 - k) : short[n] = all[k + n]
  <2>1. \A n \in 1..(m - 1 - k) : all[k + n] \in S
    BY <1>1
  <2> QED
    BY <2>1 DEF Behind
<1> HIDE DEF long, short
<1>7. long \in Seq(S) /\ Len(long) = m - k
  BY <1>2, <1>4, <1>5
<1>8. short \in Seq(S) /\ Len(short) = m - 1 - k
  BY <1>2, <1>4, <1>6
<1>9. long = Append(short, all[m])
  <2> DEFINE more == Append(short, all[m])
  <2>1. all[m] \in S
    BY <1>1
  <2>2. more \in Seq(S) /\ Len(more) = m - k /\ more[m - k] = all[m]
    BY <1>4, <1>8, <2>1
  <2>3. \A n \in 1..(m - 1 - k) : more[n] = short[n]
    BY <1>8, <2>1
  <2> HIDE DEF more
  <2>4. ASSUME NEW n \in 1..(m - k) PROVE long[n] = more[n]
    <3>1. n \in 1..(m - 1 - k) \/ (n = m - k /\ k + n = m)
      BY <1>1
    <3> QED
      BY <1>5, <1>6, <2>2, <2>3, <3>1
  <2> QED
    BY <1>7, <2>2, <2>4 DEF more
<1> QED
  BY <1>3, <1>7, <1>9 DEF long, short

\* The first changes and those behind them are all of them.
LEMMA FirstAndBehind ==
  ASSUME NEW S, NEW all \in Seq(S), NEW k \in 0..Len(all), NEW m \in k..Len(all)
  PROVE  /\ First(all, k) \o Behind(all, k, m) = First(all, m)
         /\ First(all, Len(all)) = all
         /\ First(all, k) \in Seq(S) /\ Len(First(all, k)) = k
<1>1. Len(all) \in Nat /\ k \in Nat /\ m \in Nat /\ m - k \in Nat /\ k <= m
  OBVIOUS
<1>2. \A N \in Nat : \A s \in [1..N -> S] : s \in Seq(S) /\ Len(s) = N
  OBVIOUS
<1> DEFINE one == First(all, k)
           two == Behind(all, k, m)
           both == First(all, m)
<1>3. /\ one \in [1..k -> S] /\ \A n \in 1..k : one[n] = all[n]
      /\ both \in [1..m -> S] /\ \A n \in 1..m : both[n] = all[n]
  BY <1>1 DEF First
<1>4. two \in [1..(m - k) -> S] /\ \A n \in 1..(m - k) : two[n] = all[k + n]
  BY <1>1 DEF Behind
<1>5. First(all, Len(all)) = all
  BY DEF First
<1> HIDE DEF one, two, both
<1>6. /\ one \in Seq(S) /\ Len(one) = k
      /\ two \in Seq(S) /\ Len(two) = m - k
      /\ both \in Seq(S) /\ Len(both) = m
  BY <1>1, <1>2, <1>3, <1>4
<1> DEFINE joined == one \o two
<1>7. /\ joined \in Seq(S) /\ Len(joined) = m
      /\ \A n \in 1..m : joined[n] = IF n <= k THEN one[n] ELSE two[n - k]
  <2>1. /\ joined \in Seq(S) /\ Len(joined) = Len(one) + Len(two)
        /\ \A n \in 1..(Len(one) + Len(two)) :
             joined[n] = IF n <= Len(one) THEN one[n] ELSE two[n - Len(one)]
    BY <1>6, ConcatProperties, Zenon
  <2> HIDE DEF joined
  <2>2. Len(one) + Len(two) = m
    BY <1>1, <1>6
  <2> QED
    BY <1>6, <2>1, <2>2, Zenon
<1> HIDE DEF joined
<1>8. ASSUME NEW n \in 1..m PROVE joined[n] = both[n]
  <2>1. CASE n <= k
    <3>1. n \in 1..k
      BY <1>1, <2>1
    <3> QED
      BY <1>3, <1>7, <2>1, <3>1
  <2>2. CASE ~(n <= k)
    <3>1. n - k \in 1..(m - k) /\ k + (n - k) = n
      BY <1>1, <2>2
    <3>2. joined[n] = two[n - k] /\ two[n - k] = all[k + (n - k)]
      BY <1>4, <1>7, <2>2, <3>1
    <3> QED
      BY <1>3, <3>1, <3>2
  <2> QED
    BY <2>1, <2>2
<1>9. joined = both
  BY <1>6, <1>7, <1>8
<1> QED
  BY <1>5, <1>6, <1>9 DEF joined, one, two, both

\* A change that is whole in the ring is seen as one.
LEMMA WholeChange ==
  ASSUME NEW C, NEW ring \in Seq(C), NEW start \in Nat, NEW ev,
         NEW size, size = ChangeSize(ev), start + 1 + size <= Len(ring),
         \A n \in 1..size : ring[start + 1 + n] = Unit(ev)
  PROVE  SubSeq(ring, start + 1 + 1, Smaller(Len(ring), start + 1 + size)) = Body(ev, size)
<1>1. size \in Nat /\ Len(ring) \in Nat
  BY ChangeSizes
<1>2. Smaller(Len(ring), start + 1 + size) = start + 1 + size
  BY <1>1 DEF Smaller
<1> DEFINE read == SubSeq(ring, start + 1 + 1, start + 1 + size)
           body == Body(ev, size)
<1>3. /\ read \in Seq(C) /\ Len(read) = size
      /\ \A n \in 1..size : read[n] = ring[start + 1 + n]
  BY <1>1
<1>4. body = [n \in 1..size |-> Unit(ev)]
  BY DEF Body
<1> HIDE DEF body, read
<1>5. read = [n \in 1..size |-> read[n]]
  BY <1>3
<1>6. read = body
  BY <1>3, <1>4, <1>5
<1> QED
  BY <1>2, <1>6 DEF read, body

\* What is pending in the ring are the changes behind the k-th.
LEMMA PendingHeld ==
  ASSUME NEW ring, NEW all, NEW k, Held(ring, all, k)
  PROVE  First(all, k) \o Pending(ring) = all
<1>1. PICK S, at : Lists(S, ring, all, k) /\ Ends(ring, all, k, at)
  BY DEF Held
<1> DEFINE N == Len(ring)
           last == Len(all)
           C == CellsOf(S)
           R == Seq(S)
           whole == {n \in DOMAIN ring :
                       /\ ring[n].is = "header"
                       /\ SubSeq(ring, n + 1, Smaller(N, n + ChangeSize(ring[n].of)))
                            = Body(ring[n].of, ChangeSize(ring[n].of))}
           none == <<>>
           G == [p \in (1..N) \X R |->
                   IF p[1] \in whole THEN Append(p[2], ring[p[1]].of) ELSE p[2]]
           Rec(f) == f = [n \in 0..N |->
                            IF n = 0 THEN none
                            ELSE IF n \in whole THEN Append(f[n - 1], ring[n].of) ELSE f[n - 1]]
           of == CHOOSE f : Rec(f)
<1>2. /\ all \in Seq(S) /\ ring \in Seq(C) /\ k \in 0..last
      /\ last \in Nat /\ N \in Nat /\ none \in R
  BY <1>1 DEF Lists
<1>3. /\ at \in [k..last -> 0..N] /\ at[k] = 0 /\ at[last] = N
      /\ \A m \in (k + 1)..last :
           /\ at[m] = at[m - 1] + 1 + ChangeSize(all[m])
           /\ ring[at[m - 1] + 1] = Header(all[m])
           /\ \A n \in 1..ChangeSize(all[m]) : ring[at[m - 1] + 1 + n] = Unit(all[m])
  BY <1>1 DEF Ends
<1>4. Pending(ring) = of[N]
  BY DEF Pending
<1>5. whole \subseteq 1..N /\ \A n \in 1..N : ring[n] \in C
  BY <1>2
<1>6. \A n \in 1..N : ring[n].of \in S
  BY <1>5 DEF CellsOf
<1>7. ASSUME NEW n \in 1..N
      PROVE  n \in whole <=>
               /\ ring[n].is = "header"
               /\ SubSeq(ring, n + 1, Smaller(N, n + ChangeSize(ring[n].of)))
                    = Body(ring[n].of, ChangeSize(ring[n].of))
  <2>1. n \in DOMAIN ring
    BY <1>2
  <2> QED
    BY <2>1
<1> HIDE DEF whole
<1>8. \A n \in 1..N, s \in R : Append(s, ring[n].of) \in R
  BY <1>6
<1>9. G \in [(1..N) \X R -> R]
  <2> HIDE DEF R
  <2> QED
    BY <1>8
<1>10. \A n \in 1..N, s \in R : G[<<n, s>>] = IF n \in whole THEN Append(s, ring[n].of) ELSE s
  <2> HIDE DEF R
  <2> QED
    OBVIOUS
<1> HIDE DEF Rec, of, G, N, last, R, C, none
<1>11. PICK f \in [0..N -> R] : GoesOn(f, N, none, G)
  BY <1>2, <1>9, RecursionExists
<1>12. \A n \in 1..N : n \in 0..N /\ n # 0 /\ n - 1 \in 0..N
  BY <1>2
<1>13. \A n \in 1..N : f[n] = IF n \in whole THEN Append(f[n - 1], ring[n].of) ELSE f[n - 1]
  BY <1>10, <1>11, <1>12 DEF GoesOn
<1>14. Rec(f)
  <2>1. f = [n \in 0..N |-> f[n]]
    OBVIOUS
  <2>2. \A n \in 0..N : f[n] = IF n = 0 THEN none
                               ELSE IF n \in whole THEN Append(f[n - 1], ring[n].of) ELSE f[n - 1]
    <3>1. ASSUME NEW n \in 0..N
          PROVE  f[n] = IF n = 0 THEN none
                        ELSE IF n \in whole THEN Append(f[n - 1], ring[n].of) ELSE f[n - 1]
      <4>1. n = 0 \/ n \in 1..N
        BY <1>2
      <4>2. CASE n = 0
        BY <1>11, <4>2 DEF GoesOn
      <4>3. CASE n \in 1..N
        BY <1>12, <1>13, <4>3, Zenon
      <4> QED
        BY <4>1, <4>2, <4>3
    <3> QED
      BY <3>1
  <2> QED
    BY <2>1, <2>2, Zenon DEF Rec
<1>15. Rec(of)
  BY <1>14 DEF of
<1>16. /\ of[0] = none
       /\ \A n \in 1..N : of[n] = IF n \in whole THEN Append(of[n - 1], ring[n].of) ELSE of[n - 1]
  <2>1. \A n \in 0..N : of[n] = IF n = 0 THEN none
                                ELSE IF n \in whole THEN Append(of[n - 1], ring[n].of) ELSE of[n - 1]
    BY <1>15, Zenon DEF Rec
  <2>2. 0 \in 0..N
    BY <1>2
  <2> QED
    BY <1>12, <2>1, <2>2, Zenon
<1>17. ASSUME NEW m \in (k + 1)..last, of[at[m - 1]] = Behind(all, k, m - 1)
       PROVE  of[at[m]] = Behind(all, k, m)
  <2> DEFINE start == at[m - 1]
             ev == all[m]
             size == ChangeSize(ev)
  <2>1. m - 1 \in k..last /\ m \in k..last /\ m \in 1..last
    BY <1>2
  <2>2. /\ at[m] = start + 1 + size /\ ring[start + 1] = Header(ev)
        /\ \A n \in 1..size : ring[start + 1 + n] = Unit(ev)
    BY <1>3
  <2>3. start \in 0..N /\ at[m] \in 0..N /\ size \in {1, 2}
    BY <1>3, <2>1, ChangeSizes
  <2> HIDE DEF start, ev, size
  <2>4. /\ start + 1 \in 1..N /\ start + 1 + 1 \in 1..N /\ start + 1 + size <= N
        /\ size = 2 => start + 1 + 2 \in 1..N
    BY <1>2, <2>2, <2>3
  <2>5. start + 1 \in whole
    <3>1. ring[start + 1].is = "header" /\ ring[start + 1].of = ev
      BY <2>2 DEF Header
    <3>2. SubSeq(ring, start + 1 + 1, Smaller(N, start + 1 + size)) = Body(ev, size)
      BY <1>2, <2>2, <2>3, <2>4, WholeChange DEF size, N
    <3> QED
      BY <1>7, <2>4, <3>1, <3>2 DEF size
  <2>6. ASSUME NEW n \in 1..size PROVE start + 1 + n \notin whole
    <3>1. ring[start + 1 + n].is = "body"
      BY <2>2 DEF Unit
    <3>2. start + 1 + n \in 1..N
      BY <1>2, <2>3, <2>4
    <3> QED
      BY <1>7, <3>1, <3>2
  <2>7. of[start + 1] = Append(of[start], ev)
    <3>1. start + 1 - 1 = start /\ ring[start + 1].of = ev
      BY <2>2, <2>3 DEF Header
    <3>2. ASSUME NEW n \in 1..N, n \in whole, NEW p, p = n - 1
          PROVE  of[n] = Append(of[p], ring[n].of)
      BY <1>16, <3>2
    <3>3. PICK n : n = start + 1
      OBVIOUS
    <3>4. n \in 1..N /\ n \in whole /\ start = n - 1 /\ ring[n].of = ev
      BY <2>3, <2>4, <2>5, <3>1, <3>3
    <3>5. of[n] = Append(of[start], ring[n].of)
      BY <3>2, <3>4
    <3> QED
      BY <3>3, <3>4, <3>5
  <2>8. of[start + 1 + 1] = of[start + 1]
    <3>1. start + 1 + 1 - 1 = start + 1 /\ 1 \in 1..size
      BY <2>3
    <3> QED
      BY <1>16, <2>4, <2>6, <3>1
  <2>9. size = 2 => of[start + 1 + 2] = of[start + 1 + 1]
    <3>1. start + 1 + 2 - 1 = start + 1 + 1 /\ (size = 2 => 2 \in 1..size)
      BY <2>3
    <3> QED
      BY <1>16, <2>4, <2>6, <3>1
  <2>10. of[at[m]] = Append(of[start], ev)
    BY <2>2, <2>3, <2>7, <2>8, <2>9
  <2>11. Behind(all, k, m) = Append(Behind(all, k, m - 1), all[m])
    BY <1>2, BehindLonger DEF last
  <2> QED
    BY <1>17, <2>10, <2>11 DEF start, ev
<1> DEFINE T == {m \in k..last : of[at[m]] # Behind(all, k, m)}
<1>18. of[at[k]] = Behind(all, k, k)
  <2>1. Behind(all, k, k) = none
    BY <1>2 DEF Behind, none
  <2> QED
    BY <1>3, <1>16, <2>1
<1>19. ASSUME T # {} PROVE FALSE
  <2>1. T \in SUBSET Nat
    BY <1>2
  <2>2. PICK least \in T : \A m \in T : least <= m
    BY <1>19, <2>1, LeastNatural
  <2>3. least # k /\ least \in k..last /\ of[at[least]] # Behind(all, k, least)
    BY <1>18, <2>2
  <2>4. least - 1 \in k..last /\ least \in (k + 1)..last /\ ~(least <= least - 1)
    BY <1>2, <2>3
  <2>5. of[at[least - 1]] = Behind(all, k, least - 1)
    BY <2>2, <2>4
  <2> QED
    BY <1>17, <2>3, <2>4, <2>5
<1>20. last \in k..last
  BY <1>2
<1>21. Pending(ring) = Behind(all, k, last)
  BY <1>3, <1>4, <1>19, <1>20
<1>22. First(all, k) \o Behind(all, k, last) = First(all, last) /\ First(all, last) = all
  <2>1. all \in Seq(S) /\ k \in 0..Len(all) /\ Len(all) \in k..Len(all)
    BY <1>2, <1>20 DEF last
  <2>2. First(all, k) \o Behind(all, k, Len(all)) = First(all, Len(all)) /\ First(all, Len(all)) = all
    BY <2>1, FirstAndBehind
  <2> QED
    BY <2>2 DEF last
<1> QED
  BY <1>21, <1>22

\* Behind the k-th change, what was done are the next ones, and the ring holds the others.
DoneSince(before, all, k) ==
  \E m \in k..Len(all) : Held(before.ring, all, m) /\ before.done = Behind(all, k, m)

\* One more round applies one more change, the next one.
LEMMA AppliedNext ==
  ASSUME NEW S, NEW all \in Seq(S), NEW k \in 0..Len(all),
         NEW before, DoneSince(before, all, k)
  PROVE  DoneSince(ApplyChange(before), all, k)
<1>1. CASE before.ring = <<>>
  <2>1. ApplyChange(before) = before
    BY <1>1 DEF ApplyChange
  <2> QED
    BY <2>1
<1>2. CASE before.ring # <<>>
  <2>1. PICK m \in k..Len(all) : Held(before.ring, all, m) /\ before.done = Behind(all, k, m)
    BY DEF DoneSince
  <2> DEFINE ring == before.ring
             ev == ring[1].of
             rest == RingRest(ring, 1)
             size == ChangeSize(ev)
             after == ApplyChange(before)
  <2>2. /\ m + 1 \in 1..Len(all) /\ ev = all[m + 1]
        /\ RingRead(rest, size) = Body(ev, size)
        /\ Held(RingRest(rest, size), all, m + 1)
    <3>1. Held(ring, all, m) /\ ring # <<>>
      BY <1>2, <2>1
    <3> HIDE DEF ring
    <3> QED
      BY <3>1, HeldShorter
  <2>3. after.ring = RingRest(rest, size) /\ after.done = Append(before.done, ev)
    BY <1>2, <2>2 DEF ApplyChange
  <2> HIDE DEF ring, ev, rest, size, after
  <2>4. m + 1 \in (k + 1)..Len(all) /\ m + 1 - 1 = m /\ m + 1 \in k..Len(all)
    BY <2>2
  <2>5. after.done = Behind(all, k, m + 1)
    <3>1. Behind(all, k, m + 1) = Append(Behind(all, k, m + 1 - 1), all[m + 1])
      BY <2>4, BehindLonger
    <3> QED
      BY <2>1, <2>2, <2>3, <2>4, <3>1
  <2> QED
    BY <2>2, <2>3, <2>4, <2>5 DEF DoneSince, after
<1> QED
  BY <1>1, <1>2

\* The loop of lv2_apply_ui_events, round by round.
LEMMA EventsRead ==
  ASSUME NEW N \in Nat, N = Len(uiEvents)
  PROVE  \E f : /\ f[0] = [ring |-> uiEvents, ports |-> ports, end |-> evEnd, done |-> <<>>]
                /\ \A n \in 1..N : f[n] = ApplyChange(f[n - 1])
                /\ lv2_apply_ui_events = f[N]
<1> DEFINE first == [ring |-> uiEvents, ports |-> ports, end |-> evEnd, done |-> <<>>]
           Rec(f) == f = [n \in 0..N |-> IF n = 0 THEN first ELSE ApplyChange(f[n - 1])]
           Upto(m) == \E f : /\ f = [n \in 0..N |-> f[n]]
                             /\ f[0] = first
                             /\ \A n \in 1..m : f[n] = ApplyChange(f[n - 1])
           read == CHOOSE f : Rec(f)
<1>1. lv2_apply_ui_events = read[N]
  BY DEF lv2_apply_ui_events
<1> HIDE DEF first
<1>2. Upto(0)
  <2> DEFINE f == [n \in 0..N |-> first]
  <2>1. f = [n \in 0..N |-> f[n]] /\ f[0] = first
    OBVIOUS
  <2>2. 1..0 = {}
    OBVIOUS
  <2> HIDE DEF f
  <2> QED
    BY <2>1, <2>2
<1>3. ASSUME NEW m \in 1..N, Upto(m - 1)
      PROVE  Upto(m)
  <2>1. PICK f : /\ f = [n \in 0..N |-> f[n]]
                 /\ f[0] = first
                 /\ \A n \in 1..(m - 1) : f[n] = ApplyChange(f[n - 1])
    BY <1>3
  <2> DEFINE g == [n \in 0..N |-> IF n = m THEN ApplyChange(f[m - 1]) ELSE f[n]]
  <2>2. g = [n \in 0..N |-> g[n]] /\ g[0] = first
    BY <2>1
  <2>3. ASSUME NEW n \in 1..m PROVE g[n] = ApplyChange(g[n - 1])
    <3>1. n \in 0..N /\ n - 1 \in 0..N /\ n - 1 # m
      OBVIOUS
    <3>2. g[n - 1] = f[n - 1]
      BY <3>1
    <3>3. CASE n = m
      BY <3>1, <3>2, <3>3
    <3>4. CASE n # m
      <4>1. n \in 1..(m - 1) /\ g[n] = f[n]
        BY <3>1, <3>4
      <4> QED
        BY <2>1, <3>2, <4>1
    <3> QED
      BY <3>3, <3>4
  <2> HIDE DEF g
  <2> QED
    BY <2>2, <2>3
<1> HIDE DEF Upto
<1>4. Upto(N)
  <2> DEFINE T == {m \in 0..N : ~Upto(m)}
  <2>1. T \subseteq 0..N /\ 0 \notin T
    BY <1>2
  <2>2. ASSUME NEW m \in 1..N, m \in T PROVE m - 1 \in T
    BY <1>3, <2>2
  <2> HIDE DEF T
  <2>3. \A m \in 0..N : m \notin T
    BY <2>1, <2>2, NeverFails
  <2> QED
    BY <2>3 DEF T
<1>5. PICK f : /\ f = [n \in 0..N |-> f[n]]
               /\ f[0] = first
               /\ \A n \in 1..N : f[n] = ApplyChange(f[n - 1])
  BY <1>4 DEF Upto
<1>6. Rec(f)
  <2> HIDE DEF read, Rec
  <2>1. ASSUME NEW n \in 0..N
        PROVE  f[n] = IF n = 0 THEN first ELSE ApplyChange(f[n - 1])
    <3>1. n = 0 \/ n \in 1..N
      OBVIOUS
    <3>2. CASE n = 0
      BY <1>5, <3>2
    <3>3. CASE n \in 1..N
      <4>1. n # 0
        BY <3>3
      <4>2. f[n] = ApplyChange(f[n - 1])
        BY <1>5, <3>3, Zenon
      <4> QED
        BY <4>1, <4>2
    <3> QED
      BY <3>1, <3>2, <3>3
  <2>2. f = [n \in 0..N |-> f[n]]
    BY <1>5
  <2> USE DEF Rec
  <2> QED
    BY <2>1, <2>2
<1>7. Rec(read)
  BY <1>6
<1> HIDE DEF read
<1>8. read[0] = first /\ \A n \in 1..N : read[n] = ApplyChange(read[n - 1])
  BY <1>7
<1> QED
  BY <1>1, <1>8 DEF first

\* All rounds apply the first of the changes that the ring holds, in order.
LEMMA EventsApplied ==
  ASSUME NEW k, Held(uiEvents, accepted, k)
  PROVE  DoneSince(lv2_apply_ui_events, accepted, k)
<1> DEFINE N == Len(uiEvents)
           first == [ring |-> uiEvents, ports |-> ports, end |-> evEnd, done |-> <<>>]
           Good(before) == DoneSince(before, accepted, k)
<1>1. PICK S : N \in Nat /\ accepted \in Seq(S) /\ k \in 0..Len(accepted)
  BY DEF Held, Lists
<1>2. \A before : Good(before) => Good(ApplyChange(before))
  BY <1>1, AppliedNext
<1>3. Good(first)
  <2>1. k \in k..Len(accepted) /\ Behind(accepted, k, k) = <<>>
    BY <1>1 DEF Behind
  <2> QED
    BY <2>1 DEF DoneSince
<1>4. PICK f : /\ f[0] = first
               /\ \A n \in 1..N : f[n] = ApplyChange(f[n - 1])
               /\ lv2_apply_ui_events = f[N]
  BY <1>1, EventsRead
<1> HIDE DEF N, first, Good
<1> DEFINE T == {n \in 0..N : ~Good(f[n])}
<1>5. T \subseteq 0..N /\ 0 \notin T
  BY <1>3, <1>4
<1>6. ASSUME NEW n \in 1..N, n \in T PROVE n - 1 \in T
  <2>1. n - 1 \in 0..N
    BY <1>1
  <2> QED
    BY <1>2, <1>4, <1>6, <2>1
<1> HIDE DEF T
<1>7. \A n \in 0..N : n \notin T
  BY <1>1, <1>5, <1>6, NeverFails
<1>8. Good(f[N])
  BY <1>1, <1>7 DEF T
<1> QED
  BY <1>4, <1>8 DEF Good

\* Whatever a UI writes, the ring holds what was accepted behind the k-th.
LEMMA UiWriteHeld ==
  ASSUME NEW ring, NEW all, NEW k, Held(ring, all, k), NEW n, NEW protocol, NEW value
  PROVE  \/ ui_write(ring, n, protocol, value) = ring
         \/ /\ ui_write(ring, n, protocol, value) # ring
            /\ Held(ui_write(ring, n, protocol, value),
                    Append(all, Change(protocol, n, value)), k)
            /\ First(Append(all, Change(protocol, n, value)), k) = First(all, k)
<1> DEFINE ev == Change(protocol, n, value)
           cells == <<Header(ev)>> \o Body(ev, ChangeSize(ev))
           new == ui_write(ring, n, protocol, value)
<1>1. new = ring \/ new = ring \o cells
  BY DEF ui_write, RingWrite
<1>2. CASE new = ring
  BY <1>2
<1>3. CASE new = ring \o cells
  <2>1. Held(ring \o cells, Append(all, ev), k) /\ ring \o cells # ring
    <3> HIDE DEF ev
    <3> QED
      BY HeldLonger
  <2>3. PICK S : all \in Seq(S) /\ k \in 0..Len(all)
    BY DEF Held, Lists
  <2> HIDE DEF ev, cells
  <2>4. \A m \in 1..k : Append(all, ev)[m] = all[m]
    <3>1. all \in Seq(S \cup {ev}) /\ ev \in S \cup {ev}
      <4>1. S \subseteq S \cup {ev}
        OBVIOUS
      <4> DEFINE T == S \cup {ev}
      <4> HIDE DEF T
      <4>2. S \subseteq T => all \in Seq(T)
        BY <2>3
      <4> QED
        BY <4>1, <4>2 DEF T
    <3> QED
      BY <2>3, <3>1
  <2>5. First(Append(all, ev), k) = First(all, k)
    BY <2>4 DEF First
  <2> QED
    BY <1>3, <2>1, <2>5 DEF ev
<1> QED
  BY <1>1, <1>2, <1>3

\* So it does when the value of a port is restored.
LEMMA RestoreHeld ==
  ASSUME NEW before, NEW k, Held(before.ui, before.accepted, k),
         NEW n, NEW value, NEW after, after = RestorePort(before, n, value)
  PROVE  Held(after.ui, after.accepted, k) /\ First(after.accepted, k) = First(before.accepted, k)
<1>1. CASE after = before
  BY <1>1
<1>2. CASE after = set_port_value(before, n, value)
  <2> DEFINE written == ui_write(before.ui, n, "float", value)
  <2>1. \/ after.ui = before.ui /\ after.accepted = before.accepted
        \/ /\ after.ui = written
           /\ after.accepted = IF written = before.ui THEN before.accepted
                               ELSE Append(before.accepted, Change("float", n, value))
    BY <1>2 DEF set_port_value
  <2>2. CASE after.ui = before.ui /\ after.accepted = before.accepted
    BY <2>2
  <2>3. CASE /\ after.ui = written
             /\ after.accepted = IF written = before.ui THEN before.accepted
                                 ELSE Append(before.accepted, Change("float", n, value))
    BY <2>3, UiWriteHeld
  <2> QED
    BY <2>1, <2>2, <2>3
<1> QED
  BY <1>1, <1>2 DEF RestorePort

\* The loop over the ports that are restored, round by round.
LEMMA PortsRestored ==
  ASSUME NEW N \in Nat, N = num_ports, Restoring
  PROVE  \E value, f :
           /\ f[0] = [ports |-> ports, ui |-> uiEvents, accepted |-> accepted,
                      plugin |-> pluginEvents]
           /\ \A n \in 1..N : f[n] = RestorePort(f[n - 1], n, value)
           /\ ports' = f[N].ports /\ uiEvents' = f[N].ui /\ accepted' = f[N].accepted
<1>0. PICK value \in Values :
        LET Done[n \in 0..N] ==
              IF n = 0 THEN [ports |-> ports, ui |-> uiEvents, accepted |-> accepted,
                             plugin |-> pluginEvents]
              ELSE RestorePort(Done[n - 1], n, value)
        IN  /\ ports' = Done[N].ports
            /\ uiEvents' = Done[N].ui /\ accepted' = Done[N].accepted
  BY DEF Restoring
<1> DEFINE first == [ports |-> ports, ui |-> uiEvents, accepted |-> accepted,
                     plugin |-> pluginEvents]
           Rec(f) == f = [n \in 0..N |-> IF n = 0 THEN first ELSE RestorePort(f[n - 1], n, value)]
           Upto(m) == \E f : /\ f = [n \in 0..N |-> f[n]]
                             /\ f[0] = first
                             /\ \A n \in 1..m : f[n] = RestorePort(f[n - 1], n, value)
           done == CHOOSE f : Rec(f)
<1>1. ports' = done[N].ports /\ uiEvents' = done[N].ui /\ accepted' = done[N].accepted
  BY <1>0
<1> HIDE DEF first
<1>2. Upto(0)
  <2> DEFINE f == [n \in 0..N |-> first]
  <2>1. f = [n \in 0..N |-> f[n]] /\ f[0] = first
    OBVIOUS
  <2>2. 1..0 = {}
    OBVIOUS
  <2> HIDE DEF f
  <2> QED
    BY <2>1, <2>2
<1>3. ASSUME NEW m \in 1..N, Upto(m - 1)
      PROVE  Upto(m)
  <2>1. PICK f : /\ f = [n \in 0..N |-> f[n]]
                 /\ f[0] = first
                 /\ \A n \in 1..(m - 1) : f[n] = RestorePort(f[n - 1], n, value)
    BY <1>3
  <2> DEFINE g == [n \in 0..N |-> IF n = m THEN RestorePort(f[m - 1], m, value) ELSE f[n]]
  <2>2. g = [n \in 0..N |-> g[n]] /\ g[0] = first
    BY <2>1
  <2>3. ASSUME NEW n \in 1..m PROVE g[n] = RestorePort(g[n - 1], n, value)
    <3>1. n \in 0..N /\ n - 1 \in 0..N /\ n - 1 # m
      OBVIOUS
    <3>2. g[n - 1] = f[n - 1]
      BY <3>1
    <3>3. CASE n = m
      BY <3>1, <3>2, <3>3
    <3>4. CASE n # m
      <4>1. n \in 1..(m - 1) /\ g[n] = f[n]
        BY <3>1, <3>4
      <4> QED
        BY <2>1, <3>2, <4>1
    <3> QED
      BY <3>3, <3>4
  <2> HIDE DEF g
  <2> QED
    BY <2>2, <2>3
<1> HIDE DEF Upto
<1>4. Upto(N)
  <2> DEFINE T == {m \in 0..N : ~Upto(m)}
  <2>1. T \subseteq 0..N /\ 0 \notin T
    BY <1>2
  <2>2. ASSUME NEW m \in 1..N, m \in T PROVE m - 1 \in T
    BY <1>3, <2>2
  <2> HIDE DEF T
  <2>3. \A m \in 0..N : m \notin T
    BY <2>1, <2>2, NeverFails
  <2> QED
    BY <2>3 DEF T
<1>5. PICK f : /\ f = [n \in 0..N |-> f[n]]
               /\ f[0] = first
               /\ \A n \in 1..N : f[n] = RestorePort(f[n - 1], n, value)
  BY <1>4 DEF Upto
<1>6. Rec(f)
  <2> HIDE DEF done, Rec
  <2>1. ASSUME NEW n \in 0..N
        PROVE  f[n] = IF n = 0 THEN first ELSE RestorePort(f[n - 1], n, value)
    <3>1. n = 0 \/ n \in 1..N
      OBVIOUS
    <3>2. CASE n = 0
      BY <1>5, <3>2
    <3>3. CASE n \in 1..N
      <4>1. n # 0
        BY <3>3
      <4>2. f[n] = RestorePort(f[n - 1], n, value)
        BY <1>5, <3>3, Zenon
      <4> QED
        BY <4>1, <4>2
    <3> QED
      BY <3>1, <3>2, <3>3
  <2>2. f = [n \in 0..N |-> f[n]]
    BY <1>5
  <2> USE DEF Rec
  <2> QED
    BY <2>1, <2>2
<1>7. Rec(done)
  BY <1>6
<1> HIDE DEF done
<1>8. done[0] = first /\ \A n \in 1..N : done[n] = RestorePort(done[n - 1], n, value)
  BY <1>7
<1> QED
  BY <1>1, <1>8 DEF first

\* So it does when all of them are.
LEMMA RestoringHeld ==
  ASSUME NEW k, Held(uiEvents, accepted, k), num_ports \in Nat, Restoring
  PROVE  Held(uiEvents', accepted', k) /\ First(accepted', k) = First(accepted, k)
<1> DEFINE N == num_ports
           first == [ports |-> ports, ui |-> uiEvents, accepted |-> accepted,
                     plugin |-> pluginEvents]
           Good(before) == /\ Held(before.ui, before.accepted, k)
                           /\ First(before.accepted, k) = First(accepted, k)
<1>1. PICK value, f : /\ f[0] = first
                      /\ \A n \in 1..N : f[n] = RestorePort(f[n - 1], n, value)
                      /\ uiEvents' = f[N].ui /\ accepted' = f[N].accepted
  BY PortsRestored
<1>2. \A n, before : Good(before) => Good(RestorePort(before, n, value))
  BY RestoreHeld
<1>3. Good(first) /\ N \in Nat
  OBVIOUS
<1> HIDE DEF N, first, Good
<1> DEFINE T == {n \in 0..N : ~Good(f[n])}
<1>4. T \subseteq 0..N /\ 0 \notin T
  BY <1>1, <1>3
<1>5. ASSUME NEW n \in 1..N, n \in T PROVE n - 1 \in T
  <2>1. n - 1 \in 0..N
    BY <1>3
  <2> QED
    BY <1>1, <1>2, <1>5, <2>1
<1> HIDE DEF T
<1>6. \A n \in 0..N : n \notin T
  BY <1>3, <1>4, <1>5, NeverFails
<1>7. Good(f[N])
  BY <1>3, <1>6 DEF T
<1> QED
  BY <1>1, <1>7 DEF Good

\* Which plugin is in the slot: one of those that the user may drop, as soon as a
\* state is applied, a window is opened or the plugin is in its slot.
SlotInv ==
  /\ lp = <<>> => gpc \in {"idle", "dialog"} /\ ~live
  /\ lp # <<>> => Inst \in Descriptions

\* Every step keeps a plugin in the slot that needs one.
LEMMA SlotStep ==
  ASSUME SlotInv, [Next]_vars
  PROVE  SlotInv'
<1>1. CASE UNCHANGED <<lp, live>> /\ (lp = <<>> => gpc' \in {"idle", "dialog"})
  BY <1>1 DEF SlotInv, Inst
<1>2. CASE UNCHANGED <<lp, live, gpc>>
  BY <1>1, <1>2 DEF SlotInv
<1>3. CASE DropPlugin
  <2>1. PICK d \in scan_plugins(Descriptions) :
          \/ UNCHANGED lp /\ gpc' = "dialog"
          \/ lp' = <<d>>
    BY <1>3 DEF DropPlugin, lv2_instantiate
  <2>2. UNCHANGED live /\ ~live
    BY <1>3 DEF DropPlugin, SlotInv
  <2>3. CASE UNCHANGED lp /\ gpc' = "dialog"
    BY <1>1, <2>2, <2>3
  <2>4. CASE lp' = <<d>>
    <3>1. d \in Descriptions
      BY DEF scan_plugins
    <3>2. lp' # <<>> /\ lp'[1] = d
      BY <2>4
    <3> QED
      BY <3>1, <3>2 DEF SlotInv, Inst
  <2> QED
    BY <2>1, <2>3, <2>4
<1>4. CASE DialogEnds \/ lv2_apply_state \/ WaitForPause \/ Restoring \/ RestoreSchedules \/
           Resume \/ OpenFirst \/ on_preset_activate
  <2>1. UNCHANGED <<lp, live>> /\ (gpc' = "idle" \/ lp # <<>>)
    BY <1>4 DEF DialogEnds, lv2_apply_state, WaitForPause, Restoring, RestoreSchedules, Resume,
         OpenFirst, on_preset_activate, instVars, SlotInv
  <2> QED
    BY <1>1, <2>1
<1>5. CASE AddPlugin
  <2>1. UNCHANGED lp /\ lp # <<>>
    BY <1>5 DEF AddPlugin, SlotInv
  <2> QED
    BY <2>1 DEF SlotInv, Inst
<1>6. CASE SuilWrite \/ MoveWidget \/ DoubleClickSlot \/ DestroyWindow \/ lv2_close_ui \/
           IdleClose \/ UpdateStart \/ UpdateEvent \/ UpdateEnd
  <2>1. UNCHANGED <<lp, live, gpc>>
    BY <1>6 DEF SuilWrite, MoveWidget, DoubleClickSlot, DestroyWindow, lv2_close_ui,
         IdleClose, UpdateStart, UpdateEvent, UpdateEnd, instVars, stateVars
  <2> QED
    BY <1>2, <2>1
<1>7. CASE on_save_preset_activate \/ on_delete_preset_activate \/ UserTransport \/
           TransportAnswers
  <2>1. UNCHANGED <<lp, live, gpc>>
    BY <1>7 DEF on_save_preset_activate, on_delete_preset_activate, UserTransport,
         TransportAnswers, instVars
  <2> QED
    BY <1>2, <2>1
<1>8. CASE PreparePorts \/ RunStart \/ Schedule \/ MapUri \/ RunEnd \/ EmitResponses \/
           EmitEnd \/ SendHeader \/ SendBody \/ ProcessEnd \/ Work
  <2>1. UNCHANGED <<lp, live, gpc>>
    BY <1>8 DEF PreparePorts, RunStart, Schedule, MapUri, RunEnd, EmitResponses, EmitEnd,
         SendHeader, SendBody, ProcessEnd, Work, instVars, stateVars
  <2> QED
    BY <1>2, <2>1
<1>9. CASE UNCHANGED vars
  BY <1>2, <1>9 DEF vars, instVars, stateVars
<1> QED
  BY <1>3, <1>4, <1>5, <1>6, <1>7, <1>8, <1>9 DEF Next, GtkThread, ChannelThread

\* Every step keeps the changes that wait in the ring.
LEMMA UiStep ==
  ASSUME SlotInv, UiInv, [Next]_vars
  PROVE  UiInv'
<1>1. PICK k : Held(uiEvents, accepted, k) /\ applied = First(accepted, k)
  BY DEF UiInv
<1>2. PICK S : accepted \in Seq(S) /\ k \in 0..Len(accepted)
  BY <1>1 DEF Held, Lists
<1>3. CASE UNCHANGED <<uiEvents, accepted, applied>>
  BY <1>1, <1>3 DEF UiInv
<1>4. CASE SuilWrite
  <2>1. UNCHANGED applied /\ \E n, protocol, value : Lv2UiWrite(n, protocol, value)
    BY <1>4 DEF SuilWrite
  <2>2. PICK n, protocol, value : Lv2UiWrite(n, protocol, value)
    BY <2>1
  <2>3. /\ uiEvents' = ui_write(uiEvents, n, protocol, value)
        /\ accepted' = IF uiEvents' = uiEvents THEN accepted
                       ELSE Append(accepted, Change(protocol, n, value))
    BY <2>2 DEF Lv2UiWrite
  <2>4. Held(uiEvents', accepted', k) /\ First(accepted', k) = First(accepted, k)
    BY <1>1, <2>3, UiWriteHeld
  <2> QED
    BY <1>1, <2>1, <2>4 DEF UiInv
<1>5. CASE Restoring
  <2>1. num_ports \in Nat
    <3>1. lp # <<>>
      BY <1>5 DEF Restoring, SlotInv
    <3> QED
      BY <3>1, HostAssumption DEF SlotInv, num_ports
  <2>2. Held(uiEvents', accepted', k) /\ First(accepted', k) = First(accepted, k)
    BY <1>1, <1>5, <2>1, RestoringHeld
  <2>3. UNCHANGED applied
    BY <1>5 DEF Restoring
  <2> QED
    BY <1>1, <2>2, <2>3 DEF UiInv
<1>6. CASE RunStart
  <2>1. CASE window = 0
    <3>1. UNCHANGED <<uiEvents, accepted, applied>>
      BY <1>6, <2>1 DEF RunStart
    <3> QED
      BY <1>3, <3>1
  <2>2. CASE window # 0
    <3> DEFINE after == lv2_apply_ui_events
    <3>1. uiEvents' = after.ring /\ applied' = applied \o after.done /\ UNCHANGED accepted
      BY <1>6, <2>2 DEF RunStart
    <3>2. DoneSince(after, accepted, k)
      BY <1>1, EventsApplied
    <3> HIDE DEF after
    <3>3. PICK m \in k..Len(accepted) :
            Held(after.ring, accepted, m) /\ after.done = Behind(accepted, k, m)
      BY <3>2 DEF DoneSince
    <3>4. First(accepted, k) \o Behind(accepted, k, m) = First(accepted, m)
      BY <1>2, FirstAndBehind
    <3>5. Held(uiEvents', accepted', m) /\ applied' = First(accepted', m)
      BY <1>1, <3>1, <3>3, <3>4
    <3> QED
      BY <3>5 DEF UiInv
  <2> QED
    BY <2>1, <2>2
<1>7. CASE MoveWidget \/ DoubleClickSlot \/ DestroyWindow \/ lv2_close_ui \/
           IdleClose \/ UpdateStart \/ UpdateEvent \/ UpdateEnd
  <2>1. UNCHANGED <<uiEvents, accepted, applied>>
    BY <1>7 DEF MoveWidget, DoubleClickSlot, DestroyWindow, lv2_close_ui,
         IdleClose, UpdateStart, UpdateEvent, UpdateEnd, ringVars, ghostVars
  <2> QED
    BY <1>3, <2>1
<1>8. CASE DropPlugin \/ DialogEnds \/ OpenFirst \/ AddPlugin \/ lv2_apply_state \/
           WaitForPause \/ RestoreSchedules \/ Resume
  <2>1. UNCHANGED <<uiEvents, accepted, applied>>
    BY <1>8 DEF DropPlugin, DialogEnds, OpenFirst, AddPlugin, lv2_apply_state,
         WaitForPause, RestoreSchedules, Resume, ringVars, ghostVars
  <2> QED
    BY <1>3, <2>1
<1>9. CASE on_preset_activate \/ on_save_preset_activate \/ on_delete_preset_activate \/
           UserTransport \/ TransportAnswers
  <2>1. UNCHANGED <<uiEvents, accepted, applied>>
    BY <1>9 DEF on_preset_activate, on_save_preset_activate, on_delete_preset_activate,
         UserTransport, TransportAnswers, ringVars, ghostVars
  <2> QED
    BY <1>3, <2>1
<1>10. CASE PreparePorts \/ Schedule \/ MapUri \/ RunEnd \/ EmitResponses \/ EmitEnd \/
            SendHeader \/ SendBody \/ ProcessEnd \/ Work
  <2>1. UNCHANGED <<uiEvents, accepted, applied>>
    BY <1>10 DEF PreparePorts, Schedule, MapUri, RunEnd, EmitResponses, EmitEnd, SendHeader,
         SendBody, ProcessEnd, Work, ringVars, ghostVars
  <2> QED
    BY <1>3, <2>1
<1>11. CASE UNCHANGED vars
  BY <1>3, <1>11 DEF vars, ringVars, ghostVars
<1> QED
  BY <1>4, <1>5, <1>6, <1>7, <1>8, <1>9, <1>10, <1>11 DEF Next, GtkThread, ChannelThread

\* Nothing was dropped and nothing was written yet.
LEMMA UiInit == Init => SlotInv /\ UiInv
<1> SUFFICES ASSUME Init PROVE SlotInv /\ UiInv
  OBVIOUS
<1> USE DEF Init
<1>1. SlotInv
  BY DEF SlotInv
<1> DEFINE at == [m \in 0..0 |-> 0]
<1>2. Lists({}, uiEvents, accepted, 0)
  BY DEF Lists
<1>3. Len(accepted) = 0 /\ Len(uiEvents) = 0 /\ 1..0 = {} /\ 0..0 = {0}
  OBVIOUS
<1>4. at \in [0..0 -> 0..0] /\ at[0] = 0
  BY <1>3
<1> HIDE DEF at
<1>5. Ends(uiEvents, accepted, 0, at)
  BY <1>3, <1>4 DEF Ends
<1>6. applied = First(accepted, 0)
  BY <1>3 DEF First
<1> QED
  BY <1>1, <1>2, <1>5, <1>6 DEF UiInv, Held

\* What a UI or a preset writes and the ring takes is applied by the thread of the
\* channel once, whole and in order, and what the ring refuses leaves nothing behind,
\* for every size of the ring, however often windows are closed and opened and
\* whichever thread runs in between (lv2_ui_write, lv2_apply_ui_events).
THEOREM UiWritesOnceCorrect == Spec => []UiWritesOnce
<1>1. Init => SlotInv /\ UiInv
  BY UiInit
<1>2. SlotInv /\ UiInv /\ [Next]_vars => SlotInv' /\ UiInv'
  BY SlotStep, UiStep
<1>3. UiInv => UiWritesOnce
  <2> SUFFICES ASSUME UiInv PROVE UiWritesOnce
    OBVIOUS
  <2>1. PICK k : Held(uiEvents, accepted, k) /\ applied = First(accepted, k)
    BY DEF UiInv
  <2> QED
    BY <2>1, PendingHeld DEF UiWritesOnce
<1> QED
  BY <1>1, <1>2, <1>3, PTL DEF Spec

-----------------------------------------------------------------------------
(***************************************************************************)
(* The buffers of events.  The code keeps within a buffer whose capacity   *)
(* is a multiple of 8, as the space left is then one, and an event that    *)
(* fits does so with its padding.  Of any other capacity some events pass  *)
(* the test with what is left of a multiple of 8, and the size goes behind *)
(* the capacity: from then on the space left wraps around, and every event *)
(* fits.                                                                   *)
(***************************************************************************)
\* A buffer that is being filled: whole events behind the header, and no byte behind the end.
Filled(evbuf) ==
  /\ evbuf \in EvbufType /\ evbuf.type = "Sequence"
  /\ WholeCapacity(evbuf.capacity)
  /\ evbuf.size % 8 = 0 /\ 8 <= evbuf.size /\ evbuf.size + 8 <= evbuf.capacity

\* The space that is left takes an event with its padding.
LEMMA FitsPadded ==
  ASSUME NEW room \in Nat, room % 8 = 0, NEW size \in Nat, size <= room
  PROVE  8 * ((size + 7) \div 8) <= room /\ (8 * ((size + 7) \div 8)) % 8 = 0
         /\ 8 * ((size + 7) \div 8) \in Nat
OBVIOUS

\* A write into a buffer stays within it, whether it is accepted or not.
LEMMA WriteFills ==
  ASSUME NEW evbuf, Filled(evbuf), NEW size \in Nat, Word \in Nat
  PROVE  LET write == lv2_evbuf_write(evbuf, evbuf.size - 8, size)
         IN  /\ Filled(write.evbuf) /\ write.evbuf.capacity = evbuf.capacity
             /\ write.offset = write.evbuf.size - 8
             /\ write.end \in Nat /\ write.end <= evbuf.capacity
<1> DEFINE write == lv2_evbuf_write(evbuf, evbuf.size - 8, size)
           capacity == evbuf.capacity
           filled == evbuf.size
           room == capacity - 8 - filled
           padded == 8 * ((16 + size + 7) \div 8)
<1>1. /\ capacity \in Nat /\ filled \in Nat /\ capacity % 8 = 0 /\ filled % 8 = 0
      /\ 8 <= filled /\ filled + 8 <= capacity /\ capacity < Word /\ 16 <= capacity
  BY DEF Filled, WholeCapacity, EvbufType
<1>2. DOMAIN evbuf = {"capacity", "size", "type"}
  BY DEF Filled, EvbufType
<1>3. lv2_evbuf_fits(evbuf, size) <=> room % Word >= 16 + size
  BY DEF lv2_evbuf_fits, AtomSize, EventSize
<1>4. CASE ~lv2_evbuf_fits(evbuf, size)
  BY <1>1, <1>4 DEF lv2_evbuf_write
<1>5. CASE lv2_evbuf_fits(evbuf, size)
  <2>1. /\ write.evbuf = [evbuf EXCEPT !.size = @ + padded]
        /\ write.offset = evbuf.size - 8 + padded
        /\ write.end = evbuf.size - 8 + 16 + size
    BY <1>5 DEF lv2_evbuf_write, lv2_evbuf_pad_size, EventSize
  <2> HIDE DEF capacity, filled
  <2>2. room \in Nat /\ room % 8 = 0 /\ room < Word
    BY <1>1
  <2>3. room % Word = room
    BY <2>2
  <2>4. 16 + size <= room
    BY <1>3, <1>5, <2>2, <2>3
  <2>5. padded <= room /\ padded % 8 = 0 /\ padded \in Nat
    BY <2>2, <2>4, FitsPadded
  <2> HIDE DEF padded, room
  <2> DEFINE new == write.evbuf
  <2>6. /\ new.size = filled + padded /\ new.capacity = capacity /\ new.type = "Sequence"
        /\ new \in EvbufType
    BY <1>1, <1>2, <2>1, <2>5 DEF filled, capacity, Filled, EvbufType
  <2> HIDE DEF new
  <2>7. new.size % 8 = 0 /\ 8 <= new.size /\ new.size + 8 <= new.capacity
    BY <1>1, <2>5, <2>6 DEF room
  <2>8. Filled(new) /\ new.capacity = capacity
    BY <1>1, <2>6, <2>7 DEF Filled, WholeCapacity
  <2>9. write.offset = new.size - 8
    BY <1>1, <2>1, <2>5, <2>6 DEF filled
  <2>10. write.end \in Nat /\ write.end <= capacity
    BY <1>1, <2>1, <2>4 DEF filled, room
  <2> QED
    BY <2>8, <2>9, <2>10 DEF new, capacity
<1> QED
  BY <1>4, <1>5

\* Where the next event goes.
LEMMA EndOfFilled ==
  ASSUME NEW evbuf, Filled(evbuf)
  PROVE  lv2_evbuf_end(evbuf) = evbuf.size - 8
<1> DEFINE filled == evbuf.size
<1>1. filled \in Nat /\ filled % 8 = 0 /\ 8 <= filled /\ evbuf.type = "Sequence"
  BY DEF Filled, EvbufType
<1>2. lv2_evbuf_end(evbuf) = 8 * ((filled - 8 + 7) \div 8)
  BY <1>1 DEF lv2_evbuf_end, lv2_evbuf_pad_size, lv2_evbuf_get_size, SequenceBody
<1> HIDE DEF filled
<1>3. 8 * ((filled - 8 + 7) \div 8) = filled - 8
  BY <1>1
<1> QED
  BY <1>2, <1>3 DEF filled

\* An input that was reset can be filled.
LEMMA ResetFills ==
  ASSUME NEW evbuf \in EvbufType, WholeCapacity(evbuf.capacity)
  PROVE  /\ Filled(lv2_evbuf_reset(evbuf, TRUE))
         /\ lv2_evbuf_reset(evbuf, TRUE).size = 8
         /\ lv2_evbuf_reset(evbuf, TRUE).capacity = evbuf.capacity
<1> DEFINE new == lv2_evbuf_reset(evbuf, TRUE)
<1>1. new = [evbuf EXCEPT !.size = 8, !.type = "Sequence"]
  BY DEF lv2_evbuf_reset, SequenceBody
<1> HIDE DEF new
<1>2. new \in EvbufType /\ new.size = 8 /\ new.type = "Sequence" /\ new.capacity = evbuf.capacity
  BY <1>1 DEF EvbufType
<1>3. 8 % 8 = 0 /\ 8 + 8 <= new.capacity
  BY <1>2 DEF WholeCapacity
<1>4. Filled(new)
  BY <1>2, <1>3 DEF Filled, WholeCapacity
<1> QED
  BY <1>2, <1>4 DEF new

\* Several events that are written into a fresh buffer stay within it.
LEMMA WriteAllFills ==
  ASSUME NEW evbuf, Filled(evbuf), evbuf.size = 8, NEW sizes \in Seq(Nat), Word \in Nat
  PROVE  /\ Filled(WriteAll(evbuf, sizes).evbuf)
         /\ WriteAll(evbuf, sizes).end \in Nat
         /\ WriteAll(evbuf, sizes).end <= WriteAll(evbuf, sizes).evbuf.capacity
<1> DEFINE N == Len(sizes)
           capacity == evbuf.capacity
           R == [evbuf : EvbufType, offset : Int, end : Nat, written : BOOLEAN]
           S == {r \in R : /\ Filled(r.evbuf) /\ r.evbuf.capacity = capacity
                           /\ r.offset = r.evbuf.size - 8 /\ r.end <= capacity}
           first == [evbuf |-> evbuf, offset |-> lv2_evbuf_begin(evbuf), end |-> 0, written |-> TRUE]
           Next1(before, size) ==
             LET now == lv2_evbuf_write(before.evbuf, before.offset, size)
             IN  [now EXCEPT !.end = IF now.written THEN now.end ELSE before.end]
           G == [p \in (1..N) \X S |-> Next1(p[2], sizes[p[1]])]
           Rec(f) == f = [n \in 0..N |-> IF n = 0 THEN first ELSE Next1(f[n - 1], sizes[n])]
           all == CHOOSE f : Rec(f)
<1>1. N \in Nat /\ \A n \in 1..N : sizes[n] \in Nat
  OBVIOUS
<1>2. first \in S
  <2>1. evbuf \in EvbufType /\ capacity \in Nat
    BY DEF Filled, WholeCapacity
  <2>2. first \in R
    BY <2>1 DEF lv2_evbuf_begin
  <2>3. first.offset = first.evbuf.size - 8 /\ first.end <= capacity
    BY <2>1 DEF lv2_evbuf_begin
  <2> QED
    BY <2>2, <2>3
<1>3. ASSUME NEW before \in S, NEW size \in Nat PROVE Next1(before, size) \in S
  <2> DEFINE now == lv2_evbuf_write(before.evbuf, before.offset, size)
             then == Next1(before, size)
  <2>1. /\ before.evbuf \in EvbufType /\ Filled(before.evbuf) /\ before.end \in Nat
        /\ before.end <= capacity /\ before.offset = before.evbuf.size - 8
        /\ before.evbuf.capacity = capacity /\ capacity \in Nat
    BY DEF Filled, WholeCapacity
  <2>2. /\ Filled(now.evbuf) /\ now.evbuf.capacity = capacity
        /\ now.offset = now.evbuf.size - 8 /\ now.end \in Nat /\ now.end <= capacity
    <3> DEFINE e == before.evbuf
    <3>1. Filled(e) /\ now = lv2_evbuf_write(e, e.size - 8, size)
      BY <2>1
    <3> HIDE DEF e
    <3>2. /\ Filled(now.evbuf) /\ now.evbuf.capacity = e.capacity
          /\ now.offset = now.evbuf.size - 8 /\ now.end \in Nat /\ now.end <= e.capacity
      <4>1. lv2_evbuf_write(before.evbuf, before.offset, size) = lv2_evbuf_write(e, e.size - 8, size)
        BY <3>1
      <4>2. LET write == lv2_evbuf_write(e, e.size - 8, size)
            IN  /\ Filled(write.evbuf) /\ write.evbuf.capacity = e.capacity
                /\ write.offset = write.evbuf.size - 8
                /\ write.end \in Nat /\ write.end <= e.capacity
        BY <3>1, WriteFills
      <4> HIDE DEF now
      <4> QED
        BY <3>1, <4>2
    <3> QED
      BY <2>1, <3>2 DEF e
  <2>3. DOMAIN now = {"evbuf", "offset", "end", "written"} /\ now.written \in BOOLEAN
        /\ now = [evbuf |-> now.evbuf, offset |-> now.offset, end |-> now.end,
                  written |-> now.written]
    BY DEF lv2_evbuf_write
  <2> HIDE DEF now
  <2>4. then = [now EXCEPT !.end = IF now.written THEN now.end ELSE before.end]
    BY DEF now
  <2> HIDE DEF then
  <2>5. /\ then.evbuf = now.evbuf /\ then.offset = now.offset
        /\ then.end \in Nat /\ then.end <= capacity
        /\ then = [evbuf |-> now.evbuf, offset |-> now.offset, end |-> then.end,
                   written |-> now.written]
    BY <2>1, <2>2, <2>3, <2>4
  <2>6. now.evbuf \in EvbufType /\ now.offset \in Int
    BY <2>2 DEF Filled, EvbufType
  <2>7. then \in R
    BY <2>3, <2>5, <2>6
  <2> QED
    BY <2>2, <2>5, <2>7 DEF then
<1>4. WriteAll(evbuf, sizes) = all[N]
  BY DEF WriteAll
<1>5. \A n \in 1..N, before \in S : Next1(before, sizes[n]) \in S
  BY <1>1, <1>3
<1> HIDE DEF N, S, first, Next1, Rec
<1>6. G \in [(1..N) \X S -> S] /\ \A n \in 1..N, before \in S : G[<<n, before>>] = Next1(before, sizes[n])
  BY <1>5
<1> HIDE DEF G
<1>7. PICK f \in [0..N -> S] : GoesOn(f, N, first, G)
  BY <1>1, <1>2, <1>6, RecursionExists
<1>8. ASSUME NEW n \in 0..N
      PROVE  f[n] = IF n = 0 THEN first ELSE Next1(f[n - 1], sizes[n])
  <2>1. CASE n = 0
    BY <1>7, <2>1 DEF GoesOn
  <2>2. CASE n # 0
    <3>1. n \in 1..N /\ n - 1 \in 0..N
      BY <1>1, <2>2
    <3> QED
      BY <1>6, <1>7, <2>2, <3>1 DEF GoesOn
  <2> QED
    BY <2>1, <2>2
<1>9. Rec(f)
  <2>1. f = [n \in 0..N |-> f[n]]
    OBVIOUS
  <2> QED
    BY <1>8, <2>1, Zenon DEF Rec
<1>10. Rec(all)
  BY <1>9
<1> HIDE DEF all
<1>11. Alike(all, f, N)
  <2>1. \A n \in 0..N : all[n] = IF n = 0 THEN first ELSE Next1(all[n - 1], sizes[n])
    BY <1>10, Zenon DEF Rec
  <2>2. \A n \in 1..N : n \in 0..N /\ n # 0
    BY <1>1
  <2>3. 0 \in 0..N
    BY <1>1
  <2> QED
    BY <1>8, <2>1, <2>2, <2>3 DEF Alike
<1>12. all[N] \in S
  <2>1. all[N] = f[N]
    BY <1>1, <1>11, RecursionUnique
  <2> QED
    BY <1>1, <1>7, <2>1
<1> QED
  BY <1>4, <1>12 DEF S

Input(port) == port.flow = "input" /\ port.type = "event"

\* Every event input has a buffer, of a size that events can fill.
Buffered(p) ==
  \A n \in DOMAIN p :
    /\ {"flow", "type", "evbuf"} \subseteq DOMAIN p[n]
    /\ Input(p[n]) => \E evbuf \in EvbufType : p[n].evbuf = <<evbuf>> /\ WholeCapacity(evbuf.capacity)

\* The buffers hold whole events, and end[n] is the last byte written to that of port n.
Within(p, end) ==
  \A n \in DOMAIN p : Input(p[n]) =>
    /\ Filled(p[n].evbuf[1])
    /\ n \in DOMAIN end /\ end[n] \in Nat /\ end[n] <= p[n].evbuf[1].capacity

\* What both hold by does not differ.
SameBuffers(p, q) ==
  /\ DOMAIN q = DOMAIN p
  /\ \A n \in DOMAIN p :
       /\ DOMAIN q[n] = DOMAIN p[n]
       /\ q[n].flow = p[n].flow /\ q[n].type = p[n].type /\ q[n].evbuf = p[n].evbuf

BuffersInv ==
  /\ Buffered(ports)
  /\ apc \in {"prepared", "run"} => lp # <<>> /\ Within(ports, evEnd)

\* Ports whose buffers are the same are buffered and within their bounds as before.
LEMMA SameBuffersKeep ==
  ASSUME NEW p, NEW q, SameBuffers(p, q), Buffered(p)
  PROVE  Buffered(q) /\ \A end : Within(p, end) => Within(q, end)
<1>1. \A n \in DOMAIN q : /\ n \in DOMAIN p /\ DOMAIN q[n] = DOMAIN p[n]
                          /\ (Input(q[n]) <=> Input(p[n])) /\ q[n].evbuf = p[n].evbuf
  BY DEF SameBuffers, Input
<1>2. Buffered(q)
  BY <1>1 DEF Buffered
<1>3. ASSUME NEW end, Within(p, end) PROVE Within(q, end)
  BY <1>1, <1>3 DEF Within
<1> QED
  BY <1>2, <1>3

\* Setting a control changes no buffer.
LEMMA ControlSet ==
  ASSUME NEW p, NEW q, SameBuffers(p, q), Buffered(p), NEW n, NEW value
  PROVE  SameBuffers(p, [q EXCEPT ![n].control = value])
<1> DEFINE new == [q EXCEPT ![n].control = value]
<1>1. ASSUME NEW m \in DOMAIN p
      PROVE  /\ DOMAIN new[m] = DOMAIN p[m]
             /\ new[m].flow = p[m].flow /\ new[m].type = p[m].type /\ new[m].evbuf = p[m].evbuf
  <2>1. /\ m \in DOMAIN q /\ DOMAIN q[m] = DOMAIN p[m]
        /\ q[m].flow = p[m].flow /\ q[m].type = p[m].type /\ q[m].evbuf = p[m].evbuf
    BY DEF SameBuffers
  <2>2. "flow" \in DOMAIN q[m] /\ "type" \in DOMAIN q[m] /\ "evbuf" \in DOMAIN q[m]
    BY <2>1 DEF Buffered
  <2>3. new[m] = q[m] \/ new[m] = [q[m] EXCEPT !.control = value]
    BY <2>1
  <2> HIDE DEF new
  <2> DEFINE set == [q[m] EXCEPT !.control = value]
  <2>4. /\ DOMAIN set = DOMAIN q[m]
        /\ set.flow = q[m].flow /\ set.type = q[m].type /\ set.evbuf = q[m].evbuf
    BY <2>2
  <2> HIDE DEF set
  <2> QED
    BY <2>1, <2>3, <2>4 DEF set
<1>2. DOMAIN new = DOMAIN p
  BY DEF SameBuffers
<1> HIDE DEF new
<1>3. SameBuffers(p, new)
  BY <1>1, <1>2 DEF SameBuffers
<1> QED
  BY <1>3 DEF new

\* So does an event that a widget of the generic UI is told.
LEMMA PortEventSame ==
  ASSUME NEW p, NEW q, SameBuffers(p, q), Buffered(p), NEW w, NEW n, NEW value
  PROVE  SameBuffers(p, PortEvent(q, w, n, value).ports)
<1> DEFINE shown == control_changed(controls[ControlOf(n)], w[ControlOf(n)], value)
<1>1. \/ PortEvent(q, w, n, value).ports = q
      \/ PortEvent(q, w, n, value).ports = [q EXCEPT ![n].control = shown]
  BY DEF PortEvent
<1> HIDE DEF shown
<1>2. SameBuffers(p, [q EXCEPT ![n].control = shown])
  BY ControlSet
<1> QED
  BY <1>1, <1>2

\* A round of the loop of lv2_init_ui.
TellWidget(p, before, n) ==
  IF p[n].type = "control" THEN PortEvent(before.ports, before.widget, n, p[n].control)
  ELSE before

\* The loop of lv2_init_ui, round by round.
LEMMA WidgetsTold ==
  ASSUME NEW N \in Nat, N = num_ports, NEW p, NEW w
  PROVE  \E f : /\ f[0] = [ports |-> p, widget |-> w]
                /\ \A n \in 1..N : f[n] = TellWidget(p, f[n - 1], n)
                /\ lv2_init_ui(p, w) = f[N]
<1> DEFINE first == [ports |-> p, widget |-> w]
           Rec(f) == f = [n \in 0..N |-> IF n = 0 THEN first ELSE TellWidget(p, f[n - 1], n)]
           Upto(m) == \E f : /\ f = [n \in 0..N |-> f[n]]
                             /\ f[0] = first
                             /\ \A n \in 1..m : f[n] = TellWidget(p, f[n - 1], n)
           told == CHOOSE f : Rec(f)
<1>1. lv2_init_ui(p, w) = told[N]
  BY DEF lv2_init_ui, TellWidget
<1> HIDE DEF first
<1>2. Upto(0)
  <2> DEFINE f == [n \in 0..N |-> first]
  <2>1. f = [n \in 0..N |-> f[n]] /\ f[0] = first
    OBVIOUS
  <2>2. 1..0 = {}
    OBVIOUS
  <2> HIDE DEF f
  <2> QED
    BY <2>1, <2>2
<1>3. ASSUME NEW m \in 1..N, Upto(m - 1)
      PROVE  Upto(m)
  <2>1. PICK f : /\ f = [n \in 0..N |-> f[n]]
                 /\ f[0] = first
                 /\ \A n \in 1..(m - 1) : f[n] = TellWidget(p, f[n - 1], n)
    BY <1>3
  <2> DEFINE g == [n \in 0..N |-> IF n = m THEN TellWidget(p, f[m - 1], m) ELSE f[n]]
  <2>2. g = [n \in 0..N |-> g[n]] /\ g[0] = first
    BY <2>1
  <2>3. ASSUME NEW n \in 1..m PROVE g[n] = TellWidget(p, g[n - 1], n)
    <3>1. n \in 0..N /\ n - 1 \in 0..N /\ n - 1 # m
      OBVIOUS
    <3>2. g[n - 1] = f[n - 1]
      BY <3>1
    <3>3. CASE n = m
      BY <3>1, <3>2, <3>3
    <3>4. CASE n # m
      <4>1. n \in 1..(m - 1) /\ g[n] = f[n]
        BY <3>1, <3>4
      <4> QED
        BY <2>1, <3>2, <4>1
    <3> QED
      BY <3>3, <3>4
  <2> HIDE DEF g
  <2> QED
    BY <2>2, <2>3
<1> HIDE DEF Upto
<1>4. Upto(N)
  <2> DEFINE T == {m \in 0..N : ~Upto(m)}
  <2>1. T \subseteq 0..N /\ 0 \notin T
    BY <1>2
  <2>2. ASSUME NEW m \in 1..N, m \in T PROVE m - 1 \in T
    BY <1>3, <2>2
  <2> HIDE DEF T
  <2>3. \A m \in 0..N : m \notin T
    BY <2>1, <2>2, NeverFails
  <2> QED
    BY <2>3 DEF T
<1>5. PICK f : /\ f = [n \in 0..N |-> f[n]]
               /\ f[0] = first
               /\ \A n \in 1..N : f[n] = TellWidget(p, f[n - 1], n)
  BY <1>4 DEF Upto
<1>6. Rec(f)
  <2> HIDE DEF told, Rec
  <2>1. ASSUME NEW n \in 0..N
        PROVE  f[n] = IF n = 0 THEN first ELSE TellWidget(p, f[n - 1], n)
    <3>1. n = 0 \/ n \in 1..N
      OBVIOUS
    <3>2. CASE n = 0
      BY <1>5, <3>2
    <3>3. CASE n \in 1..N
      <4>1. n # 0
        BY <3>3
      <4>2. f[n] = TellWidget(p, f[n - 1], n)
        BY <1>5, <3>3, Zenon
      <4> QED
        BY <4>1, <4>2
    <3> QED
      BY <3>1, <3>2, <3>3
  <2>2. f = [n \in 0..N |-> f[n]]
    BY <1>5
  <2> USE DEF Rec
  <2> QED
    BY <2>1, <2>2
<1>7. Rec(told)
  BY <1>6
<1> HIDE DEF told
<1>8. told[0] = first /\ \A n \in 1..N : told[n] = TellWidget(p, told[n - 1], n)
  BY <1>7
<1> QED
  BY <1>1, <1>8 DEF first

\* Telling all widgets changes no buffer.
LEMMA InitUiSame ==
  ASSUME num_ports \in Nat, NEW p, Buffered(p), NEW w
  PROVE  SameBuffers(p, lv2_init_ui(p, w).ports)
<1> DEFINE N == num_ports
           Good(before) == SameBuffers(p, before.ports)
<1>1. PICK f : /\ f[0] = [ports |-> p, widget |-> w]
               /\ \A n \in 1..N : f[n] = TellWidget(p, f[n - 1], n)
               /\ lv2_init_ui(p, w) = f[N]
  BY WidgetsTold
<1>2. ASSUME NEW n, NEW before, Good(before) PROVE Good(TellWidget(p, before, n))
  BY <1>2, PortEventSame DEF TellWidget
<1>3. N \in Nat /\ Good(f[0])
  BY <1>1 DEF SameBuffers
<1> HIDE DEF N, Good
<1> DEFINE T == {n \in 0..N : ~Good(f[n])}
<1>4. T \subseteq 0..N /\ 0 \notin T
  BY <1>3
<1>5. ASSUME NEW n \in 1..N, n \in T PROVE n - 1 \in T
  <2>1. n - 1 \in 0..N
    BY <1>3
  <2> QED
    BY <1>1, <1>2, <1>5, <2>1
<1> HIDE DEF T
<1>6. \A n \in 0..N : n \notin T
  BY <1>3, <1>4, <1>5, NeverFails
<1>7. Good(f[N])
  BY <1>3, <1>6 DEF T
<1> QED
  BY <1>1, <1>7 DEF Good

\* Opening a window changes no buffer.
LEMMA OpenUiSame ==
  ASSUME num_ports \in Nat, Buffered(ports), lv2_open_ui
  PROVE  SameBuffers(ports, ports')
<1>1. CASE UNCHANGED ports
  BY <1>1 DEF SameBuffers
<1>2. CASE ports' = lv2_init_ui(ports, build_control_widget(controls)).ports
  BY <1>2, InitUiSame
<1> QED
  BY <1>1, <1>2 DEF lv2_open_ui

\* Nor does restoring the ports.
LEMMA RestoringSame ==
  ASSUME num_ports \in Nat, Buffered(ports), Restoring
  PROVE  SameBuffers(ports, ports')
<1> DEFINE N == num_ports
           Good(before) == SameBuffers(ports, before.ports)
<1>1. PICK value, f : /\ f[0] = [ports |-> ports, ui |-> uiEvents, accepted |-> accepted,
                                 plugin |-> pluginEvents]
                      /\ \A n \in 1..N : f[n] = RestorePort(f[n - 1], n, value)
                      /\ ports' = f[N].ports
  BY PortsRestored
<1>2. ASSUME NEW n, NEW before, Good(before) PROVE Good(RestorePort(before, n, value))
  <2>1. \/ RestorePort(before, n, value).ports = before.ports
        \/ RestorePort(before, n, value).ports = [before.ports EXCEPT ![n].control = value]
    BY DEF RestorePort, set_port_value
  <2>2. SameBuffers(ports, [before.ports EXCEPT ![n].control = value])
    BY <1>2, ControlSet
  <2> QED
    BY <1>2, <2>1, <2>2
<1>3. N \in Nat /\ Good(f[0])
  BY <1>1 DEF SameBuffers
<1> HIDE DEF N, Good
<1> DEFINE T == {n \in 0..N : ~Good(f[n])}
<1>4. T \subseteq 0..N /\ 0 \notin T
  BY <1>3
<1>5. ASSUME NEW n \in 1..N, n \in T PROVE n - 1 \in T
  <2>1. n - 1 \in 0..N
    BY <1>3
  <2> QED
    BY <1>1, <1>2, <1>5, <2>1
<1> HIDE DEF T
<1>6. \A n \in 0..N : n \notin T
  BY <1>3, <1>4, <1>5, NeverFails
<1>7. Good(f[N])
  BY <1>3, <1>6 DEF T
<1> QED
  BY <1>1, <1>7 DEF Good

\* The ports that a description gives rise to are buffered.
LEMMA BuffersAllocated ==
  ASSUME WholeBuffers, NEW d \in Descriptions, lv2_create_ports(d) # <<>>
  PROVE  Buffered(lv2_allocate_port_buffers(lv2_create_ports(d)))
<1> DEFINE made == lv2_create_ports(d)
           p == lv2_allocate_port_buffers(made)
<1>1. made = [n \in DOMAIN d.ports |-> create_port(d.ports[n], n - 1)]
  BY DEF lv2_create_ports
<1>2. ASSUME NEW n \in DOMAIN p
      PROVE  /\ {"flow", "type", "evbuf"} \subseteq DOMAIN p[n]
             /\ Input(p[n]) => \E evbuf \in EvbufType :
                                 p[n].evbuf = <<evbuf>> /\ WholeCapacity(evbuf.capacity)
  <2>1. n \in DOMAIN made /\ n \in DOMAIN d.ports
    BY <1>1 DEF lv2_allocate_port_buffers
  <2> DEFINE port == made[n]
             size == OrElse(d.ports[n].minSize, 0)
             capacity == IF port.buf_size > 0 THEN port.buf_size ELSE MidiBufSize
  <2>2. port = create_port(d.ports[n], n - 1)
    BY <1>1, <2>1
  <2>3. port.buf_size = size /\ {"flow", "type", "evbuf"} \subseteq DOMAIN port
    BY <2>2 DEF create_port
  <2>4. size = 0 \/ WholeCapacity(size)
    BY <2>1 DEF WholeBuffers, OrElse
  <2>5. WholeCapacity(capacity)
    <3> HIDE DEF size, port
    <3>1. CASE size = 0
      <4>1. ~(port.buf_size > 0)
        BY <2>3, <3>1
      <4> QED
        BY <4>1 DEF WholeBuffers
    <3>2. CASE WholeCapacity(size)
      <4>1. port.buf_size > 0
        BY <2>3, <3>2 DEF WholeCapacity
      <4> QED
        BY <2>3, <3>2, <4>1
    <3> QED
      BY <2>4, <3>1, <3>2
  <2>6. p[n] = IF port.type # "event" THEN port
               ELSE [port EXCEPT !.evbuf = <<lv2_evbuf_new(capacity)>>]
    BY <2>1 DEF lv2_allocate_port_buffers
  <2> HIDE DEF port, capacity, p
  <2>7. CASE port.type # "event"
    BY <2>3, <2>6, <2>7 DEF Input
  <2>8. CASE port.type = "event"
    <3> DEFINE new == lv2_evbuf_new(capacity)
    <3>1. new \in EvbufType /\ new.capacity = capacity
      <4>1. new = [capacity |-> capacity, size |-> 8, type |-> "Sequence"]
        BY DEF lv2_evbuf_new, lv2_evbuf_reset, SequenceBody
      <4> HIDE DEF new
      <4>2. capacity \in Nat
        BY <2>5 DEF WholeCapacity
      <4> QED
        BY <4>1, <4>2 DEF EvbufType
    <3> HIDE DEF new
    <3>2. p[n] = [port EXCEPT !.evbuf = <<new>>]
      BY <2>6, <2>8 DEF new
    <3>3. DOMAIN p[n] = DOMAIN port /\ p[n].evbuf = <<new>>
      BY <2>3, <3>2
    <3> QED
      BY <2>3, <2>5, <3>1, <3>3
  <2> QED
    BY <2>7, <2>8
<1> HIDE DEF p
<1>3. Buffered(p)
  BY <1>2 DEF Buffered
<1> QED
  BY <1>3 DEF p, made

\* Preparing the ports fills the inputs within their bounds.
LEMMA PrepareWithin ==
  ASSUME Buffered(ports), lp # <<>>, Inst \in Descriptions, PreparePorts
  PROVE  Buffered(ports') /\ Within(ports', evEnd')
<1>1. PICK changed \in BOOLEAN, midi \in 0..Bound.midi :
        LET events == HostEvents(changed, midi)
            Written(n) == WriteAll(lv2_evbuf_reset(ports[n].evbuf[1], TRUE), events)
        IN  /\ ports' = [n \in DOMAIN ports |->
                           IF n \in EventIns THEN [ports[n] EXCEPT !.evbuf = <<Written(n).evbuf>>]
                           ELSE IF n \in EventOuts
                           THEN [ports[n] EXCEPT !.evbuf = <<lv2_evbuf_reset(@[1], FALSE)>>]
                           ELSE ports[n]]
            /\ evEnd' = [n \in EventIns |-> Written(n).end]
  BY DEF PreparePorts
<1> DEFINE events == HostEvents(changed, midi)
           Written(n) == WriteAll(lv2_evbuf_reset(ports[n].evbuf[1], TRUE), events)
<1>2. events \in Seq(Nat)
  <2>1. midi \in Nat
    <3>1. Bound.midi \in Nat
      <4>1. Bound \in BoundType
        BY HostAssumption DEF Bound
      <4> QED
        BY <4>1 DEF BoundType
    <3> QED
      BY <3>1
  <2>2. PosSize \in Nat /\ GetSize \in Nat /\ MidiSize \in Nat
    BY HostAssumption
  <2>3. <<PosSize>> \in Seq(Nat) /\ <<GetSize>> \in Seq(Nat) /\ <<>> \in Seq(Nat)
    BY <2>2
  <2>4. [n \in 1..midi |-> MidiSize] \in Seq(Nat)
    BY <2>1, <2>2
  <2> DEFINE a == IF changed THEN <<PosSize>> ELSE <<>>
             b == IF request_update THEN <<GetSize>> ELSE <<>>
             c == [n \in 1..midi |-> MidiSize]
  <2>5. a \in Seq(Nat) /\ b \in Seq(Nat) /\ c \in Seq(Nat) /\ events = a \o b \o c
    BY <2>3, <2>4 DEF HostEvents
  <2> HIDE DEF a, b, c, events
  <2> QED
    BY <2>5
<1>3. ASSUME NEW n \in EventIns
      PROVE  /\ Filled(Written(n).evbuf) /\ Written(n).end \in Nat
             /\ Written(n).end <= Written(n).evbuf.capacity
  <2>1. PICK evbuf \in EvbufType : ports[n].evbuf = <<evbuf>> /\ WholeCapacity(evbuf.capacity)
    BY DEF Buffered, EventIns, Input
  <2> DEFINE fresh == lv2_evbuf_reset(evbuf, TRUE)
  <2>2. Filled(fresh) /\ fresh.size = 8
    BY <2>1, ResetFills
  <2>3. Written(n) = WriteAll(fresh, events)
    BY <2>1
  <2> HIDE DEF fresh, events, Written
  <2>4. Word \in Nat
    BY HostAssumption
  <2>5. /\ Filled(WriteAll(fresh, events).evbuf)
        /\ WriteAll(fresh, events).end \in Nat
        /\ WriteAll(fresh, events).end <= WriteAll(fresh, events).evbuf.capacity
    BY <1>2, <2>2, <2>4, WriteAllFills
  <2> QED
    BY <2>3, <2>5
<1>4. /\ ports' = [n \in DOMAIN ports |->
                     IF n \in EventIns THEN [ports[n] EXCEPT !.evbuf = <<Written(n).evbuf>>]
                     ELSE IF n \in EventOuts
                     THEN [ports[n] EXCEPT !.evbuf = <<lv2_evbuf_reset(@[1], FALSE)>>]
                     ELSE ports[n]]
      /\ evEnd' = [n \in EventIns |-> Written(n).end]
  BY <1>1
<1> HIDE DEF Written
<1>5. ASSUME NEW n \in DOMAIN ports
      PROVE  /\ DOMAIN ports'[n] = DOMAIN ports[n]
             /\ Input(ports'[n]) <=> n \in EventIns
             /\ n \in EventIns => ports'[n].evbuf = <<Written(n).evbuf>>
  <2>1. "flow" \in DOMAIN ports[n] /\ "type" \in DOMAIN ports[n] /\ "evbuf" \in DOMAIN ports[n]
    BY DEF Buffered
  <2>2. PICK e : ports'[n] = [ports[n] EXCEPT !.evbuf = e] \/ ports'[n] = ports[n]
    BY <1>4
  <2>3. DOMAIN ports'[n] = DOMAIN ports[n] /\ ports'[n].flow = ports[n].flow
        /\ ports'[n].type = ports[n].type
    BY <2>1, <2>2
  <2>4. n \in EventIns => ports'[n] = [ports[n] EXCEPT !.evbuf = <<Written(n).evbuf>>]
    BY <1>4
  <2>5. n \in EventIns => ports'[n].evbuf = <<Written(n).evbuf>>
    BY <2>1, <2>4
  <2>6. Input(ports'[n]) <=> n \in EventIns
    BY <2>3 DEF EventIns, Input
  <2> QED
    BY <2>3, <2>5, <2>6
<1>6. DOMAIN ports' = DOMAIN ports /\ DOMAIN evEnd' = EventIns
  BY <1>4
<1>7. Buffered(ports')
  <2>1. ASSUME NEW n \in EventIns
        PROVE  Written(n).evbuf \in EvbufType /\ WholeCapacity(Written(n).evbuf.capacity)
    BY <1>3 DEF Filled
  <2>2. ASSUME NEW n \in DOMAIN ports'
        PROVE  /\ {"flow", "type", "evbuf"} \subseteq DOMAIN ports'[n]
               /\ Input(ports'[n]) => \E evbuf \in EvbufType :
                                        ports'[n].evbuf = <<evbuf>> /\ WholeCapacity(evbuf.capacity)
    BY <1>5, <1>6, <2>1 DEF Buffered
  <2> QED
    BY <2>2 DEF Buffered
<1>8. Within(ports', evEnd')
  <2>1. ASSUME NEW n \in DOMAIN ports', Input(ports'[n])
        PROVE  /\ Filled(ports'[n].evbuf[1])
               /\ n \in DOMAIN evEnd' /\ evEnd'[n] \in Nat
               /\ evEnd'[n] <= ports'[n].evbuf[1].capacity
    <3>1. n \in EventIns /\ ports'[n].evbuf = <<Written(n).evbuf>>
      BY <1>5, <1>6, <2>1
    <3>2. ports'[n].evbuf[1] = Written(n).evbuf /\ evEnd'[n] = Written(n).end
      BY <1>4, <3>1
    <3> QED
      BY <1>3, <1>6, <3>1, <3>2
  <2> QED
    BY <2>1 DEF Within
<1> QED
  BY <1>7, <1>8

\* What a round of lv2_apply_ui_events starts from.
RoundInBounds(before) ==
  /\ DOMAIN before = {"ring", "ports", "end", "done"}
  /\ Buffered(before.ports) /\ Within(before.ports, before.end)

\* An atom that the UI wrote is put into the buffer of its port within the bounds.
LEMMA AtomWithin ==
  ASSUME NEW p, NEW end, Buffered(p), Within(p, end), NEW port,
         NEW write, port \in DOMAIN p => write = lv2_evbuf_write(p[port].evbuf[1], lv2_evbuf_end(p[port].evbuf[1]), SetSize)
  PROVE  LET q == [p EXCEPT ![port].evbuf = <<write.evbuf>>]
         IN  /\ Buffered(q)
             /\ Within(q, IF ~write.written THEN end ELSE [end EXCEPT ![port] = write.end])
<1> DEFINE q == [p EXCEPT ![port].evbuf = <<write.evbuf>>]
           last == IF ~write.written THEN end ELSE [end EXCEPT ![port] = write.end]
<1>1. ASSUME NEW n \in DOMAIN q
      PROVE  /\ n \in DOMAIN p /\ DOMAIN q[n] = DOMAIN p[n]
             /\ Input(q[n]) <=> Input(p[n])
             /\ n # port => q[n].evbuf = p[n].evbuf
             /\ n = port => q[n].evbuf = <<write.evbuf>>
  <2>1. n \in DOMAIN p
    OBVIOUS
  <2>2. "flow" \in DOMAIN p[n] /\ "type" \in DOMAIN p[n] /\ "evbuf" \in DOMAIN p[n]
    BY <2>1 DEF Buffered
  <2>3. CASE n # port
    <3>1. q[n] = p[n]
      BY <2>1, <2>3
    <3> QED
      BY <2>1, <2>3, <3>1
  <2>4. CASE n = port
    <3>1. q[n] = [p[n] EXCEPT !.evbuf = <<write.evbuf>>]
      BY <2>1, <2>4
    <3> HIDE DEF q
    <3> QED
      BY <2>1, <2>2, <2>4, <3>1 DEF Input
  <2> QED
    BY <2>3, <2>4
<1>2. ASSUME port \in DOMAIN p, Input(p[port])
      PROVE  /\ Filled(write.evbuf) /\ write.evbuf.capacity = p[port].evbuf[1].capacity
             /\ write.end \in Nat /\ write.end <= write.evbuf.capacity
  <2> DEFINE evbuf == p[port].evbuf[1]
  <2>1. Filled(evbuf)
    BY <1>2 DEF Within
  <2>2. write = lv2_evbuf_write(evbuf, evbuf.size - 8, SetSize)
    BY <1>2, <2>1, EndOfFilled
  <2>3. SetSize \in Nat /\ Word \in Nat
    BY HostAssumption
  <2> HIDE DEF evbuf
  <2> DEFINE now == lv2_evbuf_write(evbuf, evbuf.size - 8, SetSize)
  <2>4. /\ Filled(now.evbuf) /\ now.evbuf.capacity = evbuf.capacity
        /\ now.end \in Nat /\ now.end <= evbuf.capacity
    BY <2>1, <2>3, WriteFills
  <2> QED
    BY <2>2, <2>4 DEF evbuf
<1>3. DOMAIN q = DOMAIN p /\ DOMAIN last = DOMAIN end
  OBVIOUS
<1>4. \A n \in DOMAIN end : n # port => last[n] = end[n]
  OBVIOUS
<1>5. port \in DOMAIN end => last[port] = end[port] \/ last[port] = write.end
  OBVIOUS
<1>6. ~write.written => last = end
  OBVIOUS
<1> HIDE DEF q, last
<1>7. Buffered(q)
  <2>1. ASSUME NEW n \in DOMAIN q
        PROVE  /\ {"flow", "type", "evbuf"} \subseteq DOMAIN q[n]
               /\ Input(q[n]) => \E evbuf \in EvbufType :
                                   q[n].evbuf = <<evbuf>> /\ WholeCapacity(evbuf.capacity)
    <3>1. {"flow", "type", "evbuf"} \subseteq DOMAIN q[n]
      BY <1>1 DEF Buffered
    <3>2. CASE n # port
      BY <1>1, <3>1, <3>2 DEF Buffered
    <3>3. CASE n = port /\ Input(q[n])
      <4>1. Filled(write.evbuf) /\ q[n].evbuf = <<write.evbuf>>
        BY <1>1, <1>2, <3>3
      <4> QED
        BY <3>1, <4>1 DEF Filled
    <3> QED
      BY <3>1, <3>2, <3>3
  <2> QED
    BY <2>1 DEF Buffered
<1>8. Within(q, last)
  <2>1. ASSUME NEW n \in DOMAIN q, Input(q[n])
        PROVE  /\ Filled(q[n].evbuf[1])
               /\ n \in DOMAIN last /\ last[n] \in Nat /\ last[n] <= q[n].evbuf[1].capacity
    <3>1. /\ n \in DOMAIN p /\ Input(p[n]) /\ Filled(p[n].evbuf[1])
          /\ n \in DOMAIN end /\ end[n] \in Nat /\ end[n] <= p[n].evbuf[1].capacity
      BY <1>1, <2>1 DEF Within
    <3>2. CASE n # port
      <4>1. q[n].evbuf = p[n].evbuf /\ last[n] = end[n]
        BY <1>1, <1>4, <3>1, <3>2
      <4> QED
        BY <1>3, <3>1, <4>1
    <3>3. CASE n = port
      <4>1. /\ Filled(write.evbuf) /\ write.evbuf.capacity = p[n].evbuf[1].capacity
            /\ write.end \in Nat /\ write.end <= write.evbuf.capacity
        BY <1>2, <3>1, <3>3
      <4>2. q[n].evbuf[1] = write.evbuf
        BY <1>1, <3>3
      <4>3. last[n] = end[n] \/ last[n] = write.end
        BY <1>5, <3>1, <3>3
      <4> QED
        BY <1>3, <3>1, <4>1, <4>2, <4>3
    <3> QED
      BY <3>2, <3>3
  <2> QED
    BY <2>1 DEF Within
<1> QED
  BY <1>7, <1>8 DEF q, last

\* A round of lv2_apply_ui_events keeps the buffers within their bounds.
LEMMA ApplyWithin ==
  ASSUME NEW before, RoundInBounds(before)
  PROVE  RoundInBounds(ApplyChange(before))
<1> DEFINE p == before.ports
           end == before.end
           ev == before.ring[1].of
           port == ev.port
           rest == RingRest(before.ring, 1)
           size == ChangeSize(ev)
           evbuf == p[port].evbuf[1]
           write == lv2_evbuf_write(evbuf, lv2_evbuf_end(evbuf), SetSize)
           after == ApplyChange(before)
<1>1. CASE before.ring = <<>>
  BY <1>1 DEF ApplyChange
<1>2. CASE before.ring # <<>> /\ RingRead(rest, size) # Body(ev, size)
  <2>1. after = [before EXCEPT !.ring = rest]
    BY <1>2 DEF ApplyChange
  <2> HIDE DEF after, rest
  <2>2. DOMAIN after = DOMAIN before /\ after.ports = before.ports /\ after.end = before.end
    BY <2>1 DEF RoundInBounds
  <2>3. RoundInBounds(after)
    BY <2>2 DEF RoundInBounds
  <2> QED
    BY <2>3 DEF after
<1>3. CASE before.ring # <<>> /\ RingRead(rest, size) = Body(ev, size)
  <2>1. after = [ring |-> RingRest(rest, size),
                 done |-> Append(before.done, ev),
                 ports |-> IF ev.protocol = "float"
                           THEN [before.ports EXCEPT ![ev.port].control = ev.value]
                           ELSE [before.ports EXCEPT ![ev.port].evbuf = <<write.evbuf>>],
                 end |-> IF ev.protocol = "float" \/ ~write.written THEN before.end
                         ELSE [before.end EXCEPT ![ev.port] = write.end]]
    BY <1>3 DEF ApplyChange
  <2> HIDE DEF after, rest, size
  <2>2. DOMAIN after = {"ring", "ports", "end", "done"}
    BY <2>1
  <2>3. CASE ev.protocol = "float"
    <3>1. after.ports = [p EXCEPT ![port].control = ev.value] /\ after.end = end
      BY <2>1, <2>3
    <3>2. Buffered(p) /\ Within(p, end) /\ SameBuffers(p, p)
      BY DEF RoundInBounds, SameBuffers
    <3> DEFINE q == [p EXCEPT ![port].control = ev.value]
    <3> HIDE DEF p, end, port, ev
    <3>3. SameBuffers(p, q)
      BY <3>2, ControlSet
    <3> HIDE DEF q
    <3>4. Buffered(q) /\ Within(q, end)
      BY <3>2, <3>3, SameBuffersKeep
    <3> QED
      BY <2>2, <3>1, <3>4 DEF RoundInBounds, after, q
  <2>4. CASE ev.protocol # "float"
    <3>1. /\ after.ports = [p EXCEPT ![port].evbuf = <<write.evbuf>>]
          /\ after.end = IF ~write.written THEN end ELSE [end EXCEPT ![port] = write.end]
      BY <2>1, <2>4
    <3>2. Buffered(p) /\ Within(p, end)
      BY DEF RoundInBounds
    <3>3. write = lv2_evbuf_write(p[port].evbuf[1], lv2_evbuf_end(p[port].evbuf[1]), SetSize)
      OBVIOUS
    <3> HIDE DEF p, end, port, write
    <3>4. LET q == [p EXCEPT ![port].evbuf = <<write.evbuf>>]
          IN  /\ Buffered(q)
              /\ Within(q, IF ~write.written THEN end ELSE [end EXCEPT ![port] = write.end])
      BY <3>2, <3>3, AtomWithin
    <3>5. Buffered(after.ports) /\ Within(after.ports, after.end)
      BY <3>1, <3>4
    <3> QED
      BY <2>2, <3>5 DEF RoundInBounds, after
  <2> QED
    BY <2>3, <2>4
<1> QED
  BY <1>1, <1>2, <1>3

\* All of lv2_apply_ui_events does.
LEMMA EventsWithin ==
  ASSUME Len(uiEvents) \in Nat, Buffered(ports), Within(ports, evEnd)
  PROVE  RoundInBounds(lv2_apply_ui_events)
<1> DEFINE N == Len(uiEvents)
<1>1. PICK f : /\ f[0] = [ring |-> uiEvents, ports |-> ports, end |-> evEnd, done |-> <<>>]
               /\ \A n \in 1..N : f[n] = ApplyChange(f[n - 1])
               /\ lv2_apply_ui_events = f[N]
  BY EventsRead
<1>2. N \in Nat /\ RoundInBounds(f[0])
  BY <1>1 DEF RoundInBounds
<1> HIDE DEF N
<1> DEFINE T == {n \in 0..N : ~RoundInBounds(f[n])}
<1>3. T \subseteq 0..N /\ 0 \notin T
  BY <1>2
<1>4. ASSUME NEW n \in 1..N, n \in T PROVE n - 1 \in T
  <2>1. n - 1 \in 0..N
    BY <1>2
  <2> QED
    BY <1>1, <1>4, <2>1, ApplyWithin
<1> HIDE DEF T
<1>5. \A n \in 0..N : n \notin T
  BY <1>2, <1>3, <1>4, NeverFails
<1>6. RoundInBounds(f[N])
  BY <1>2, <1>5 DEF T
<1> QED
  BY <1>1, <1>6

\* Every step keeps the buffers of events within their bounds.
LEMMA BuffersStep ==
  ASSUME WholeBuffers, SlotInv, UiInv, BuffersInv, [Next]_vars
  PROVE  BuffersInv'
<1>1. ASSUME SameBuffers(ports, ports'), UNCHANGED <<lp, apc, evEnd>> PROVE BuffersInv'
  BY <1>1, SameBuffersKeep DEF BuffersInv
<1>2. CASE UNCHANGED <<lp, ports, apc, evEnd>>
  <2>1. SameBuffers(ports, ports')
    BY <1>2 DEF SameBuffers
  <2> QED
    BY <1>1, <1>2, <2>1
<1>3. ASSUME lp # <<>> PROVE num_ports \in Nat
  BY <1>3, HostAssumption DEF SlotInv, num_ports
<1>4. CASE MoveWidget
  <2>1. PICK c, value : ports' = ports \/ ports' = [ports EXCEPT ![c].control = value]
    BY <1>4 DEF MoveWidget, lv2_set_control
  <2>2. SameBuffers(ports, ports) /\ Buffered(ports)
    BY DEF SameBuffers, BuffersInv
  <2>3. SameBuffers(ports, ports')
    BY <2>1, <2>2, ControlSet
  <2> QED
    BY <1>1, <1>4, <2>3 DEF MoveWidget, instVars, audioVars
<1>5. CASE DoubleClickSlot \/ OpenFirst
  <2>1. lp # <<>> /\ lv2_open_ui /\ UNCHANGED <<lp, apc, evEnd>>
    BY <1>5 DEF DoubleClickSlot, OpenFirst, SlotInv, instVars, audioVars
  <2>2. SameBuffers(ports, ports')
    BY <1>3, <2>1, OpenUiSame DEF BuffersInv
  <2> QED
    BY <1>1, <2>1, <2>2
<1>6. CASE UpdateEvent
  <2>1. UNCHANGED <<lp, apc, evEnd>>
    BY <1>6 DEF UpdateEvent, instVars, audioVars
  <2>2. PICK n, value : ports' = ports \/ ports' = PortEvent(ports, widget, n, value).ports
    BY <1>6 DEF UpdateEvent
  <2>3. SameBuffers(ports, ports) /\ Buffered(ports)
    BY DEF SameBuffers, BuffersInv
  <2>4. SameBuffers(ports, ports')
    BY <2>2, <2>3, PortEventSame
  <2> QED
    BY <1>1, <2>1, <2>4
<1>7. CASE DropPlugin
  <2>1. lp = <<>> /\ UNCHANGED <<apc, evEnd>>
    BY <1>7 DEF DropPlugin, audioVars
  <2>2. apc' \notin {"prepared", "run"}
    BY <2>1 DEF BuffersInv
  <2>3. PICK d \in Descriptions :
          \/ UNCHANGED ports
          \/ /\ lv2_create_ports(d) # <<>>
             /\ ports' = lv2_allocate_port_buffers(lv2_create_ports(d))
    BY <1>7 DEF DropPlugin, lv2_instantiate, scan_plugins
  <2>4. Buffered(ports')
    BY <2>3, BuffersAllocated DEF BuffersInv
  <2> QED
    BY <2>2, <2>4 DEF BuffersInv
<1>8. CASE Restoring
  <2>1. lp # <<>> /\ UNCHANGED <<lp, apc, evEnd>>
    BY <1>8 DEF Restoring, SlotInv, instVars, audioVars
  <2>2. SameBuffers(ports, ports')
    BY <1>3, <1>8, <2>1, RestoringSame DEF BuffersInv
  <2> QED
    BY <1>1, <2>1, <2>2
<1>9. CASE PreparePorts
  <2>1. lp # <<>> /\ UNCHANGED lp
    BY <1>9 DEF PreparePorts, SlotInv, instVars
  <2>2. Buffered(ports') /\ Within(ports', evEnd')
    BY <1>9, <2>1, PrepareWithin DEF BuffersInv, SlotInv
  <2> QED
    BY <2>1, <2>2 DEF BuffersInv
<1>10. CASE RunStart
  <2>1. apc = "prepared" /\ UNCHANGED lp
    BY <1>10 DEF RunStart, instVars
  <2>2. lp # <<>> /\ Buffered(ports) /\ Within(ports, evEnd)
    BY <2>1 DEF BuffersInv
  <2>3. CASE window = 0
    <3>1. UNCHANGED <<ports, evEnd>>
      BY <1>10, <2>3 DEF RunStart
    <3> QED
      BY <2>1, <2>2, <3>1 DEF BuffersInv
  <2>4. CASE window # 0
    <3> DEFINE after == lv2_apply_ui_events
    <3>1. ports' = after.ports /\ evEnd' = after.end
      BY <1>10, <2>4 DEF RunStart
    <3>2. Len(uiEvents) \in Nat
      BY DEF UiInv, Held, Lists
    <3>3. RoundInBounds(after)
      BY <2>2, <3>2, EventsWithin
    <3> HIDE DEF after
    <3> QED
      BY <2>1, <2>2, <3>1, <3>3 DEF BuffersInv, RoundInBounds
  <2> QED
    BY <2>3, <2>4
<1>11. CASE RunEnd
  <2>1. apc' \notin {"prepared", "run"}
    BY <1>11 DEF RunEnd
  <2>2. PICK value : ports' = [n \in DOMAIN ports |->
                                 IF n \in ControlPorts /\ ports[n].flow = "output"
                                 THEN [ports[n] EXCEPT !.control = value] ELSE ports[n]]
    BY <1>11 DEF RunEnd
  <2>3. ASSUME NEW n \in DOMAIN ports
        PROVE  /\ DOMAIN ports'[n] = DOMAIN ports[n]
               /\ ports'[n].flow = ports[n].flow /\ ports'[n].type = ports[n].type
               /\ ports'[n].evbuf = ports[n].evbuf
    <3> DEFINE set == [ports[n] EXCEPT !.control = value]
    <3>1. ports'[n] = ports[n] \/ ports'[n] = set
      BY <2>2
    <3>2. "flow" \in DOMAIN ports[n] /\ "type" \in DOMAIN ports[n] /\ "evbuf" \in DOMAIN ports[n]
      BY DEF BuffersInv, Buffered
    <3>3. /\ DOMAIN set = DOMAIN ports[n] /\ set.flow = ports[n].flow
          /\ set.type = ports[n].type /\ set.evbuf = ports[n].evbuf
      BY <3>2
    <3> QED
      BY <3>1, <3>3
  <2>4. DOMAIN ports' = DOMAIN ports
    BY <2>2
  <2>5. SameBuffers(ports, ports')
    BY <2>3, <2>4 DEF SameBuffers
  <2>6. Buffered(ports')
    BY <2>5, SameBuffersKeep DEF BuffersInv
  <2> QED
    BY <2>1, <2>6 DEF BuffersInv
<1>12. CASE SuilWrite \/ DestroyWindow \/ lv2_close_ui \/ IdleClose \/ UpdateStart \/ UpdateEnd \/
            DialogEnds \/ AddPlugin \/ lv2_apply_state \/ WaitForPause \/ RestoreSchedules \/ Resume
  <2>1. UNCHANGED <<lp, ports, apc, evEnd>>
    BY <1>12 DEF SuilWrite, DestroyWindow, lv2_close_ui, IdleClose, UpdateStart, UpdateEnd,
         DialogEnds, AddPlugin, lv2_apply_state, WaitForPause, RestoreSchedules, Resume,
         instVars, audioVars
  <2> QED
    BY <1>2, <2>1
<1>13. CASE on_preset_activate \/ on_save_preset_activate \/ on_delete_preset_activate \/
            UserTransport \/ TransportAnswers \/ Schedule \/ MapUri \/ SendHeader \/ SendBody \/ Work
  <2>1. UNCHANGED <<lp, ports, apc, evEnd>>
    BY <1>13 DEF on_preset_activate, on_save_preset_activate, on_delete_preset_activate,
         UserTransport, TransportAnswers, Schedule, MapUri, SendHeader, SendBody, Work,
         instVars, audioVars
  <2> QED
    BY <1>2, <2>1
<1>14. CASE EmitResponses \/ EmitEnd \/ ProcessEnd
  <2>1. UNCHANGED <<lp, ports, evEnd>> /\ (apc' = apc \/ apc' \notin {"prepared", "run"})
    BY <1>14 DEF EmitResponses, EmitEnd, ProcessEnd, instVars
  <2> QED
    BY <2>1 DEF BuffersInv
<1>15. CASE UNCHANGED vars
  BY <1>2, <1>15 DEF vars, instVars, audioVars
<1> QED
  BY <1>4, <1>5, <1>6, <1>7, <1>8, <1>9, <1>10, <1>11, <1>12, <1>13, <1>14, <1>15
     DEF Next, GtkThread, ChannelThread

\* No write into the event buffer of a port touches memory behind it, for whole buffers,
\* whatever the host and the UI put into one cycle (lv2_evbuf_write, lv2_plugin_process).
THEOREM EvbufInBoundsCorrect ==
  ASSUME WholeBuffers
  PROVE  Spec => []EvbufInBounds
<1>1. Init => SlotInv /\ UiInv /\ BuffersInv
  <2>1. Init => BuffersInv
    BY DEF Init, BuffersInv, Buffered
  <2> QED
    BY <2>1, UiInit
<1>2. SlotInv /\ UiInv /\ BuffersInv /\ [Next]_vars => SlotInv' /\ UiInv' /\ BuffersInv'
  BY SlotStep, UiStep, BuffersStep
<1>3. BuffersInv => EvbufInBounds
  <2> SUFFICES ASSUME BuffersInv, apc \in {"prepared", "run"}, NEW n \in EventIns
               PROVE  InBounds(ports[n].evbuf[1], evEnd[n])
    BY DEF EvbufInBounds
  <2> QED
    BY DEF BuffersInv, Within, EventIns, Input, InBounds
<1> QED
  BY <1>1, <1>2, <1>3, PTL DEF Spec
=============================================================================
