---------------------------- MODULE Session_proofs ----------------------------
(***************************************************************************)
(* Proofs about the program as a whole: first about the two lists that     *)
(* mixer.c and tracklist.c keep, then about the strips, the automation     *)
(* tracks and the connections of the plugins, and last about what the      *)
(* windows, the files and the engine know of all that.                     *)
(***************************************************************************)
EXTENDS Session, Operators_proofs, FiniteSetTheorems

\* Where an element is stored once, deleting it removes that position
\* (array_delete of arrays.c).
LEMMA DeleteAt ==
  ASSUME NEW S, NEW array \in Seq(S), Distinct(array), NEW n \in DOMAIN array
  PROVE  ArrayDelete(array, array[n]) = ArrayRemoveAt(array, n)
<1>1. ArrayContains(array, array[n])
  BY DEF ArrayContains, Elements
<1>2. /\ ArrayIndexOf(array, array[n]) \in 1..Len(array)
      /\ array[ArrayIndexOf(array, array[n])] = array[n]
  BY <1>1, IndexOfFirst
<1>3. ArrayIndexOf(array, array[n]) = n
  BY <1>2 DEF Distinct
<1>4. QED
  BY <1>1, <1>3 DEF ArrayDelete

\* An array is what it has at its places.
LEMMA Enumerated ==
  ASSUME NEW S, NEW array \in Seq(S)
  PROVE  array = [k \in 1..Len(array) |-> array[k]]
OBVIOUS

Channels == 2..MaxChannels
Tracks == Channels \cup {Master, Chord}
Heads == TrackLists!Heads

\* The master, the chord track and the channels are not each other.
LEMMA MasterAndChord == Master # Chord /\ Master \notin Channels /\ Chord \notin Channels
BY DEF Master, Chord, Channels

\* What may be ahead of the tracks of the channels.
LEMMA HeadShape ==
  ASSUME NEW head \in Heads
  PROVE  /\ head \in Seq({Master, Chord}) /\ Len(head) \in {1, 2} /\ head[Len(head)] = Chord
         /\ Distinct(head)
<1>1. CASE head = <<Master, Chord>>
  BY <1>1, MasterAndChord DEF Distinct
<1>2. CASE head = <<Chord>>
  BY <1>2 DEF Distinct
<1>3. QED
  BY <1>1, <1>2 DEF Heads, TrackLists!Heads

\* A list of tracks is a head and the behind behind it.
LEMMA Joined ==
  ASSUME NEW head \in Heads, NEW behind \in Seq(Channels), Distinct(behind)
  PROVE  /\ head \in Seq(Tracks)
         /\ head \o behind \in Seq(Tracks)
         /\ Distinct(head \o behind)
         /\ ArrayContains(head \o behind, Chord)
         /\ Len(head \o behind) = Len(head) + Len(behind)
         /\ \A n \in 1..Len(head) : (head \o behind)[n] = head[n]
         /\ \A n \in 1..Len(behind) : (head \o behind)[Len(head) + n] = behind[n]
<1> DEFINE list == head \o behind
<1>1. head \in Seq({Master, Chord}) /\ Len(head) \in {1, 2} /\ head[Len(head)] = Chord
      /\ Distinct(head)
  BY HeadShape
<1>2. head \in Seq(Tracks) /\ behind \in Seq(Tracks)
  BY <1>1 DEF Tracks
<1>3. /\ list \in Seq(Tracks)
      /\ Len(list) = Len(head) + Len(behind)
      /\ \A n \in 1..Len(head) : list[n] = head[n]
      /\ \A n \in 1..Len(behind) : list[Len(head) + n] = behind[n]
  BY <1>2
<1>4. \A n \in 1..Len(behind) : behind[n] \in Channels
  OBVIOUS
<1>5. Distinct(list)
  <2> SUFFICES ASSUME NEW m \in 1..Len(list), NEW n \in 1..Len(list), list[m] = list[n]
               PROVE  m = n
    BY <1>3 DEF Distinct
  <2> DEFINE InHead(k) == k \in 1..Len(head)
  <2>1. ASSUME NEW k \in 1..Len(list), ~InHead(k)
        PROVE  k - Len(head) \in 1..Len(behind) /\ list[k] = behind[k - Len(head)]
    BY <2>1, <1>1, <1>3
  <2>2. ASSUME NEW k \in 1..Len(list), InHead(k)
        PROVE  list[k] = head[k] /\ list[k] \notin Channels
    BY <2>2, <1>1, <1>3, MasterAndChord
  <2>3. CASE InHead(m) /\ InHead(n)
    BY <2>3, <2>2, <1>1 DEF Distinct
  <2>4. CASE ~InHead(m) /\ ~InHead(n)
    <3>1. /\ m - Len(head) \in DOMAIN behind
          /\ n - Len(head) \in DOMAIN behind
          /\ behind[m - Len(head)] = behind[n - Len(head)]
      BY <2>4, <2>1
    <3>2. m - Len(head) = n - Len(head)
      BY <3>1 DEF Distinct
    <3>3. QED
      BY <3>2, <1>1
  <2>5. QED
    BY <2>1, <2>2, <2>3, <2>4, <1>4
<1>6. ArrayContains(list, Chord)
  <2>1. Len(head) \in DOMAIN list /\ list[Len(head)] = Chord
    BY <1>1, <1>3
  <2>2. QED
    BY <2>1 DEF ArrayContains, Elements
<1>7. QED
  BY <1>2, <1>3, <1>5, <1>6

\* Deleting a channel from the list deletes it behind the head.
LEMMA DeleteBehind ==
  ASSUME NEW head \in Heads, NEW behind \in Seq(Channels), Distinct(behind),
         NEW channel \in Channels
  PROVE  ArrayDelete(head \o behind, channel) = head \o ArrayDelete(behind, channel)
<1> DEFINE list == head \o behind
<1>1. /\ list \in Seq(Tracks)
      /\ Distinct(list)
      /\ Len(list) = Len(head) + Len(behind)
      /\ \A n \in 1..Len(head) : list[n] = head[n]
      /\ \A n \in 1..Len(behind) : list[Len(head) + n] = behind[n]
  BY Joined
<1>2. head \in Seq({Master, Chord}) /\ Len(head) \in {1, 2}
  BY HeadShape
<1>3. CASE ArrayContains(behind, channel)
  <2>1. PICK n \in DOMAIN behind : behind[n] = channel
    BY <1>3 DEF ArrayContains, Elements
  <2>2. ArrayDelete(behind, channel) = ArrayRemoveAt(behind, n)
    BY <2>1, DeleteAt
  <2>3. Len(head) + n \in DOMAIN list /\ list[Len(head) + n] = channel
    BY <1>1, <1>2, <2>1
  <2>4. ArrayDelete(list, channel) = ArrayRemoveAt(list, Len(head) + n)
    BY <2>3, <1>1, DeleteAt
  <2> DEFINE less == ArrayRemoveAt(behind, n)
  <2>5. /\ less \in Seq(Channels)
        /\ Len(less) = Len(behind) - 1
        /\ \A k \in 1..Len(less) : less[k] = IF k < n THEN behind[k] ELSE behind[k + 1]
    <3>1. Len(behind) - 1 \in Nat
      BY <2>1
    <3>2. \A k \in 1..(Len(behind) - 1) :
            (IF k < n THEN behind[k] ELSE behind[k + 1]) \in Channels
      BY <2>1
    <3>3. QED
      BY <3>1, <3>2 DEF ArrayRemoveAt
  <2>6. /\ head \o less \in Seq(Tracks)
        /\ Len(head \o less) = Len(head) + Len(less)
        /\ \A k \in 1..Len(head) : (head \o less)[k] = head[k]
        /\ \A k \in 1..Len(less) : (head \o less)[Len(head) + k] = less[k]
    <3>1. head \in Seq(Tracks) /\ less \in Seq(Tracks)
      BY <1>2, <2>5 DEF Tracks
    <3>2. QED
      BY <3>1
  <2> DEFINE shorter == ArrayRemoveAt(list, Len(head) + n)
  <2>7. /\ shorter = [k \in 1..(Len(list) - 1) |->
                        IF k < Len(head) + n THEN list[k] ELSE list[k + 1]]
        /\ Len(list) - 1 \in Nat
    BY <1>1, <1>2, <2>1 DEF ArrayRemoveAt
  <2>8. ASSUME NEW k \in 1..(Len(list) - 1)
        PROVE  shorter[k] = (head \o less)[k]
    <3>1. CASE k \in 1..Len(head)
      BY <3>1, <2>1, <2>6, <2>7, <1>1, <1>2
    <3>2. CASE k \notin 1..Len(head)
      <4> DEFINE j == k - Len(head)
      <4>1. j \in 1..Len(less) /\ k = Len(head) + j /\ j \in Int
        BY <3>2, <2>5, <1>1, <1>2
      <4>2. (head \o less)[k] = IF j < n THEN behind[j] ELSE behind[j + 1]
        BY <4>1, <2>5, <2>6
      <4>3. /\ j \in 1..Len(behind) /\ j + 1 \in 1..Len(behind)
            /\ k + 1 = Len(head) + (j + 1)
            /\ k < Len(head) + n <=> j < n
        BY <4>1, <2>5, <2>1, <1>2
      <4>4. list[k] = behind[j] /\ list[k + 1] = behind[j + 1]
        BY <4>1, <4>3, <1>1
      <4>5. QED
        BY <4>2, <4>3, <4>4, <2>7
    <3>3. QED
      BY <3>1, <3>2
  <2>9. shorter = head \o less
    <3>1. Len(head \o less) = Len(list) - 1
      BY <2>5, <2>6, <1>1
    <3>2. head \o less = [k \in 1..(Len(list) - 1) |-> (head \o less)[k]]
      BY <3>1, <2>6, Enumerated
    <3>3. shorter = [k \in 1..(Len(list) - 1) |-> shorter[k]]
      BY <2>7
    <3>4. QED
      BY <3>2, <3>3, <2>8
  <2>10. QED
    BY <2>2, <2>4, <2>9
<1>4. CASE ~ArrayContains(behind, channel)
  <2>1. \A k \in 1..Len(list) : list[k] # channel
    <3>1. TAKE k \in 1..Len(list)
    <3>2. CASE k \in 1..Len(head)
      <4>1. list[k] \in {Master, Chord}
        BY <3>2, <1>1, <1>2
      <4>2. QED
        BY <4>1, MasterAndChord
    <3>3. CASE k \notin 1..Len(head)
      <4>1. k - Len(head) \in 1..Len(behind) /\ k = Len(head) + (k - Len(head))
        BY <3>3, <1>1, <1>2
      <4>2. list[k] = behind[k - Len(head)]
        BY <4>1, <1>1
      <4>3. QED
        BY <4>1, <4>2, <1>4 DEF ArrayContains, Elements
    <3>4. QED
      BY <3>2, <3>3
  <2>2. ~ArrayContains(list, channel)
    BY <2>1, <1>1 DEF ArrayContains, Elements
  <2>3. QED
    BY <1>4, <2>2 DEF ArrayDelete
<1>5. QED
  BY <1>3, <1>4

\* The master's track is deleted from the head, the mixer never holds the master.
LEMMA DeleteMaster ==
  ASSUME NEW head \in Heads, NEW behind \in Seq(Channels), Distinct(behind)
  PROVE  /\ ArrayDelete(head \o behind, Master) = <<Chord>> \o behind
         /\ ArrayDelete(behind, Master) = behind
<1> DEFINE list == head \o behind
           rest == <<Chord>> \o behind
<1>1. /\ list \in Seq(Tracks)
      /\ Distinct(list)
      /\ Len(list) = Len(head) + Len(behind)
      /\ \A n \in 1..Len(head) : list[n] = head[n]
      /\ \A n \in 1..Len(behind) : list[Len(head) + n] = behind[n]
  BY Joined
<1>2. /\ rest \in Seq(Tracks)
      /\ Len(rest) = 1 + Len(behind)
      /\ rest[1] = Chord
      /\ \A n \in 1..Len(behind) : rest[1 + n] = behind[n]
  <2>1. <<Chord>> \in Heads /\ Len(<<Chord>>) = 1 /\ <<Chord>>[1] = Chord
    BY DEF Heads, TrackLists!Heads
  <2>2. QED
    BY <2>1, Joined
<1>3. ~ArrayContains(behind, Master)
  BY MasterAndChord DEF ArrayContains, Elements
<1>4. CASE head = <<Master, Chord>>
  <2>1. /\ Len(head) = 2 /\ head[1] = Master /\ head[2] = Chord
    BY <1>4
  <2>2. 1 \in DOMAIN list /\ list[1] = Master /\ list[2] = Chord
    BY <2>1, <1>1
  <2>3. ArrayDelete(list, Master) = ArrayRemoveAt(list, 1)
    BY <2>2, <1>1, DeleteAt
  <2>4. ArrayRemoveAt(list, 1) = [k \in 1..(1 + Len(behind)) |-> list[k + 1]]
    BY <2>1, <1>1 DEF ArrayRemoveAt
  <2> HIDE DEF list, rest
  <2>5. ASSUME NEW k \in 1..(1 + Len(behind))
        PROVE  list[k + 1] = rest[k]
    <3>1. CASE k = 1
      <4>1. k + 1 = 2
        BY <3>1
      <4>2. QED
        BY <3>1, <4>1, <2>2, <1>2
    <3>2. CASE k # 1
      <4>1. /\ k - 1 \in 1..Len(behind)
            /\ k + 1 = Len(head) + (k - 1) /\ k = 1 + (k - 1)
        BY <3>2, <2>1
      <4>2. list[k + 1] = behind[k - 1] /\ rest[k] = behind[k - 1]
        BY <4>1, <1>1, <1>2
      <4>3. QED
        BY <4>2
    <3>3. QED
      BY <3>1, <3>2
  <2>6. rest = [k \in 1..(1 + Len(behind)) |-> rest[k]]
    BY <1>2
  <2>7. QED
    BY <2>3, <2>4, <2>5, <2>6, <1>3 DEF list, rest, ArrayDelete
<1>5. CASE head = <<Chord>>
  <2>1. \A k \in 1..Len(rest) : rest[k] # Master
    <3>1. TAKE k \in 1..Len(rest)
    <3>2. CASE k = 1
      BY <3>2, <1>2, MasterAndChord
    <3>3. CASE k # 1
      <4>1. k - 1 \in 1..Len(behind) /\ k = 1 + (k - 1)
        BY <3>3, <1>2
      <4>2. rest[k] = behind[k - 1]
        BY <4>1, <1>2
      <4>3. QED
        BY <4>1, <4>2, MasterAndChord
    <3>4. QED
      BY <3>2, <3>3
  <2>2. ~ArrayContains(rest, Master)
    BY <2>1, <1>2 DEF ArrayContains, Elements
  <2>3. QED
    BY <1>5, <2>2, <1>3 DEF ArrayDelete
<1>6. QED
  BY <1>4, <1>5 DEF Heads, TrackLists!Heads

\* The operations of TrackOrder, in terms of the array helpers of this module.
LEMMA SameArrays ==
  ASSUME NEW array, NEW element
  PROVE  /\ TrackLists!ArrayContains(array, element) = ArrayContains(array, element)
         /\ TrackLists!ArrayAppend(array, element) = ArrayAppend(array, element)
         /\ TrackLists!ArrayDelete(array, element) = ArrayDelete(array, element)
<1>1. TrackLists!ArrayContains(array, element) = ArrayContains(array, element)
  BY DEF TrackLists!ArrayContains, TrackLists!Elements, ArrayContains, Elements
<1>2. TrackLists!ArrayIndexOf(array, element) = ArrayIndexOf(array, element)
  BY <1>1 DEF TrackLists!ArrayIndexOf, ArrayIndexOf
<1>3. \A n : TrackLists!ArrayRemoveAt(array, n) = ArrayRemoveAt(array, n)
  BY DEF TrackLists!ArrayRemoveAt, ArrayRemoveAt
<1>4. QED
  BY <1>1, <1>2, <1>3
     DEF TrackLists!ArrayAppend, ArrayAppend, TrackLists!ArrayDelete, ArrayDelete

InMixerOrder ==
  IF ArrayContains(tracks, Chord)
  THEN \E head \in Heads : tracks = head \o order
  ELSE tracks = <<>> /\ order = <<>>

\* The order that both modules speak of.
LEMMA SameOrder == TrackLists!InMixerOrder = InMixerOrder
BY SameArrays DEF TrackLists!InMixerOrder, InMixerOrder, Heads

\* The mixer holds every channel at most once, and the list is its order.
ListsInv ==
  /\ order \in Seq(Channels)
  /\ Distinct(order)
  /\ InMixerOrder

\* The abstract lists start in order.
LEMMA InitOrder == TrackLists!Init => ListsInv
BY DEF TrackLists!Init, ListsInv, InMixerOrder, ArrayContains, Elements, Distinct

\* Tracks that begin with one of the heads are in order.
LEMMA InOrder ==
  ASSUME NEW head \in Heads, order' \in Seq(Channels), Distinct(order'),
         tracks' = head \o order'
  PROVE  ListsInv'
<1>1. ArrayContains(tracks', Chord)
  BY Joined
<1>2. QED
  BY <1>1 DEF ListsInv, InMixerOrder

\* Every step of the abstract lists keeps them in order.
LEMMA NextOrder == ListsInv /\ [TrackLists!Next]_TrackLists!lists => ListsInv'
<1> SUFFICES ASSUME ListsInv, [TrackLists!Next]_TrackLists!lists PROVE ListsInv'
  OBVIOUS
<1> USE DEF ListsInv
<1>1. CASE TrackLists!Open
  <2>1. <<Master, Chord>> \in Heads /\ <<Master, Chord>> \o <<>> = <<Master, Chord>>
    BY DEF Heads, TrackLists!Heads
  <2>2. order' \in Seq(Channels) /\ Distinct(order') /\ tracks' = <<Master, Chord>> \o order'
    BY <1>1, <2>1 DEF TrackLists!Open, Distinct
  <2>3. QED
    BY <2>1, <2>2, InOrder
<1>2. CASE TrackLists!Close
  BY <1>2 DEF TrackLists!Close, InMixerOrder, ArrayContains, Elements, Distinct
<1>3. ASSUME NEW channel \in Channels, TrackLists!Add(channel) PROVE ListsInv'
  <2>1. PICK head \in Heads : tracks = head \o order
    BY <1>3, SameArrays DEF TrackLists!Add, InMixerOrder
  <2>2. order' = Append(order, channel) /\ tracks' = Append(tracks, channel)
    BY <1>3, SameArrays DEF TrackLists!Add, ArrayAppend
  <2>3. order' \in Seq(Channels) /\ Distinct(order')
    <3>1. channel \notin Elements(order)
      BY <1>3, SameArrays DEF TrackLists!Add, ArrayContains
    <3>2. Distinct(ArrayAppend(order, channel))
      BY <3>1, AppendDistinct
    <3>3. QED
      BY <2>2, <3>2 DEF ArrayAppend
  <2>4. tracks' = head \o order'
    <3>1. head \in Seq(Tracks) /\ order \in Seq(Tracks) /\ channel \in Tracks
      BY Joined DEF Tracks
    <3>2. Append(head \o order, channel) = head \o Append(order, channel)
      BY <3>1
    <3>3. QED
      BY <2>1, <2>2, <3>2
  <2>5. QED
    BY <2>3, <2>4, InOrder
<1>4. ASSUME NEW track \in Channels \cup {Master}, TrackLists!Remove(track) PROVE ListsInv'
  <2>1. order' = ArrayDelete(order, track) /\ tracks' = ArrayDelete(tracks, track)
    BY <1>4, SameArrays DEF TrackLists!Remove
  <2>2. order' \in Seq(Channels) /\ Distinct(order')
    BY <2>1, DeleteShrinks, DeleteRemoves
  <2>3. CASE ~ArrayContains(tracks, Chord)
    <3>1. order' = <<>> /\ tracks' = <<>>
      BY <2>1, <2>3 DEF InMixerOrder, ArrayDelete, ArrayContains, Elements
    <3>2. QED
      BY <3>1, <2>2 DEF InMixerOrder, ArrayContains, Elements
  <2>4. CASE ArrayContains(tracks, Chord)
    <3>1. PICK head \in Heads : tracks = head \o order
      BY <2>4 DEF InMixerOrder
    <3>2. CASE track \in Channels
      <4>1. tracks' = head \o order'
        BY <3>1, <3>2, <2>1, DeleteBehind
      <4>2. QED
        BY <4>1, <2>2, InOrder
    <3>3. CASE track = Master
      <4>1. tracks' = <<Chord>> \o order' /\ <<Chord>> \in Heads
        BY <3>1, <3>3, <2>1, DeleteMaster DEF Heads, TrackLists!Heads
      <4>2. QED
        BY <4>1, <2>2, InOrder
    <3>4. QED
      BY <3>2, <3>3
  <2>5. QED
    BY <2>3, <2>4
<1>5. CASE UNCHANGED TrackLists!lists
  BY <1>5 DEF TrackLists!lists, InMixerOrder, ArrayContains, Elements, Distinct
<1>6. QED
  BY <1>1, <1>2, <1>3, <1>4, <1>5 DEF TrackLists!Next, Channels

(***************************************************************************)
(* What the steps of the program do to the mixer and the tracklist.        *)
(***************************************************************************)
\* A list of channels, each with a name.
Named(list) ==
  /\ list \in Seq(Elements(list))
  /\ \A c \in DOMAIN list : "name" \in DOMAIN list[c]

\* Where neither a channel nor a name is lost, whatever else a channel changes.
Renews(old, new) ==
  /\ Named(new) /\ Len(new) = Len(old)
  /\ \A c \in DOMAIN old : new[c].name = old[c].name

\* A refresh of the lanes keeps every channel and its name.
LEMMA RefreshRenews ==
  ASSUME NEW list, Named(list), NEW refreshed, NEW descr
  PROVE  Renews(list, RefreshLanes(list, refreshed, descr))
<1> DEFINE new == RefreshLanes(list, refreshed, descr)
<1>1. Len(list) \in Nat /\ DOMAIN list = 1..Len(list)
  BY DEF Named
<1>2. \A c \in DOMAIN list : "name" \in DOMAIN new[c] /\ new[c].name = list[c].name
  BY DEF RefreshLanes, RefreshLane, Named
<1>3. new \in Seq(Elements(new)) /\ Len(new) = Len(list) /\ DOMAIN new = DOMAIN list
  <2>1. DOMAIN new = DOMAIN list
    BY DEF RefreshLanes
  <2>2. new \in [1..Len(list) -> Elements(new)]
    BY <1>1, <2>1 DEF RefreshLanes, Elements
  <2>3. QED
    BY <1>1, <2>1, <2>2
<1>4. QED
  BY <1>2, <1>3 DEF Renews, Named

\* Where one channel changes, and keeps its name.
LEMMA ExceptRenews ==
  ASSUME NEW list, Named(list), NEW c \in DOMAIN list, NEW channel,
         "name" \in DOMAIN channel, channel.name = list[c].name
  PROVE  Renews(list, [list EXCEPT ![c] = channel])
<1> DEFINE new == [list EXCEPT ![c] = channel]
<1>1. Len(list) \in Nat /\ DOMAIN list = 1..Len(list)
  BY DEF Named
<1>2. /\ DOMAIN new = DOMAIN list
      /\ \A k \in DOMAIN list : new[k] = IF k = c THEN channel ELSE list[k]
  OBVIOUS
<1> HIDE DEF new
<1>3. new \in Seq(Elements(new)) /\ Len(new) = Len(list)
  <2>1. new = [k \in 1..Len(list) |-> IF k = c THEN channel ELSE list[k]]
    BY <1>1 DEF new
  <2>2. new \in [1..Len(list) -> Elements(new)]
    BY <1>1, <1>2, <2>1 DEF Elements
  <2>3. QED
    BY <1>1, <1>2, <2>2
<1>4. QED
  BY <1>2, <1>3 DEF Renews, Named, new

\* A new channel is the last one.
LEMMA AppendNames ==
  ASSUME NEW list, Named(list), NEW channel, "name" \in DOMAIN channel
  PROVE  /\ Named(Append(list, channel))
         /\ Len(Append(list, channel)) = Len(list) + 1
         /\ \A c \in DOMAIN list : Append(list, channel)[c] = list[c]
         /\ Append(list, channel)[Len(list) + 1] = channel
<1> DEFINE S == Elements(list) \cup {channel}
           new == Append(list, channel)
<1>1. list \in Seq(S) /\ channel \in S
  <2>1. list \in Seq(Elements(list))
    BY DEF Named
  <2>2. QED
    BY <2>1
<1> HIDE DEF S
<1>2. /\ new \in Seq(S) /\ Len(new) = Len(list) + 1 /\ Len(list) \in Nat
      /\ \A c \in 1..Len(list) : new[c] = list[c]
      /\ new[Len(list) + 1] = channel
  BY <1>1
<1>3. DOMAIN list = 1..Len(list) /\ DOMAIN new = 1..(Len(list) + 1)
  BY <1>1, <1>2
<1> HIDE DEF new
<1>4. new \in Seq(Elements(new))
  <2>1. \A c \in 1..Len(new) : new[c] \in Elements(new)
    BY <1>2, <1>3 DEF Elements
  <2>2. QED
    BY <1>2, <2>1
<1>5. \A c \in DOMAIN new : "name" \in DOMAIN new[c]
  BY <1>2, <1>3 DEF Named
<1>6. QED
  BY <1>2, <1>3, <1>4, <1>5 DEF Named, new

\* The positions of a sequence are at least as many as its elements.
LEMMA FewElements ==
  ASSUME NEW S, NEW array \in Seq(S)
  PROVE  IsFiniteSet(Elements(array)) /\ Cardinality(Elements(array)) <= Len(array)
<1> DEFINE D == 1..Len(array)
<1>1. IsFiniteSet(D) /\ Cardinality(D) = Len(array)
  <2>1. Len(array) \in Nat
    OBVIOUS
  <2>2. QED
    BY <2>1, FS_Interval
<1>2. array \in Surjection(D, Elements(array))
  BY DEF Surjection, Elements
<1> HIDE DEF D
<1>3. QED
  BY <1>1, <1>2, FS_Surjection

\* mixer_add_channel finds a number that makes the name unique: there are more numbers to
\* try than there are channels.
LEMMA UniqueNameIsFree ==
  ASSUME NEW S, order \in Seq(S), NEW label
  PROVE  \A c \in Elements(order) : channels[c].name # UniqueName(label)
<1> DEFINE N == 0..Len(order)
           Free == {n \in N : GetChannelByName(<<label, n>>) = {}}
           Names == {<<label, n>> : n \in N}
           Lowest(name) == /\ GetChannelByName(name) = {}
                           /\ \A n \in 0..(name[2] - 1) : GetChannelByName(<<label, n>>) # {}
<1>1. Len(order) \in Nat
  OBVIOUS
<1>2. ASSUME Free = {} PROVE FALSE
  <2> DEFINE f == [n \in N |-> CHOOSE c \in Elements(order) : channels[c].name = <<label, n>>]
  <2>1. \A n \in N : \E c \in Elements(order) : channels[c].name = <<label, n>>
    BY <1>2 DEF GetChannelByName
  <2>2. \A n \in N : f[n] \in Elements(order) /\ channels[f[n]].name = <<label, n>>
    BY <2>1
  <2>3. f \in [N -> Elements(order)]
    BY <2>2
  <2> HIDE DEF f
  <2>4. IsFiniteSet(N) /\ Cardinality(N) = Len(order) + 1
    BY <1>1, FS_Interval
  <2>5. IsFiniteSet(Elements(order)) /\ Cardinality(Elements(order)) <= Len(order)
    BY FewElements
  <2>6. Cardinality(Elements(order)) < Cardinality(N)
    <3>1. Cardinality(Elements(order)) \in Nat
      BY <2>5, FS_CardinalityType
    <3>2. QED
      BY <3>1, <2>4, <2>5, <1>1
  <2> HIDE DEF N
  <2>7. \E x, y \in N : x # y /\ f[x] = f[y]
    BY <2>3, <2>4, <2>5, <2>6, FS_PigeonHole
  <2>8. PICK x \in N, y \in N : x # y /\ f[x] = f[y]
    BY <2>7
  <2>9. <<label, x>> = <<label, y>>
    BY <2>2, <2>8
  <2>10. QED
    BY <2>8, <2>9
<1>3. PICK least \in Free : \A n \in Free : least <= n
  <2>1. Free \in SUBSET Nat
    BY <1>1
  <2> HIDE DEF Free
  <2>2. QED
    BY <2>1, <1>2, LeastNatural
<1>4. <<label, least>> \in Names /\ Lowest(<<label, least>>)
  <2>1. least \in N /\ least \in Nat
    BY <1>1
  <2>2. ASSUME NEW n \in 0..(least - 1) PROVE GetChannelByName(<<label, n>>) # {}
    <3>1. n \in N /\ ~(least <= n)
      BY <2>1, <2>2, <1>1
    <3>2. QED
      BY <3>1, <1>3
  <2>3. <<label, least>>[2] = least
    OBVIOUS
  <2>4. QED
    BY <2>1, <2>2, <2>3
<1>5. UniqueName(label) = CHOOSE name \in Names : Lowest(name)
  BY DEF UniqueName
<1>6. GetChannelByName(UniqueName(label)) = {}
  <2> HIDE DEF Names, Lowest
  <2>1. Lowest(UniqueName(label))
    BY <1>4, <1>5
  <2>2. QED
    BY <2>1 DEF Lowest
<1>7. QED
  BY <1>6 DEF GetChannelByName

\* What tracklist_get_selected_tracks finds are tracks.
LEMMA SelectedTracks ==
  ASSUME NEW T, tracks \in Seq(T), NEW s
  PROVE  GetSelected(s) \in Seq(T)
BY PickedElements DEF GetSelected
-----------------------------------------------------------------------------
\* A project is open from project_setup on.
Opened == stage \in {"setup main window", "running"}

(***************************************************************************)
(* The inductive invariant.  A channel has a number when it is made, and   *)
(* the lists only know numbers that were given; the chord track cannot be  *)
(* deleted; and only an open project has tracks.                           *)
(***************************************************************************)
ChannelsKnown ==
  /\ Named(channels) /\ Len(channels) <= MaxChannels
  /\ order \in Seq(2..Len(channels)) /\ Distinct(order)
  /\ tracks \in Seq(0..Len(channels)) /\ Distinct(tracks)
  /\ doomed \in Seq(0..Len(channels))

ChordStays ==
  IF Opened THEN ArrayContains(tracks, Chord) /\ Len(channels) > 0
  ELSE Len(channels) = 0 /\ tracks = <<>>

NamesDiffer ==
  \A c, d \in Elements(order) : channels[c].name = channels[d].name => c = d

IInv == ChannelsKnown /\ ChordStays /\ NamesDiffer

\* What a step does to the lists.
Keeps ==
  /\ Renews(channels, channels') /\ UNCHANGED <<order, tracks>>
  /\ doomed' \in Seq(0..Len(channels)) /\ (Opened' <=> Opened)

Adds ==
  /\ Opened /\ Opened' /\ Len(channels) < MaxChannels
  /\ order' = ArrayAppend(order, Len(channels) + 1)
  /\ tracks' = ArrayAppend(tracks, Len(channels) + 1)
  /\ Named(channels') /\ Len(channels') = Len(channels) + 1
  /\ \A c \in DOMAIN channels : channels'[c].name = channels[c].name
  /\ \E label : channels'[Len(channels) + 1].name = UniqueName(label)
  /\ doomed' = doomed

Removes(track) ==
  /\ track # Chord /\ track \in 1..Len(channels)
  /\ Renews(channels, channels')
  /\ order' = ArrayDelete(order, track) /\ tracks' = ArrayDelete(tracks, track)
  /\ doomed' \in Seq(0..Len(channels)) /\ (Opened' <=> Opened)

Opens ==
  /\ ~Opened /\ Opened' /\ order' = order /\ tracks' = <<Master, Chord>> \o order
  /\ Named(channels') /\ Len(channels') = 1 /\ doomed' = doomed

Closes ==
  /\ ~Opened' /\ order' = <<>> /\ tracks' = <<>> /\ channels' = <<>> /\ doomed' = <<>>

\* What changes neither the mixer nor the lists keeps the invariant.
LEMMA KeepsInv ==
  ASSUME IInv, Keeps
  PROVE  IInv'
<1>1. /\ Len(channels) \in Nat /\ DOMAIN channels = 1..Len(channels)
      /\ Len(channels') = Len(channels) /\ Named(channels')
      /\ \A c \in DOMAIN channels : channels'[c].name = channels[c].name
  BY DEF IInv, ChannelsKnown, Keeps, Renews, Named
<1>2. order' = order /\ tracks' = tracks
  BY DEF Keeps
<1>3. ChannelsKnown'
  BY <1>1, <1>2 DEF IInv, ChannelsKnown, Keeps, Distinct
<1>4. ChordStays'
  BY <1>1, <1>2 DEF IInv, ChordStays, Keeps
<1>5. NamesDiffer'
  <2>1. Elements(order) \subseteq DOMAIN channels
    BY <1>1 DEF IInv, ChannelsKnown, Elements
  <2>2. QED
    BY <1>1, <1>2, <2>1 DEF IInv, NamesDiffer
<1>6. QED
  BY <1>3, <1>4, <1>5 DEF IInv

\* So does what adds a track.
LEMMA AddsInv ==
  ASSUME IInv, Adds
  PROVE  IInv'
<1> DEFINE c == Len(channels) + 1
<1>1. /\ Len(channels) \in Nat /\ DOMAIN channels = 1..Len(channels)
      /\ c \in Nat /\ c \in 2..c /\ c \in 0..c
  BY DEF IInv, ChannelsKnown, ChordStays, Adds, Named
<1>2. /\ order \in Seq(2..c) /\ tracks \in Seq(0..c) /\ doomed \in Seq(0..c)
      /\ c \notin Elements(order) /\ c \notin Elements(tracks)
      /\ Elements(order) \subseteq DOMAIN channels
  <2>1. order \in Seq(2..Len(channels)) /\ tracks \in Seq(0..Len(channels))
          /\ doomed \in Seq(0..Len(channels))
    BY DEF IInv, ChannelsKnown
  <2>2. 2..Len(channels) \subseteq 2..c /\ 0..Len(channels) \subseteq 0..c
    BY <1>1
  <2>3. QED
    BY <2>1, <2>2, <1>1 DEF Elements
<1>3. /\ order' = ArrayAppend(order, c) /\ tracks' = ArrayAppend(tracks, c)
      /\ Len(channels') = c /\ Named(channels') /\ doomed' = doomed
      /\ \A d \in DOMAIN channels : channels'[d].name = channels[d].name
  BY DEF Adds
<1> HIDE DEF c
<1>4. order' \in Seq(2..c) /\ Elements(order') = Elements(order) \cup {c}
  <2>1. /\ ArrayAppend(order, c) \in Seq(2..c)
        /\ Elements(ArrayAppend(order, c)) = Elements(order) \cup {c}
    BY <1>1, <1>2, AppendAdds
  <2>2. QED
    BY <2>1, <1>3
<1>5. tracks' \in Seq(0..c) /\ Elements(tracks') = Elements(tracks) \cup {c}
  <2>1. /\ ArrayAppend(tracks, c) \in Seq(0..c)
        /\ Elements(ArrayAppend(tracks, c)) = Elements(tracks) \cup {c}
    BY <1>1, <1>2, AppendAdds
  <2>2. QED
    BY <2>1, <1>3
<1>6. Distinct(order) /\ Distinct(tracks)
  BY DEF IInv, ChannelsKnown
<1>7. Distinct(order')
  BY <1>1, <1>2, <1>3, <1>6, AppendDistinct
<1>8. Distinct(tracks')
  BY <1>1, <1>2, <1>3, <1>6, AppendDistinct
<1>9. ChannelsKnown'
  <2>1. c <= MaxChannels
    BY <1>1, MixerAssumption DEF Adds, c
  <2>2. QED
    BY <2>1, <1>2, <1>3, <1>4, <1>5, <1>7, <1>8 DEF ChannelsKnown
<1>10. ChordStays'
  BY <1>1, <1>3, <1>5 DEF IInv, ChordStays, Adds, ArrayContains, c
<1>11. NamesDiffer'
  <2>1. PICK label : channels'[c].name = UniqueName(label)
    BY DEF Adds, c
  <2>2. \A d \in Elements(order) : channels[d].name # UniqueName(label)
    BY <1>2, UniqueNameIsFree
  <2>3. \A d \in Elements(order) : channels'[d].name = channels[d].name
    BY <1>2, <1>3
  <2>4. QED
    BY <1>4, <2>1, <2>2, <2>3 DEF IInv, NamesDiffer
<1>12. QED
  BY <1>9, <1>10, <1>11 DEF IInv

\* So does what removes tracks.
LEMMA RemovesInv ==
  ASSUME IInv, NEW track, Removes(track)
  PROVE  IInv'
<1>1. /\ Len(channels) \in Nat /\ DOMAIN channels = 1..Len(channels)
      /\ Len(channels') = Len(channels) /\ Named(channels')
      /\ \A c \in DOMAIN channels : channels'[c].name = channels[c].name
  BY DEF IInv, ChannelsKnown, Removes, Renews, Named
<1>2. /\ order' = ArrayDelete(order, track) /\ tracks' = ArrayDelete(tracks, track)
      /\ track # Chord
  BY DEF Removes
<1>3. /\ order \in Seq(2..Len(channels)) /\ Distinct(order)
      /\ tracks \in Seq(0..Len(channels)) /\ Distinct(tracks)
  BY DEF IInv, ChannelsKnown
<1>4. /\ order' \in Seq(2..Len(channels)) /\ Distinct(order')
      /\ Elements(order') \subseteq Elements(order)
  BY <1>2, <1>3, DeleteShrinks, DeleteRemoves
<1>5. /\ tracks' \in Seq(0..Len(channels)) /\ Distinct(tracks')
      /\ Elements(tracks') = Elements(tracks) \ {track}
  BY <1>2, <1>3, DeleteShrinks, DeleteRemoves
<1>6. ChannelsKnown'
  BY <1>1, <1>4, <1>5 DEF IInv, ChannelsKnown, Removes
<1>7. ChordStays'
  <2>1. CASE Opened
    BY <2>1, <1>1, <1>2, <1>5 DEF IInv, ChordStays, Removes, ArrayContains
  <2>2. CASE ~Opened
    <3>1. tracks' = <<>>
      BY <2>2, <1>2 DEF IInv, ChordStays, ArrayDelete, ArrayContains, Elements
    <3>2. QED
      BY <2>2, <3>1, <1>1 DEF IInv, ChordStays, Removes
  <2>3. QED
    BY <2>1, <2>2
<1>8. NamesDiffer'
  <2>1. Elements(order) \subseteq DOMAIN channels
    BY <1>1, <1>3 DEF Elements
  <2>2. QED
    BY <1>1, <1>4, <2>1 DEF IInv, NamesDiffer
<1>9. QED
  BY <1>6, <1>7, <1>8 DEF IInv

\* Where no project is open, the mixer has no channel.
LEMMA ClosedIsEmpty ==
  ASSUME IInv, ~Opened
  PROVE  order = <<>> /\ tracks = <<>> /\ Len(channels) = 0
<1>1. Len(channels) = 0 /\ tracks = <<>>
  BY DEF IInv, ChordStays
<1>2. order \in Seq(2..0) /\ 2..0 = {}
  BY <1>1 DEF IInv, ChannelsKnown
<1>3. QED
  BY <1>1, <1>2

\* So does opening a project.
LEMMA OpensInv ==
  ASSUME IInv, Opens
  PROVE  IInv'
<1>1. order = <<>>
  BY ClosedIsEmpty DEF Opens
<1>2. order' = <<>> /\ tracks' = <<1, 0>> /\ Len(channels') = 1 /\ doomed' = doomed
  BY <1>1 DEF Opens, Master, Chord
<1>3. doomed \in Seq(0..1)
  <2>1. doomed \in Seq(0..Len(channels)) /\ Len(channels) = 0
    BY ClosedIsEmpty DEF IInv, ChannelsKnown, Opens
  <2>2. 0..Len(channels) \subseteq 0..1
    BY <2>1
  <2>3. QED
    BY <2>1, <2>2
<1>4. 1 <= MaxChannels
  BY MixerAssumption DEF Opens
<1>5. ChannelsKnown'
  <2>1. order' \in Seq(2..1) /\ Distinct(order')
    BY <1>2 DEF Distinct
  <2>2. tracks' \in Seq(0..1) /\ Distinct(tracks')
    BY <1>2 DEF Distinct
  <2>3. QED
    BY <2>1, <2>2, <1>2, <1>3, <1>4 DEF ChannelsKnown, Opens
<1>6. ChordStays'
  <2>1. ArrayContains(tracks', Chord)
    BY <1>2 DEF ArrayContains, Elements, Chord
  <2>2. QED
    BY <2>1, <1>2 DEF ChordStays, Opens
<1>7. NamesDiffer'
  BY <1>2 DEF NamesDiffer, Elements
<1>8. QED
  BY <1>5, <1>6, <1>7 DEF IInv

\* So does closing one.
LEMMA ClosesInv ==
  ASSUME Closes
  PROVE  IInv'
<1>1. Len(channels') = 0 /\ Named(channels') /\ 0 <= MaxChannels
  BY MixerAssumption DEF Closes, Named, Elements
<1>2. ChannelsKnown'
  BY <1>1 DEF Closes, ChannelsKnown, Distinct
<1>3. QED
  BY <1>1, <1>2 DEF IInv, Closes, ChordStays, NamesDiffer, Elements

-----------------------------------------------------------------------------
\* A channel that is there, as the invariant knows it.
LEMMA KnownChannel ==
  ASSUME IInv
  PROVE  /\ Len(channels) \in Nat /\ DOMAIN channels = 1..Len(channels) /\ Named(channels)
         /\ \A c \in DOMAIN channels : "name" \in DOMAIN channels[c]
         /\ Renews(channels, channels)
BY DEF IInv, ChannelsKnown, Named, Renews

\* A step that leaves the project and its deletions alone.
LEMMA LeavesLists ==
  ASSUME IInv, UNCHANGED <<channels, order, tracks, doomed>>, Opened' <=> Opened
  PROVE  Keeps
<1>1. Renews(channels, channels) /\ doomed \in Seq(0..Len(channels))
  BY KnownChannel DEF IInv, ChannelsKnown
<1>2. QED
  BY <1>1 DEF Keeps

\* What the user adds.
LEMMA AddInsTrackAdds ==
  ASSUME IInv, Opened, UNCHANGED stage, AddInsTrack
  PROVE  Adds
<1> DEFINE new == ChannelCreate("Instrument Track", "midi")
           all == Append(channels, new)
           shownTracks == {t \in Elements(tracks') : HasAutomation(t)}
<1>1. "name" \in DOMAIN new /\ new.name = UniqueName("Instrument Track")
  BY DEF ChannelCreate
<1>2. /\ Named(all) /\ Len(all) = Len(channels) + 1
      /\ \A c \in DOMAIN channels : all[c] = channels[c]
      /\ all[Len(channels) + 1] = new
  <2> HIDE DEF new
  <2> QED BY <1>1, KnownChannel, AppendNames
<1>3. channels' = RefreshLanes(all, shownTracks, Descr)
  BY DEF AddInsTrack, RefreshTracklist
<1> HIDE DEF all, new, shownTracks
<1>4. Renews(all, channels')
  BY <1>2, <1>3, RefreshRenews
<1>5. DOMAIN channels = 1..Len(channels) /\ DOMAIN all = 1..(Len(channels) + 1)
      /\ Len(channels) \in Nat
  <2>1. DOMAIN all = 1..Len(all)
    BY <1>2 DEF Named
  <2>2. QED
    BY <2>1, <1>2, KnownChannel
<1>6. \A c \in DOMAIN channels : channels'[c].name = channels[c].name
  BY <1>2, <1>4, <1>5 DEF Renews
<1>7. channels'[Len(channels) + 1].name = UniqueName("Instrument Track")
  <2>1. Len(channels) + 1 \in DOMAIN all
    BY <1>5
  <2>2. channels'[Len(channels) + 1].name = all[Len(channels) + 1].name
    BY <1>4, <2>1 DEF Renews
  <2>3. QED
    BY <1>1, <1>2, <2>2
<1>8. /\ order' = ArrayAppend(order, Len(channels) + 1)
      /\ tracks' = ArrayAppend(tracks, Len(channels) + 1)
      /\ Len(channels) < MaxChannels /\ doomed' = doomed
  BY DEF AddInsTrack, AppendTrack
<1>9. QED
  BY <1>2, <1>4, <1>6, <1>7, <1>8 DEF Adds, Renews, Opened

\* A plugin that is dropped behind the last channel adds one.
LEMMA AddFromPluginDescrAdds ==
  ASSUME IInv, Opened, UNCHANGED stage, NEW d, AddFromPluginDescr(d)
  PROVE  Adds
<1> DEFINE type == IF IsInstrument(d) THEN "midi" ELSE "bus"
           new == ChannelCreate(d, type)
           descr == Append(Descr, d)
           filled == AddPlugin(new, 0, Len(plugins) + 1, new.strip, descr)
           all == Append(channels, filled)
           shownTracks == {t \in Elements(tracks') : HasAutomation(t)}
<1>1. "name" \in DOMAIN new /\ new.name = UniqueName(d)
  BY DEF ChannelCreate
<1>2. "name" \in DOMAIN filled /\ filled.name = UniqueName(d)
  <2> HIDE DEF new
  <2> QED BY <1>1 DEF AddPlugin, RemovePlugin
<1>3. /\ Named(all) /\ Len(all) = Len(channels) + 1
      /\ \A c \in DOMAIN channels : all[c] = channels[c]
      /\ all[Len(channels) + 1] = filled
  <2> HIDE DEF filled
  <2> QED BY <1>2, KnownChannel, AppendNames
<1>4. channels' = RefreshLanes(all, shownTracks, descr)
  BY DEF AddFromPluginDescr, RefreshTracklist
<1> HIDE DEF all, new, filled, shownTracks, descr, type
<1>5. Renews(all, channels')
  BY <1>3, <1>4, RefreshRenews
<1>6. DOMAIN channels = 1..Len(channels) /\ DOMAIN all = 1..(Len(channels) + 1)
      /\ Len(channels) \in Nat
  <2>1. DOMAIN all = 1..Len(all)
    BY <1>3 DEF Named
  <2>2. QED
    BY <2>1, <1>3, KnownChannel
<1>7. \A c \in DOMAIN channels : channels'[c].name = channels[c].name
  BY <1>3, <1>5, <1>6 DEF Renews
<1>8. channels'[Len(channels) + 1].name = UniqueName(d)
  BY <1>2, <1>3, <1>5, <1>6 DEF Renews
<1>9. /\ order' = ArrayAppend(order, Len(channels) + 1)
      /\ tracks' = ArrayAppend(tracks, Len(channels) + 1)
      /\ Len(channels) < MaxChannels /\ doomed' = doomed
  BY DEF AddFromPluginDescr, AppendTrack
<1>10. QED
  BY <1>3, <1>5, <1>7, <1>8, <1>9 DEF Adds, Renews, Opened

\* Steps that change channels, and neither their names nor the lists.
LEMMA SlotDropKeeps ==
  ASSUME IInv, Opened' <=> Opened, NEW c \in DOMAIN channels, NEW pos, NEW d, SlotDrop(c, pos, d)
  PROVE  Keeps
<1>1. PICK p, read, descr :
         channels' = [channels EXCEPT ![c] = AddPlugin(channels[c], pos, p, read, descr)]
  BY DEF SlotDrop
<1> DEFINE filled == AddPlugin(channels[c], pos, p, read, descr)
<1>2. "name" \in DOMAIN channels[c]
  BY KnownChannel
<1>3. "name" \in DOMAIN filled /\ filled.name = channels[c].name
  BY <1>2 DEF AddPlugin, RemovePlugin
<1> HIDE DEF filled
<1>4. Renews(channels, channels')
  BY <1>1, <1>3, KnownChannel, ExceptRenews DEF filled
<1>5. UNCHANGED <<order, tracks, doomed>>
  BY DEF SlotDrop
<1>6. QED
  BY <1>4, <1>5 DEF Keeps, IInv, ChannelsKnown

\* The automation that a lane selects leaves the lists alone.
LEMMA SelectorChangedKeeps ==
  ASSUME IInv, Opened' <=> Opened, NEW t \in DOMAIN channels, NEW a, SelectorChanged(t, a)
  PROVE  Keeps
<1> DEFINE set == [channels[t] EXCEPT !.ats = SetShown(channels[t].ats, a)]
<1>1. channels' = [channels EXCEPT ![t] = set]
  BY DEF SelectorChanged
<1>2. "name" \in DOMAIN set /\ set.name = channels[t].name
  BY KnownChannel
<1> HIDE DEF set
<1>3. Renews(channels, channels')
  BY <1>1, <1>2, KnownChannel, ExceptRenews
<1>4. UNCHANGED <<order, tracks, doomed>>
  BY DEF SelectorChanged
<1>5. QED
  BY <1>3, <1>4 DEF Keeps, IInv, ChannelsKnown

\* So does showing the automation of a track.
LEMMA ShowAutomationKeeps ==
  ASSUME IInv, Opened' <=> Opened, NEW t, ShowAutomation(t)
  PROVE  Keeps
<1>1. Renews(channels, channels')
  BY KnownChannel, RefreshRenews DEF ShowAutomation
<1>2. UNCHANGED <<order, tracks, doomed>>
  BY DEF ShowAutomation
<1>3. QED
  BY <1>1, <1>2 DEF Keeps, IInv, ChannelsKnown

\* So does setting up the window.
LEMMA MainWindowKeeps ==
  ASSUME IInv, SetupMainWindow
  PROVE  Keeps
<1>1. Renews(channels, channels')
  BY KnownChannel, RefreshRenews DEF SetupMainWindow, MainWindowRefresh, RefreshTracklist
<1>2. UNCHANGED <<order, tracks, doomed>> /\ Opened /\ Opened'
  BY DEF SetupMainWindow, MainWindowRefresh, Opened
<1>3. QED
  BY <1>1, <1>2 DEF Keeps, IInv, ChannelsKnown

\* So does asking for the selected tracks to be deleted.
LEMMA DeleteTracksKeeps ==
  ASSUME IInv, Opened' <=> Opened, NEW t, NEW append, DeleteTracks(t, append)
  PROVE  Keeps
<1>1. UNCHANGED <<channels, order, tracks>> /\ doomed' = GetSelected(selected')
  BY DEF DeleteTracks, projectVars
<1>2. tracks \in Seq(0..Len(channels))
  BY DEF IInv, ChannelsKnown
<1>3. doomed' \in Seq(0..Len(channels))
  BY <1>1, <1>2, SelectedTracks
<1>4. QED
  BY <1>1, <1>3, KnownChannel DEF Keeps

\* One turn of the loop that deletes the selected tracks.
LEMMA DeleteNextShape ==
  ASSUME IInv, Opened' <=> Opened, DeleteNext
  PROVE  Keeps \/ \E track \in 1..Len(channels) : Removes(track)
<1> DEFINE track == Head(doomed)
<1>1. /\ track \in 0..Len(channels) /\ doomed' \in Seq(0..Len(channels))
  BY DEF DeleteNext, IInv, ChannelsKnown
<1>2. CASE track = Chord
  <2>1. UNCHANGED <<channels, order, tracks>>
    BY <1>2 DEF DeleteNext, projectVars
  <2>2. QED
    BY <2>1, <1>1, KnownChannel DEF Keeps
<1>3. CASE track # Chord
  <2>1. track \in DOMAIN channels /\ track \in 1..Len(channels)
    BY <1>1, <1>3, KnownChannel DEF Chord
  <2>2. /\ order' = ArrayDelete(order, track) /\ tracks' = ArrayDelete(tracks, track)
        /\ channels' = [channels EXCEPT ![track] = [channels[track] EXCEPT !.alive = FALSE]]
    BY <1>3 DEF DeleteNext, RemoveChannel, RemoveTrack
  <2> DEFINE freed == [channels[track] EXCEPT !.alive = FALSE]
  <2>3. "name" \in DOMAIN freed /\ freed.name = channels[track].name
    BY <2>1, KnownChannel
  <2> HIDE DEF track
  <2>4. Renews(channels, channels')
    <3> HIDE DEF freed
    <3>1. channels' = [channels EXCEPT ![track] = freed]
      BY <2>2 DEF freed
    <3>2. QED
      BY <3>1, <2>1, <2>3, KnownChannel, ExceptRenews
  <2>5. Removes(track)
    BY <1>1, <1>3, <2>1, <2>2, <2>4 DEF Removes
  <2>6. QED
    BY <2>1, <2>5
<1>4. QED
  BY <1>2, <1>3

\* So does a crash.
LEMMA CrashKeeps ==
  ASSUME IInv, Opened' <=> Opened, Crash
  PROVE  Keeps
BY LeavesLists DEF Crash, projectVars

\* An edit of the mixer leaves the lists alone or adds a channel.
LEMMA MixerEditShape ==
  ASSUME IInv, Opened, UNCHANGED stage, MixerEdit
  PROVE  Keeps \/ Adds
<1>1. Opened' <=> Opened
  BY DEF Opened
<1>2. CASE AddInsTrack
  BY <1>2, AddInsTrackAdds
<1>3. ASSUME NEW d, InstantiationFails(d) PROVE Keeps
  BY <1>1, <1>3, LeavesLists DEF InstantiationFails
<1>4. ASSUME NEW d, AddFromPluginDescr(d) PROVE Adds
  BY <1>4, AddFromPluginDescrAdds
<1>5. ASSUME NEW d, NEW c \in DOMAIN channels, NEW pos, SlotDrop(c, pos, d) PROVE Keeps
  BY <1>1, <1>5, SlotDropKeeps
<1>6. CASE DropCrashes
  BY <1>1, <1>6, CrashKeeps DEF DropCrashes
<1>7. ASSUME NEW t, NEW append, Press(t, append) PROVE Keeps
  BY <1>1, <1>7, LeavesLists DEF Press, SetSelected, projectVars
<1>8. ASSUME NEW t, NEW append, DeleteTracks(t, append) PROVE Keeps
  BY <1>1, <1>8, DeleteTracksKeeps
<1>9. CASE SelectAll
  BY <1>1, <1>9, LeavesLists DEF SelectAll, SetSelected, projectVars
<1>10. CASE Export
  BY <1>1, <1>10, LeavesLists DEF Export, projectVars
<1>11. ASSUME NEW side, NEW unit, SelectRow(side, unit) PROVE Keeps
  BY <1>1, <1>11, LeavesLists DEF SelectRow, editVars, projectVars
<1>12. CASE SelectCrashes
  BY <1>1, <1>12, CrashKeeps DEF SelectCrashes
<1>13. ASSUME NEW t, ShowAutomation(t) PROVE Keeps
  BY <1>1, <1>13, ShowAutomationKeeps
<1>14. ASSUME NEW t \in Elements(tracks) \ {Chord}, NEW a, SelectorChanged(t, a) PROVE Keeps
  <2>1. t \in DOMAIN channels
    BY KnownChannel DEF IInv, ChannelsKnown, Elements, Chord
  <2>2. QED
    BY <1>1, <1>14, <2>1, SelectorChangedKeeps
<1>15. QED
  BY <1>2, <1>3, <1>4, <1>5, <1>6, <1>7, <1>8, <1>9, <1>10, <1>11, <1>12, <1>13, <1>14
     DEF MixerEdit

\* A step of the mixer leaves them alone or removes a channel.
LEMMA MixerStepShape ==
  ASSUME IInv, Opened' <=> Opened, MixerStep
  PROVE  Keeps \/ \E track \in 1..Len(channels) : Removes(track)
<1>1. CASE DeleteNext
  BY <1>1, DeleteNextShape
<1>2. CASE DeleteCrashes \/ DrawCrashes \/ DrawConnectionsCrashes \/ SelectorCrashes
  <2>1. Crash
    BY <1>2 DEF DeleteCrashes, DrawCrashes, DrawConnectionsCrashes, SelectorCrashes
  <2>2. QED
    BY <2>1, CrashKeeps
<1>3. QED
  BY <1>1, <1>2 DEF MixerStep

\* What creates the master and the tracklist, and what frees them.
LEMMA CreateDefaultOpens ==
  ASSUME IInv, CreateDefault
  PROVE  Opens
<1>1. /\ stage = "load project" /\ stage' = "setup main window" /\ order' = order
      /\ tracks' = <<Master, Chord>> \o order /\ doomed' = doomed
      /\ channels' = <<ChannelCreate("Master", "master")>>
  BY DEF CreateDefault, LoadProject, TracklistSetup
<1> DEFINE master == ChannelCreate("Master", "master")
<1>2. "name" \in DOMAIN master
  BY DEF ChannelCreate
<1> HIDE DEF master
<1>3. Named(<<master>>) /\ Len(<<master>>) = 1
  BY <1>2 DEF Named, Elements
<1>4. QED
  BY <1>1, <1>3 DEF Opens, Opened, master

\* A project that is forgotten is closed.
LEMMA ForgetCloses ==
  ASSUME Forget, stage' \in {"task", "off"}
  PROVE  Closes
BY DEF Forget, Closes, Opened

(***************************************************************************)
(* Every step of the program, seen from the lists: it leaves them alone,   *)
(* adds a channel, removes one, opens a project or leaves it.              *)
(***************************************************************************)
LEMMA NextShape ==
  ASSUME IInv, [Next]_vars
  PROVE  Keeps \/ Adds \/ (\E track \in 1..Len(channels) : Removes(track)) \/ Opens \/ Closes
<1>1. ASSUME UNCHANGED mixerVars, Opened' <=> Opened PROVE Keeps
  BY <1>1, LeavesLists DEF mixerVars, editVars, projectVars
<1>2. ASSUME Crashes PROVE Keeps
  <2>1. Crash /\ UNCHANGED stage
    BY <1>2 DEF Crashes, startVars
  <2>2. QED
    BY <2>1, CrashKeeps DEF Opened
<1>3. ASSUME NEW file, Launch(file) PROVE Closes
  BY <1>3, ForgetCloses DEF Launch
<1>4. CASE TaskFunc
  BY <1>1, <1>4 DEF TaskFunc, Opened
<1>5. CASE TaskFails
  BY <1>2, <1>5 DEF TaskFails
<1>6. CASE TaskCompleted
  BY <1>1, <1>6 DEF TaskCompleted, PromptForProject, Opened
<1>7. CASE UpdateSplash
  BY <1>1, <1>7 DEF UpdateSplash, Opened
<1>8. ASSUME NEW d, SelectionChanged(d) PROVE Keeps
  BY <1>1, <1>8 DEF SelectionChanged, Opened
<1>9. CASE CreateNewToggled
  BY <1>1, <1>9 DEF CreateNewToggled, Opened
<1>10. ASSUME NEW cancel, OnFinish(cancel) PROVE Keeps
  BY <1>1, <1>10 DEF OnFinish, Assistant, Opened
<1>11. CASE InitMainWindow
  BY <1>1, <1>11 DEF InitMainWindow, Opened
<1>12. CASE CreateDefault
  BY <1>12, CreateDefaultOpens
<1>13. CASE LoadCrashes
  BY <1>2, <1>13 DEF LoadCrashes
<1>14. CASE SetupMainWindow
  BY <1>14, MainWindowKeeps
<1>15. CASE Edit
  <2>1. Opened /\ UNCHANGED stage /\ MixerEdit
    BY <1>15 DEF Edit, Edits, Running, Opened, Counted, startVars
  <2>2. QED
    BY <2>1, MixerEditShape
<1>16. CASE Step
  <2>1. (Opened' <=> Opened) /\ MixerStep
    BY <1>16 DEF Step, Opened, startVars
  <2>2. QED
    BY <2>1, MixerStepShape
<1>17. ASSUME Counted, UNCHANGED mixerVars PROVE Keeps
  BY <1>1, <1>17 DEF Counted, startVars, Opened
<1>18. ASSUME NEW c, Browse(c) PROVE Keeps
  BY <1>17, <1>18 DEF Browse
<1>19. ASSUME NEW backend, SetAudioBackend(backend) PROVE Keeps
  BY <1>17, <1>19 DEF SetAudioBackend
<1>20. CASE SetTempo \/ JackChanges
  BY <1>17, <1>20 DEF SetTempo, JackChanges, EngineChange
<1>21. CASE PlayCrashes
  BY <1>2, <1>21 DEF PlayCrashes
<1>22. ASSUME NEW t, AddRegion(t) PROVE Keeps
  BY <1>17, <1>22 DEF AddRegion
<1>23. ASSUME NEW d, NEW writable, ProjectSave(d, writable) PROVE Keeps
  BY <1>17, <1>23 DEF ProjectSave
<1>24. CASE SaveCrashes
  BY <1>2, <1>24 DEF SaveCrashes
<1>25. CASE Quit
  BY <1>25, ForgetCloses DEF Quit
<1>26. CASE Terminated \/ UNCHANGED vars
  BY <1>1, <1>26 DEF Terminated, vars, startVars, Opened
<1>27. QED
  BY <1>3, <1>4, <1>5, <1>6, <1>7, <1>8, <1>9, <1>10, <1>11, <1>12, <1>13, <1>14, <1>15, <1>16,
     <1>18, <1>19, <1>20, <1>21, <1>22, <1>23, <1>24, <1>25, <1>26 DEF Next, Save, SaveAs

\* The invariant holds at the start.
LEMMA InitInv == Init => IInv
<1> SUFFICES ASSUME Init PROVE IInv
  OBVIOUS
<1>1. ChannelsKnown
  BY MixerAssumption DEF Init, ChannelsKnown, Named, Distinct, Elements
<1>2. QED
  BY <1>1 DEF Init, IInv, ChordStays, NamesDiffer, Opened, Elements

\* Every step keeps the invariant.
LEMMA NextInv == IInv /\ [Next]_vars => IInv'
BY NextShape, KeepsInv, AddsInv, RemovesInv, OpensInv, ClosesInv

\* Each kind of step is one of TrackOrder, or changes none of its lists.
LEMMA NextImplements == IInv /\ [Next]_vars => [TrackLists!Next]_TrackLists!lists
<1> SUFFICES ASSUME IInv, [Next]_vars PROVE [TrackLists!Next]_TrackLists!lists
  OBVIOUS
<1>1. CASE Keeps
  BY <1>1 DEF Keeps, TrackLists!lists
<1>2. CASE Adds
  <2> DEFINE c == Len(channels) + 1
  <2>1. c \in 2..MaxChannels
    BY <1>2, KnownChannel, MixerAssumption DEF Adds, IInv, ChordStays
  <2>2. ArrayContains(tracks, Chord)
    BY <1>2 DEF Adds, IInv, ChordStays
  <2>3. ~ArrayContains(order, c)
    <3>1. order \in Seq(2..Len(channels)) /\ Len(channels) \in Nat
      BY KnownChannel DEF IInv, ChannelsKnown
    <3>2. QED
      BY <3>1 DEF ArrayContains, Elements
  <2>4. order' = ArrayAppend(order, c) /\ tracks' = ArrayAppend(tracks, c)
    BY <1>2 DEF Adds
  <2> HIDE DEF c
  <2>5. TrackLists!Add(c)
    BY <2>2, <2>3, <2>4, SameArrays DEF TrackLists!Add
  <2>6. QED
    BY <2>1, <2>5 DEF TrackLists!Next
<1>3. ASSUME NEW track \in 1..Len(channels), Removes(track)
      PROVE  [TrackLists!Next]_TrackLists!lists
  <2>1. TrackLists!Remove(track)
    BY <1>3, SameArrays DEF Removes, TrackLists!Remove
  <2>2. track \in (2..MaxChannels) \cup {Master}
    BY KnownChannel, MixerAssumption DEF IInv, ChannelsKnown, Master
  <2>3. QED
    BY <2>1, <2>2 DEF TrackLists!Next
<1>4. CASE Opens
  <2>1. order = <<>>
    BY <1>4, ClosedIsEmpty DEF Opens
  <2>2. <<Master, Chord>> \o order = <<Master, Chord>>
    BY <2>1
  <2>3. TrackLists!Open
    BY <1>4, <2>1, <2>2 DEF Opens, TrackLists!Open
  <2>4. QED
    BY <2>3 DEF TrackLists!Next
<1>5. CASE Closes
  BY <1>5 DEF Closes, TrackLists!Close, TrackLists!Next
<1>6. QED
  BY <1>1, <1>2, <1>3, <1>4, <1>5, NextShape
-----------------------------------------------------------------------------
\* Channels, tracks and what is being deleted are known to the project, the chord track
\* stays, and the names of the channels of the mixer differ, whatever the user does.
LEMMA ProjectInvariant == Spec => []IInv
BY InitInv, NextInv, PTL DEF Spec

\* The whole program, from one start to the next, changes the mixer and the tracklist
\* only as TrackOrder says: a channel comes to both at their ends, leaves both, and its
\* number is new (mixer_add_channel, tracklist_append_track, on_delete_tracks).
THEOREM KeepsTrackOrderCorrect == Spec => KeepsTrackOrder
<1>1. Init => TrackLists!Init
  BY DEF Init, TrackLists!Init
<1>2. QED
  BY <1>1, NextImplements, ProjectInvariant, PTL DEF Spec, KeepsTrackOrder, TrackLists!Spec

\* Behind the master and the chord track the tracklist shows the channels of the mixer,
\* in the order of the mixer, whatever is added, dropped and deleted (mixer.c: "Channel
\* order in the mixer is reflected in the track list").
THEOREM TracksFollowMixer == Spec => []TrackLists!InMixerOrder
<1>1. ListsInv => TrackLists!InMixerOrder
  BY SameOrder DEF ListsInv
<1>2. TrackLists!Spec => []TrackLists!InMixerOrder
  BY InitOrder, NextOrder, <1>1, PTL DEF TrackLists!Spec
<1>3. QED
  BY <1>2, KeepsTrackOrderCorrect, PTL DEF KeepsTrackOrder

\* No save writes the states of two plugins into one directory: the channels it writes
\* have different names, because mixer_add_channel numbers them apart and nothing
\* renames them (project_save, channel_create).
THEOREM OwnStateDirCorrect == Spec => []OwnStateDir
<1>1. ASSUME IInv PROVE OwnStateDir
  <2> SUFFICES ASSUME NEW a \in SavedPlugins, NEW b \in SavedPlugins, StateDir(a) = StateDir(b)
               PROVE  a = b
    BY DEF OwnStateDir
  <2>1. a \in Elements(order) \X Slots /\ b \in Elements(order) \X Slots
    BY DEF SavedPlugins
  <2>2. channels[a[1]].name = channels[b[1]].name /\ a[2] = b[2]
    BY DEF StateDir
  <2>3. a[1] = b[1]
    BY <1>1, <2>1, <2>2 DEF IInv, NamesDiffer
  <2>4. QED
    BY <2>1, <2>2, <2>3
<1>2. QED
  BY <1>1, ProjectInvariant, PTL
-----------------------------------------------------------------------------
(***************************************************************************)
(* What the connections of a channel lead to.                              *)
(***************************************************************************)
\* A sequence of sequences, one behind the other.
LEMMA FlatElements ==
  ASSUME NEW T, NEW seqs \in Seq(Seq(T))
  PROVE  /\ FlattenSeq(seqs) \in Seq(T)
         /\ Elements(FlattenSeq(seqs)) = UNION {Elements(seqs[n]) : n \in DOMAIN seqs}
         /\ ((\A n \in DOMAIN seqs : Distinct(seqs[n]))
              /\ \A m, n \in DOMAIN seqs : m # n => Elements(seqs[m]) \cap Elements(seqs[n]) = {})
            => Distinct(FlattenSeq(seqs))
<1> DEFINE N == Len(seqs)
           Q == Seq(T)
           After(n, before) == before \o seqs[n]
           G == [p \in (1..N) \X Q |-> After(p[1], p[2])]
           none == <<>>
           Rec(f) == f = [i \in 1..N |-> IF i = 1 THEN seqs[i] ELSE f[i - 1] \o seqs[i]]
<1>1. /\ N \in Nat /\ none \in Q /\ (\A n \in 1..N : seqs[n] \in Seq(T)) /\ DOMAIN seqs = 1..N
      /\ \A n \in 1..N : <<>> \o seqs[n] = seqs[n]
  OBVIOUS
<1>2. \A n \in 1..N, before \in Q : After(n, before) \in Q
  <2>1. \A before, more \in Seq(T) : before \o more \in Seq(T)
    OBVIOUS
  <2>2. QED
    BY <2>1, <1>1
<1>3. CASE N = 0
  <2>1. FlattenSeq(seqs) = <<>> /\ DOMAIN seqs = {} /\ Elements(<<>>) = {} /\ Distinct(<<>>)
    BY <1>1, <1>3 DEF FlattenSeq, Elements, Distinct
  <2>2. QED
    BY <2>1
<1>4. CASE N # 0
  <2> HIDE DEF After, Rec
  <2>1. G \in [(1..N) \X Q -> Q]
    BY <1>2
  <2>2. \A n \in 1..N, before \in Q : G[<<n, before>>] = After(n, before)
    OBVIOUS
  <2> HIDE DEF G, N, Q, none
  <2>3. PICK f \in [0..N -> Q] : GoesOn(f, N, none, G)
    BY <1>1, <2>1, RecursionExists
  <2>4. \A n \in 1..N : n \in 0..N /\ n # 0 /\ n - 1 \in 0..N /\ (n # 1 => n - 1 \in 1..N)
    BY <1>1
  <2>5. \A n \in 1..N : f[n] = f[n - 1] \o seqs[n]
    BY <2>2, <2>3, <2>4 DEF GoesOn, After
  <2>6. f[0] = <<>>
    BY <2>3 DEF GoesOn, none
  <2>7. \A n \in 1..N : f[n] = IF n = 1 THEN seqs[n] ELSE f[n - 1] \o seqs[n]
    <3> SUFFICES ASSUME NEW n \in 1..N
                 PROVE  f[n] = IF n = 1 THEN seqs[n] ELSE f[n - 1] \o seqs[n]
      OBVIOUS
    <3>1. CASE n = 1
      <4>1. n - 1 = 0
        BY <3>1
      <4>2. QED
        BY <4>1, <3>1, <2>5, <2>6, <1>1
    <3>2. CASE n # 1
      BY <3>2, <2>5
    <3>3. QED
      BY <3>1, <3>2
  <2> DEFINE g == [n \in 1..N |-> f[n]]
  <2>8. Rec(g)
    <3>1. \A n \in 1..N : g[n] = IF n = 1 THEN seqs[n] ELSE g[n - 1] \o seqs[n]
      BY <2>4, <2>7
    <3>2. g = [n \in 1..N |-> g[n]]
      OBVIOUS
    <3> HIDE DEF g
    <3>3. QED
      BY <3>1, <3>2 DEF Rec
  <2> DEFINE flatten == CHOOSE h : Rec(h)
  <2>9. Rec(flatten)
    <3> HIDE DEF g
    <3>1. QED
      BY <2>8
  <2>10. FlattenSeq(seqs) = flatten[N]
    BY <1>4 DEF FlattenSeq, flatten, N, Rec
  <2> HIDE DEF flatten, g
  <2>11. \A n \in 1..N : flatten[n] = IF n = 1 THEN seqs[n] ELSE flatten[n - 1] \o seqs[n]
    BY <2>9 DEF Rec
  <2> DEFINE longer == [n \in 0..N |-> IF n = 0 THEN <<>> ELSE flatten[n]]
  <2>12. Alike(longer, f, N)
    <3>1. longer[0] = f[0]
      BY <2>6, <1>1
    <3>2. ASSUME NEW n \in 1..N, longer[n - 1] = f[n - 1] PROVE longer[n] = f[n]
      <4>1. longer[n] = flatten[n]
        BY <2>4
      <4>2. CASE n = 1
        BY <4>1, <4>2, <2>7, <2>11
      <4>3. CASE n # 1
        <5>1. longer[n - 1] = flatten[n - 1]
          BY <4>3, <2>4
        <5>2. QED
          BY <5>1, <4>1, <4>3, <3>2, <2>7, <2>11
      <4>4. QED
        BY <4>2, <4>3
    <3> HIDE DEF longer
    <3>3. QED
      BY <3>1, <3>2 DEF Alike
  <2>13. flatten[N] = f[N] /\ f[N] \in Q
    <3>1. longer[N] = flatten[N] /\ N \in 0..N
      BY <1>1, <1>4
    <3> HIDE DEF longer
    <3>2. longer[N] = f[N]
      BY <3>1, <1>1, <2>12, RecursionUnique
    <3>3. QED
      BY <3>1, <3>2
  <2> DEFINE Seen(n) == UNION {Elements(seqs[m]) : m \in 1..n}
             Apart == /\ \A m \in 1..N : Distinct(seqs[m])
                      /\ \A m, n \in 1..N : m # n => Elements(seqs[m]) \cap Elements(seqs[n]) = {}
             Right(n) == Elements(f[n]) = Seen(n) /\ (Apart => Distinct(f[n]))
             Wrong == {n \in 0..N : ~Right(n)}
  <2>14. Right(0)
    <3>1. Elements(<<>>) = {} /\ Distinct(<<>>) /\ 1..0 = {}
      BY DEF Elements, Distinct
    <3>2. QED
      BY <3>1, <2>6
  <2>15. ASSUME NEW n \in 1..N, Right(n - 1)
         PROVE  Right(n)
    <3>1. /\ n \in 0..N /\ n - 1 \in 0..N /\ 1..n = 1..(n - 1) \cup {n} /\ n \notin 1..(n - 1)
          /\ 1..(n - 1) \subseteq 1..N
      BY <1>1
    <3>2. f[n - 1] \in Seq(T) /\ seqs[n] \in Seq(T) /\ f[n] = f[n - 1] \o seqs[n]
      BY <1>1, <2>3, <2>5, <3>1 DEF Q
    <3>3. Seen(n) = Seen(n - 1) \cup Elements(seqs[n])
      BY <3>1
    <3>4. Elements(f[n]) = Seen(n)
      <4>1. Elements(f[n]) = Elements(f[n - 1]) \cup Elements(seqs[n])
        BY <3>2, JoinedElements
      <4>2. QED
        BY <4>1, <3>3, <2>15
    <3>5. ASSUME Apart PROVE Distinct(f[n])
      <4>1. Elements(f[n - 1]) \cap Elements(seqs[n]) = {}
        <5>1. \A m \in 1..(n - 1) : Elements(seqs[m]) \cap Elements(seqs[n]) = {}
          BY <3>1, <3>5
        <5>2. Seen(n - 1) \cap Elements(seqs[n]) = {}
          BY <5>1
        <5>3. QED
          BY <5>2, <2>15
      <4>2. Distinct(f[n - 1]) /\ Distinct(seqs[n])
        BY <2>15, <3>5
      <4>3. QED
        BY <4>1, <4>2, <3>2, JoinedElements
    <3>6. QED
      BY <3>4, <3>5
  <2> HIDE DEF Right
  <2>16. \A n \in 1..N : n \in Wrong => n - 1 \in Wrong
    BY <2>4, <2>15
  <2>17. 0 \notin Wrong /\ Wrong \subseteq 0..N
    BY <2>14
  <2> HIDE DEF Wrong
  <2>18. \A n \in 0..N : n \notin Wrong
    BY <1>1, <2>16, <2>17, NeverFails
  <2>19. Right(N)
    BY <1>1, <2>18 DEF Wrong
  <2>20. QED
    BY <1>1, <2>10, <2>13, <2>19 DEF Right, Q
<1>5. QED
  BY <1>3, <1>4

\* A port, and a connection of two.
PortKind == {"jack", "in", "out", "midi", "roll", "plugin in", "plugin out"}
AnyPort == PortKind \X Nat \X Nat \X PortType
AnyWire == AnyPort \X AnyPort

\* Deleting one element leaves every other (array_delete of arrays.c).
LEMMA DeleteLeaves ==
  ASSUME NEW T, NEW array \in Seq(T), NEW element
  PROVE  Elements(array) \ {element} \subseteq Elements(ArrayDelete(array, element))
<1>1. CASE ~ArrayContains(array, element)
  BY <1>1 DEF ArrayDelete
<1>2. CASE ArrayContains(array, element)
  <2> DEFINE p == ArrayIndexOf(array, element)
             rest == ArrayRemoveAt(array, p)
  <2>1. p \in 1..Len(array) /\ array[p] = element
    BY <1>2, IndexOfFirst
  <2>2. /\ DOMAIN rest = 1..(Len(array) - 1)
        /\ \A n \in 1..(Len(array) - 1) : rest[n] = IF n < p THEN array[n] ELSE array[n + 1]
    BY DEF ArrayRemoveAt
  <2>3. Len(array) \in Nat /\ DOMAIN array = 1..Len(array)
    OBVIOUS
  <2>4. ArrayDelete(array, element) = rest
    BY <1>2 DEF ArrayDelete
  <2> HIDE DEF p, rest
  <2>5. ASSUME NEW n \in 1..Len(array), array[n] # element
        PROVE  array[n] \in Elements(rest)
    <3>1. n # p
      BY <2>1, <2>5
    <3>2. CASE n < p
      <4>1. n \in 1..(Len(array) - 1) /\ rest[n] = array[n]
        BY <3>2, <2>1, <2>2, <2>3
      <4>2. QED
        BY <4>1, <2>2 DEF Elements
    <3>3. CASE n > p
      <4>1. n - 1 \in 1..(Len(array) - 1) /\ ~(n - 1 < p) /\ (n - 1) + 1 = n
        BY <3>3, <2>1, <2>3
      <4>2. rest[n - 1] = array[n]
        BY <4>1, <2>2
      <4>3. QED
        BY <4>1, <4>2, <2>2 DEF Elements
    <3>4. QED
      BY <3>1, <3>2, <3>3, <2>1
  <2>6. QED
    BY <2>3, <2>4, <2>5 DEF Elements
<1>3. QED
  BY <1>1, <1>2

\* port_connect: between two ports of one type, a connection is added and none is lost.
LEMMA Connected ==
  ASSUME NEW ws \in Seq(AnyWire), NEW wire \in AnyWire, wire[1][4] = wire[2][4]
  PROVE  /\ Connect(ws, wire) \in Seq(AnyWire)
         /\ Elements(Connect(ws, wire)) = Elements(ws) \cup {wire}
<1> DEFINE rest == ArrayDelete(ws, wire)
<1>1. rest \in Seq(AnyWire) /\ Elements(rest) \subseteq Elements(ws)
  BY DeleteShrinks
<1>2. Elements(ws) \ {wire} \subseteq Elements(rest)
  BY DeleteLeaves
<1>3. Connect(ws, wire) = ArrayAppend(rest, wire)
  BY DEF Connect
<1> HIDE DEF rest
<1>4. /\ ArrayAppend(rest, wire) \in Seq(AnyWire)
      /\ Elements(ArrayAppend(rest, wire)) = Elements(rest) \cup {wire}
  BY <1>1, AppendAdds
<1>5. Elements(rest) \cup {wire} = Elements(ws) \cup {wire}
  BY <1>1, <1>2
<1>6. QED
  BY <1>3, <1>4, <1>5

\* Connections between ports of one type.
OneType(new) == \A wire \in Elements(new) : wire[1][4] = wire[2][4]

\* One port_connect after the other adds all of them.
LEMMA AllConnected ==
  ASSUME NEW ws \in Seq(AnyWire), NEW new \in Seq(AnyWire), OneType(new)
  PROVE  /\ ConnectAll(ws, new) \in Seq(AnyWire)
         /\ Elements(ConnectAll(ws, new)) = Elements(ws) \cup Elements(new)
<1> DEFINE N == Len(new)
           Q == Seq(AnyWire)
           After(n, before) == Connect(before, new[n])
           G == [p \in (1..N) \X Q |-> After(p[1], p[2])]
           Rec(f) == f = [n \in 0..N |-> IF n = 0 THEN ws ELSE After(n, f[n - 1])]
<1>1. /\ N \in Nat /\ ws \in Q /\ DOMAIN new = 1..N
      /\ \A n \in 1..N : new[n] \in AnyWire /\ new[n][1][4] = new[n][2][4]
  BY DEF OneType, Elements
<1>2. \A n \in 1..N, before \in Q : After(n, before) \in Q
  BY <1>1, Connected
<1> HIDE DEF After, Rec
<1>3. G \in [(1..N) \X Q -> Q]
  BY <1>2
<1>4. \A n \in 1..N, before \in Q : G[<<n, before>>] = After(n, before)
  OBVIOUS
<1> HIDE DEF G, N, Q
<1>5. PICK f \in [0..N -> Q] : GoesOn(f, N, ws, G)
  BY <1>1, <1>3, RecursionExists
<1>6. \A n \in 1..N : n \in 0..N /\ n # 0 /\ n - 1 \in 0..N
  BY <1>1
<1>7. \A n \in 1..N : f[n] = After(n, f[n - 1])
  BY <1>4, <1>5, <1>6 DEF GoesOn
<1>8. \A n \in 0..N : f[n] = IF n = 0 THEN ws ELSE After(n, f[n - 1])
  BY <1>1, <1>5, <1>7 DEF GoesOn
<1>9. Rec(f)
  <2>1. f = [n \in 0..N |-> f[n]]
    OBVIOUS
  <2>2. QED
    BY <2>1, <1>8 DEF Rec
<1> DEFINE made == CHOOSE g : Rec(g)
<1>10. Rec(made)
  BY <1>9
<1>11. ConnectAll(ws, new) = made[N]
  BY DEF ConnectAll, made, N, After, Rec
<1> HIDE DEF made
<1>12. \A n \in 0..N : made[n] = IF n = 0 THEN ws ELSE After(n, made[n - 1])
  BY <1>10 DEF Rec
<1>13. Alike(made, f, N)
  BY <1>1, <1>5, <1>6, <1>7, <1>12 DEF Alike, GoesOn
<1>14. made[N] = f[N] /\ f[N] \in Q
  BY <1>1, <1>13, RecursionUnique
<1> DEFINE Went(n) == {new[m] : m \in 1..n}
           Right(n) == Elements(f[n]) = Elements(ws) \cup Went(n)
           Wrong == {n \in 0..N : ~Right(n)}
<1>15. Right(0)
  <2>1. f[0] = ws /\ 1..0 = {}
    BY <1>5 DEF GoesOn
  <2>2. QED
    BY <2>1
<1>16. ASSUME NEW n \in 1..N, Right(n - 1)
       PROVE  Right(n)
  <2>1. n \in 0..N /\ n - 1 \in 0..N /\ 1..n = 1..(n - 1) \cup {n}
    BY <1>1
  <2>2. f[n - 1] \in Seq(AnyWire) /\ f[n] = Connect(f[n - 1], new[n])
    BY <1>5, <1>7, <2>1 DEF Q, After
  <2>3. Went(n) = Went(n - 1) \cup {new[n]}
    BY <2>1
  <2>4. Elements(f[n]) = Elements(f[n - 1]) \cup {new[n]}
    <3>1. Elements(Connect(f[n - 1], new[n])) = Elements(f[n - 1]) \cup {new[n]}
      BY <1>1, <2>2, Connected
    <3>2. QED
      BY <3>1, <2>2
  <2>5. QED
    BY <2>3, <2>4, <1>16
<1> HIDE DEF Right
<1>17. \A n \in 1..N : n \in Wrong => n - 1 \in Wrong
  BY <1>6, <1>16
<1>18. 0 \notin Wrong /\ Wrong \subseteq 0..N
  BY <1>15
<1> HIDE DEF Wrong
<1>19. \A n \in 0..N : n \notin Wrong
  BY <1>1, <1>17, <1>18, NeverFails
<1>20. Right(N)
  BY <1>1, <1>19 DEF Wrong
<1>21. Went(N) = Elements(new)
  BY <1>1 DEF Elements
<1>22. QED
  BY <1>11, <1>14, <1>20, <1>21 DEF Right, Q

\* The ports of a type.
LEMMA OfTypeElements ==
  ASSUME NEW ports \in Seq(AnyPort), NEW type
  PROVE  /\ OfType(ports, type) \in Seq(AnyPort)
         /\ Elements(OfType(ports, type)) = {port \in Elements(ports) : port[4] = type}
         /\ OfType(ports, type) = <<>> <=> \A port \in Elements(ports) : port[4] # type
         /\ OfType(ports, type) # <<>> => /\ 1 \in DOMAIN OfType(ports, type)
                                          /\ OfType(ports, type)[1] \in Elements(OfType(ports, type))
<1> DEFINE picked == OfType(ports, type)
           S == {port \in Elements(ports) : port[4] = type}
<1>1. picked \in Seq(AnyPort) /\ Elements(picked) = Elements(ports) \cap S
  BY PickedElements DEF OfType
<1>2. Elements(ports) \cap S = S
  OBVIOUS
<1> HIDE DEF picked
<1>3. /\ picked = <<>> => Elements(picked) = {}
      /\ picked # <<>> => 1 \in DOMAIN picked
  BY <1>1 DEF Elements
<1>4. 1 \in DOMAIN picked => picked[1] \in Elements(picked)
  BY DEF Elements
<1>5. picked = <<>> <=> \A port \in Elements(ports) : port[4] # type
  BY <1>1, <1>2, <1>3, <1>4
<1>6. QED
  BY <1>1, <1>2, <1>3, <1>4, <1>5 DEF picked

\* Where every connection that ends in none of the touched ports is still there.
Spares(old, new, touched) ==
  \A wire \in Elements(old) : wire[1] \notin touched /\ wire[2] \notin touched => wire \in Elements(new)

\* The places of an array that are in a set, and what is there.
LEMMA AtPicked ==
  ASSUME NEW T, NEW array \in Seq(T), NEW K
  PROVE  \A kept, rest :
           /\ kept = Picked([n \in DOMAIN array |-> n], K)
           /\ rest = [m \in DOMAIN kept |-> array[kept[m]]]
           => /\ rest \in Seq(T) /\ DOMAIN rest = DOMAIN kept
              /\ kept \in Seq(DOMAIN array) /\ Distinct(kept) /\ Elements(kept) = DOMAIN array \cap K
              /\ \A n \in DOMAIN array \cap K : array[n] \in Elements(rest)
<1> SUFFICES ASSUME NEW kept, kept = Picked([n \in DOMAIN array |-> n], K),
                    NEW rest, rest = [m \in DOMAIN kept |-> array[kept[m]]]
             PROVE  /\ rest \in Seq(T) /\ DOMAIN rest = DOMAIN kept
                    /\ kept \in Seq(DOMAIN array) /\ Distinct(kept)
                    /\ Elements(kept) = DOMAIN array \cap K
                    /\ \A n \in DOMAIN array \cap K : array[n] \in Elements(rest)
  OBVIOUS
<1> DEFINE places == [n \in DOMAIN array |-> n]
<1>1. DOMAIN array = 1..Len(array) /\ Len(array) \in Nat
  OBVIOUS
<1>2. places \in Seq(DOMAIN array) /\ Elements(places) = DOMAIN array /\ Distinct(places)
  BY <1>1 DEF Elements, Distinct
<1> HIDE DEF places
<1>3. kept \in Seq(DOMAIN array) /\ Distinct(kept) /\ Elements(kept) = DOMAIN array \cap K
  <2>1. kept = Picked(places, K)
    BY DEF places
  <2>2. /\ Picked(places, K) \in Seq(DOMAIN array) /\ Distinct(Picked(places, K))
        /\ Elements(Picked(places, K)) = DOMAIN array \cap K
    BY <1>2, PickedElements
  <2>3. QED
    BY <2>1, <2>2
<1>4. \A m \in DOMAIN kept : kept[m] \in DOMAIN array /\ array[kept[m]] \in T
  BY <1>3
<1>5. rest \in Seq(T)
  <2>1. DOMAIN kept = 1..Len(kept) /\ Len(kept) \in Nat
    BY <1>3
  <2>2. \A m \in 1..Len(kept) : array[kept[m]] \in T
    BY <1>4, <2>1
  <2>3. rest = [m \in 1..Len(kept) |-> array[kept[m]]]
    BY <2>1
  <2>4. QED
    BY <2>1, <2>2, <2>3
<1>6. \A n \in DOMAIN array \cap K : array[n] \in Elements(rest)
  <2> TAKE n \in DOMAIN array \cap K
  <2>1. PICK m \in DOMAIN kept : kept[m] = n
    BY <1>3 DEF Elements
  <2>2. m \in DOMAIN rest /\ rest[m] = array[n]
    BY <2>1
  <2>3. QED
    BY <2>2 DEF Elements
<1>7. QED
  BY <1>3, <1>5, <1>6

\* A loop that disconnects at one end loses connections of that end only, and adds none.
LEMMA Looped ==
  ASSUME NEW ws \in Seq(AnyWire), NEW end \in {1, 2}, NEW port
  PROVE  Loop(ws, end, port) \in Seq(AnyWire) /\ Spares(ws, Loop(ws, end, port), {port})
<1> DEFINE Nth(n) == Cardinality({m \in 1..n : ws[m][end] = port})
           K == {n \in DOMAIN ws : ws[n][end] # port \/ Nth(n) % 2 = 0}
           kept == Picked([n \in DOMAIN ws |-> n], K)
           rest == [m \in DOMAIN kept |-> ws[kept[m]]]
<1>1. \A n \in DOMAIN ws : ws[n][end] # port => n \in DOMAIN ws \cap K
  OBVIOUS
<1>2. Loop(ws, end, port) = rest
  BY DEF Loop
<1> HIDE DEF K, kept, rest
<1>3. kept = Picked([n \in DOMAIN ws |-> n], K) /\ rest = [m \in DOMAIN kept |-> ws[kept[m]]]
  BY DEF kept, rest
<1>4. rest \in Seq(AnyWire) /\ \A n \in DOMAIN ws \cap K : ws[n] \in Elements(rest)
  <2>1. \A k, r :
           /\ k = Picked([n \in DOMAIN ws |-> n], K)
           /\ r = [m \in DOMAIN k |-> ws[k[m]]]
           => /\ r \in Seq(AnyWire) /\ DOMAIN r = DOMAIN k
              /\ k \in Seq(DOMAIN ws) /\ Distinct(k) /\ Elements(k) = DOMAIN ws \cap K
              /\ \A n \in DOMAIN ws \cap K : ws[n] \in Elements(r)
    BY AtPicked
  <2>2. QED
    BY <1>3, <2>1
<1>5. \A n \in DOMAIN ws : ws[n][1] # port /\ ws[n][2] # port => ws[n] \in Elements(rest)
  BY <1>1, <1>4
<1>6. QED
  BY <1>2, <1>4, <1>5 DEF Spares, Elements

\* port_disconnect_all
LEMMA Disconnected ==
  ASSUME NEW ws \in Seq(AnyWire), NEW port
  PROVE  DisconnectAll(ws, port) \in Seq(AnyWire) /\ Spares(ws, DisconnectAll(ws, port), {port})
<1> DEFINE srcs == Loop(ws, 2, port)
<1>1. srcs \in Seq(AnyWire) /\ Spares(ws, srcs, {port})
  BY Looped
<1>2. DisconnectAll(ws, port) = Loop(srcs, 1, port)
  BY DEF DisconnectAll
<1> HIDE DEF srcs
<1>3. Loop(srcs, 1, port) \in Seq(AnyWire) /\ Spares(srcs, Loop(srcs, 1, port), {port})
  BY <1>1, Looped
<1>4. QED
  BY <1>1, <1>2, <1>3 DEF Spares

\* clean_ports and port_free
LEMMA Freed ==
  ASSUME NEW ws \in Seq(AnyWire), NEW port
  PROVE  PortFree(ws, port) \in Seq(AnyWire) /\ Spares(ws, PortFree(ws, port), {port})
<1> DEFINE cleaned == Cleaned(ws, port)
<1>1. cleaned \in Seq(AnyWire) /\ Spares(ws, cleaned, {port})
  <2>1. cleaned \in {Loop(ws, 2, port), Loop(ws, 1, port), ws}
    BY DEF Cleaned
  <2>2. Spares(ws, ws, {port})
    BY DEF Spares
  <2> HIDE DEF cleaned
  <2>3. CASE cleaned = ws
    BY <2>2, <2>3
  <2>4. CASE cleaned = Loop(ws, 2, port)
    BY <2>4, Looped
  <2>5. CASE cleaned = Loop(ws, 1, port)
    BY <2>5, Looped
  <2>6. QED
    BY <2>1, <2>3, <2>4, <2>5
<1>2. PortFree(ws, port) = DisconnectAll(cleaned, port)
  BY DEF PortFree
<1> HIDE DEF cleaned
<1>3. /\ DisconnectAll(cleaned, port) \in Seq(AnyWire)
      /\ Spares(cleaned, DisconnectAll(cleaned, port), {port})
  BY <1>1, Disconnected
<1>4. QED
  BY <1>1, <1>2, <1>3 DEF Spares

\* One port_free after the other takes only connections of these ports.
LEMMA AllFreed ==
  ASSUME NEW ws \in Seq(AnyWire), NEW T, NEW ports \in Seq(T)
  PROVE  /\ PortsFree(ws, ports) \in Seq(AnyWire)
         /\ Spares(ws, PortsFree(ws, ports), Elements(ports))
<1> DEFINE N == Len(ports)
           Q == Seq(AnyWire)
           After(n, before) == PortFree(before, ports[n])
           G == [p \in (1..N) \X Q |-> After(p[1], p[2])]
           Rec(f) == f = [n \in 0..N |-> IF n = 0 THEN ws ELSE After(n, f[n - 1])]
<1>1. N \in Nat /\ ws \in Q /\ DOMAIN ports = 1..N
  OBVIOUS
<1>2. \A n \in 1..N, before \in Q : After(n, before) \in Q
  BY <1>1, Freed
<1> HIDE DEF After, Rec
<1>3. G \in [(1..N) \X Q -> Q]
  BY <1>2
<1>4. \A n \in 1..N, before \in Q : G[<<n, before>>] = After(n, before)
  OBVIOUS
<1> HIDE DEF G, N, Q
<1>5. PICK f \in [0..N -> Q] : GoesOn(f, N, ws, G)
  BY <1>1, <1>3, RecursionExists
<1>6. \A n \in 1..N : n \in 0..N /\ n # 0 /\ n - 1 \in 0..N
  BY <1>1
<1>7. \A n \in 1..N : f[n] = After(n, f[n - 1])
  BY <1>4, <1>5, <1>6 DEF GoesOn
<1>8. \A n \in 0..N : f[n] = IF n = 0 THEN ws ELSE After(n, f[n - 1])
  BY <1>1, <1>5, <1>7 DEF GoesOn
<1>9. Rec(f)
  <2>1. f = [n \in 0..N |-> f[n]]
    OBVIOUS
  <2>2. QED
    BY <2>1, <1>8 DEF Rec
<1> DEFINE freed == CHOOSE g : Rec(g)
<1>10. Rec(freed)
  BY <1>9
<1>11. PortsFree(ws, ports) = freed[N]
  BY DEF PortsFree, freed, N, After, Rec
<1> HIDE DEF freed
<1>12. \A n \in 0..N : freed[n] = IF n = 0 THEN ws ELSE After(n, freed[n - 1])
  BY <1>10 DEF Rec
<1>13. Alike(freed, f, N)
  BY <1>1, <1>5, <1>6, <1>7, <1>12 DEF Alike, GoesOn
<1>14. freed[N] = f[N] /\ f[N] \in Q
  BY <1>1, <1>13, RecursionUnique
<1> DEFINE Right(n) == Spares(ws, f[n], Elements(ports))
           Wrong == {n \in 0..N : ~Right(n)}
<1>15. Right(0)
  BY <1>5 DEF GoesOn, Spares
<1>16. ASSUME NEW n \in 1..N, Right(n - 1)
       PROVE  Right(n)
  <2>1. f[n - 1] \in Seq(AnyWire) /\ f[n] = PortFree(f[n - 1], ports[n])
    BY <1>5, <1>6, <1>7 DEF Q, After
  <2>2. Spares(f[n - 1], PortFree(f[n - 1], ports[n]), {ports[n]})
    BY <2>1, Freed
  <2>3. ports[n] \in Elements(ports)
    BY <1>1 DEF Elements
  <2>4. QED
    BY <2>1, <2>2, <2>3, <1>16 DEF Spares
<1> HIDE DEF Right
<1>17. \A n \in 1..N : n \in Wrong => n - 1 \in Wrong
  BY <1>6, <1>16
<1>18. 0 \notin Wrong /\ Wrong \subseteq 0..N
  BY <1>15
<1> HIDE DEF Wrong
<1>19. \A n \in 0..N : n \notin Wrong
  BY <1>1, <1>17, <1>18, NeverFails
<1>20. Right(N)
  BY <1>1, <1>19 DEF Wrong
<1>21. QED
  BY <1>11, <1>14, <1>20 DEF Right, Q

\* The ports of a plugin, and those of a channel that a plugin can play into.
PlugPort(p) == {port \in AnyPort : port[1] \in {"plugin in", "plugin out"} /\ port[2] = p}
StereoOuts(c) == {StereoOut(c, 0), StereoOut(c, 1)}
StereoIns(c) == {StereoIn(c, 0), StereoIn(c, 1)}

\* The ports of a channel are ports.
LEMMA ChannelPortTypes ==
  ASSUME NEW c \in Nat
  PROVE  /\ StereoIn(c, 0) \in AnyPort /\ StereoIn(c, 1) \in AnyPort
         /\ StereoOut(c, 0) \in AnyPort /\ StereoOut(c, 1) \in AnyPort
         /\ MidiIn(c) \in AnyPort /\ PianoRoll(c) \in AnyPort /\ Jack \in AnyPort
BY DEF AnyPort, PortKind, PortType, StereoIn, StereoOut, MidiIn, PianoRoll, Jack

\* So are the ports of a plugin.
LEMMA PluginPortTypes ==
  ASSUME NEW p \in Nat, NEW d \in DOMAIN Descriptors
  PROVE  /\ InPorts(p, d) \in Seq(AnyPort) /\ Elements(InPorts(p, d)) \subseteq PlugPort(p)
         /\ OutPorts(p, d) \in Seq(AnyPort) /\ Elements(OutPorts(p, d)) \subseteq PlugPort(p)
<1> DEFINE ins == Descriptors[d].ins
           outs == Descriptors[d].outs
<1>1. ins \in Seq(PortType) /\ outs \in Seq(PortType)
  BY StripAssumption
<1> HIDE DEF ins, outs
<1>2. /\ DOMAIN ins = 1..Len(ins) /\ Len(ins) \in Nat /\ \A k \in DOMAIN ins : ins[k] \in PortType
      /\ DOMAIN outs = 1..Len(outs) /\ Len(outs) \in Nat /\ \A k \in DOMAIN outs : outs[k] \in PortType
  BY <1>1
<1>3. \A k \in DOMAIN ins : <<"plugin in", p, k, ins[k]>> \in PlugPort(p)
  <2> TAKE k \in DOMAIN ins
  <2>1. k \in Nat /\ ins[k] \in PortType
    BY <1>2
  <2>2. <<"plugin in", p, k, ins[k]>> \in AnyPort
    BY <2>1 DEF AnyPort, PortKind
  <2>3. QED
    BY <2>2 DEF PlugPort
<1>4. \A k \in DOMAIN outs : <<"plugin out", p, k, outs[k]>> \in PlugPort(p)
  <2> TAKE k \in DOMAIN outs
  <2>1. k \in Nat /\ outs[k] \in PortType
    BY <1>2
  <2>2. <<"plugin out", p, k, outs[k]>> \in AnyPort
    BY <2>1 DEF AnyPort, PortKind
  <2>3. QED
    BY <2>2 DEF PlugPort
<1>5. PlugPort(p) \subseteq AnyPort
  BY DEF PlugPort
<1>6. InPorts(p, d) = [k \in DOMAIN ins |-> <<"plugin in", p, k, ins[k]>>]
  BY DEF InPorts, ins
<1>7. OutPorts(p, d) = [k \in DOMAIN outs |-> <<"plugin out", p, k, outs[k]>>]
  BY DEF OutPorts, outs
<1> HIDE DEF PlugPort
<1>8. InPorts(p, d) \in Seq(AnyPort) /\ Elements(InPorts(p, d)) \subseteq PlugPort(p)
  <2>1. InPorts(p, d) \in [1..Len(ins) -> AnyPort]
    BY <1>2, <1>3, <1>5, <1>6
  <2>2. QED
    <3>1. InPorts(p, d) \in Seq(AnyPort)
      BY <2>1, <1>2
    <3>2. \A k \in DOMAIN ins : InPorts(p, d)[k] \in PlugPort(p)
      BY <1>3, <1>6
    <3>3. DOMAIN InPorts(p, d) = DOMAIN ins
      BY <1>6
    <3>4. QED
      BY <3>1, <3>2, <3>3 DEF Elements
<1>9. OutPorts(p, d) \in Seq(AnyPort) /\ Elements(OutPorts(p, d)) \subseteq PlugPort(p)
  <2>1. OutPorts(p, d) \in [1..Len(outs) -> AnyPort]
    BY <1>2, <1>4, <1>5, <1>7
  <2>2. QED
    <3>1. OutPorts(p, d) \in Seq(AnyPort)
      BY <2>1, <1>2
    <3>2. \A k \in DOMAIN outs : OutPorts(p, d)[k] \in PlugPort(p)
      BY <1>4, <1>7
    <3>3. DOMAIN OutPorts(p, d) = DOMAIN outs
      BY <1>7
    <3>4. QED
      BY <3>1, <3>2, <3>3 DEF Elements
<1>10. QED
  BY <1>8, <1>9

\* Ports of a plugin are no ports of a channel, and not those of another plugin.
LEMMA PortsApart ==
  ASSUME NEW p, NEW q, NEW c, NEW d
  PROVE  /\ p # q => PlugPort(p) \cap PlugPort(q) = {}
         /\ PlugPort(p) \cap Elements(ChannelPorts(c)) = {}
         /\ PlugPort(p) \cap StereoIns(c) = {} /\ PlugPort(p) \cap StereoOuts(c) = {}
         /\ StereoIns(c) \cap StereoOuts(d) = {}
         /\ c # d => StereoOuts(d) \cap Elements(ChannelPorts(c)) = {}
<1>1. Elements(ChannelPorts(c)) =
        {StereoIn(c, 0), StereoIn(c, 1), MidiIn(c), PianoRoll(c), StereoOut(c, 0), StereoOut(c, 1)}
  BY DEF Elements, ChannelPorts
<1>2. \A port \in PlugPort(p) : port[1] \in {"plugin in", "plugin out"} /\ port[2] = p
  BY DEF PlugPort
<1>3. \A port \in PlugPort(q) : port[2] = q
  BY DEF PlugPort
<1>4. /\ StereoIn(c, 0)[1] = "in" /\ StereoIn(c, 1)[1] = "in" /\ MidiIn(c)[1] = "midi"
      /\ PianoRoll(c)[1] = "roll" /\ StereoOut(c, 0)[1] = "out" /\ StereoOut(c, 1)[1] = "out"
      /\ StereoOut(d, 0)[1] = "out" /\ StereoOut(d, 1)[1] = "out"
      /\ StereoOut(c, 0)[2] = c /\ StereoOut(c, 1)[2] = c
      /\ StereoOut(d, 0)[2] = d /\ StereoOut(d, 1)[2] = d
  BY DEF StereoIn, StereoOut, MidiIn, PianoRoll
<1>5. p # q => PlugPort(p) \cap PlugPort(q) = {}
  BY <1>2, <1>3
<1>6. PlugPort(p) \cap Elements(ChannelPorts(c)) = {}
  BY <1>1, <1>2, <1>4
<1>7. PlugPort(p) \cap StereoIns(c) = {} /\ PlugPort(p) \cap StereoOuts(c) = {}
  BY <1>2, <1>4 DEF StereoIns, StereoOuts
<1>8. StereoIns(c) \cap StereoOuts(d) = {}
  BY <1>4 DEF StereoIns, StereoOuts
<1>9. c # d => StereoOuts(d) \cap Elements(ChannelPorts(c)) = {}
  BY <1>1, <1>4 DEF StereoOuts
<1>10. QED
  BY <1>5, <1>6, <1>7, <1>8, <1>9

\* Pairs of ports that meet in a connection.
LEMMA PairTypes ==
  /\ \A a, b \in AnyPort : <<a, b>> \in AnyWire
  /\ \A w \in AnyWire : w[1] \in AnyPort /\ w[2] \in AnyPort /\ w = <<w[1], w[2]>>
BY DEF AnyWire

\* The ports that meet: all are audio, and the first of ours meets all of theirs.
LEMMA MetElements ==
  ASSUME NEW ours \in Seq(AnyPort), NEW theirs \in Seq(AnyPort)
  PROVE  /\ Met(ours, theirs) \in Seq(AnyWire)
         /\ \A w \in Elements(Met(ours, theirs)) :
              w[1] \in Elements(ours) /\ w[2] \in Elements(theirs) /\ w[2][4] = "audio"
         /\ ours # <<>> => \A their \in Elements(OfType(theirs, "audio")) :
                             \E our \in Elements(ours) : <<our, their>> \in Elements(Met(ours, theirs))
<1> DEFINE left(n) == IF n = 1 \/ theirs = <<>> THEN theirs ELSE <<Last(theirs)>>
           audio(n) == OfType(left(n), "audio")
           row(n) == [m \in DOMAIN audio(n) |-> <<ours[n], audio(n)[m]>>]
           rows == [n \in DOMAIN ours |-> row(n)]
<1>1. /\ DOMAIN ours = 1..Len(ours) /\ Len(ours) \in Nat /\ DOMAIN theirs = 1..Len(theirs)
      /\ \A n \in DOMAIN ours : ours[n] \in AnyPort /\ ours[n] \in Elements(ours)
  BY DEF Elements
<1>2. \A n : left(n) \in Seq(AnyPort) /\ Elements(left(n)) \subseteq Elements(theirs)
  <2>1. ASSUME theirs # <<>>
        PROVE  <<Last(theirs)>> \in Seq(AnyPort) /\ Elements(<<Last(theirs)>>) \subseteq Elements(theirs)
    <3>1. Len(theirs) \in DOMAIN theirs /\ Last(theirs) = theirs[Len(theirs)]
      BY <2>1 DEF Last
    <3>2. Last(theirs) \in AnyPort /\ Last(theirs) \in Elements(theirs)
      BY <3>1 DEF Elements
    <3> HIDE DEF AnyPort
    <3>3. QED
      BY <3>2 DEF Elements
  <2>2. QED
    BY <2>1
<1>3. left(1) = theirs
  OBVIOUS
<1> HIDE DEF left
<1>4. \A n : /\ audio(n) \in Seq(AnyPort)
             /\ Elements(audio(n)) = {port \in Elements(left(n)) : port[4] = "audio"}
  BY <1>2, OfTypeElements
<1>5. audio(1) = OfType(theirs, "audio")
  BY <1>3
<1> HIDE DEF audio
<1>6. \A n \in DOMAIN ours : /\ row(n) \in Seq(AnyWire)
                             /\ Elements(row(n)) = {<<ours[n], port>> : port \in Elements(audio(n))}
  <2> SUFFICES ASSUME NEW n \in DOMAIN ours
               PROVE  /\ row(n) \in Seq(AnyWire)
                      /\ Elements(row(n)) = {<<ours[n], port>> : port \in Elements(audio(n))}
    OBVIOUS
  <2>1. DOMAIN audio(n) = 1..Len(audio(n)) /\ Len(audio(n)) \in Nat
        /\ \A m \in DOMAIN audio(n) : audio(n)[m] \in AnyPort
    BY <1>4
  <2>2. \A m \in DOMAIN audio(n) : <<ours[n], audio(n)[m]>> \in AnyWire
    BY <2>1, <1>1, PairTypes
  <2>3. row(n) \in [1..Len(audio(n)) -> AnyWire]
    BY <2>1, <2>2
  <2>4. Elements(row(n)) = {<<ours[n], audio(n)[m]>> : m \in DOMAIN audio(n)}
    BY DEF Elements
  <2>5. {<<ours[n], audio(n)[m]>> : m \in DOMAIN audio(n)} = {<<ours[n], port>> : port \in Elements(audio(n))}
    BY DEF Elements
  <2>6. QED
    BY <2>1, <2>3, <2>4, <2>5
<1>7. Met(ours, theirs) = FlattenSeq(rows)
  BY DEF Met, row, audio, left
<1> HIDE DEF row
<1>8. rows \in Seq(Seq(AnyWire)) /\ DOMAIN rows = DOMAIN ours /\ \A n \in DOMAIN ours : rows[n] = row(n)
  BY <1>1, <1>6
<1> HIDE DEF rows
<1>9. /\ FlattenSeq(rows) \in Seq(AnyWire)
      /\ Elements(FlattenSeq(rows)) = UNION {Elements(rows[n]) : n \in DOMAIN rows}
  BY <1>8, FlatElements
<1>10. Elements(Met(ours, theirs)) = UNION {Elements(row(n)) : n \in DOMAIN ours}
  BY <1>7, <1>8, <1>9
<1>11. ASSUME NEW w \in Elements(Met(ours, theirs))
       PROVE  w[1] \in Elements(ours) /\ w[2] \in Elements(theirs) /\ w[2][4] = "audio"
  <2>1. PICK n \in DOMAIN ours : w \in Elements(row(n))
    BY <1>10
  <2>2. PICK port \in Elements(audio(n)) : w = <<ours[n], port>>
    BY <2>1, <1>6
  <2>3. w[1] = ours[n] /\ w[2] = port
    BY <2>2
  <2>4. port \in Elements(theirs) /\ port[4] = "audio"
    BY <1>2, <1>4
  <2>5. QED
    BY <2>3, <2>4, <1>1
<1>12. ASSUME ours # <<>>, NEW their \in Elements(OfType(theirs, "audio"))
       PROVE  \E our \in Elements(ours) : <<our, their>> \in Elements(Met(ours, theirs))
  <2>1. 1 \in DOMAIN ours
    BY <1>1, <1>12
  <2>2. <<ours[1], their>> \in Elements(row(1))
    BY <2>1, <1>5, <1>6
  <2>3. QED
    BY <2>1, <2>2, <1>1, <1>10
<1>13. QED
  BY <1>7, <1>9, <1>11, <1>12

\* A connection leads from one of some ports to one of others.
Leads(ws, from, to) == \E wire \in Elements(ws) : wire[1] \in from /\ wire[2] \in to

\* Nothing is lost where connections of one type are made.
LEMMA ConnectingSpares ==
  ASSUME NEW ws \in Seq(AnyWire), NEW new \in Seq(AnyWire), OneType(new), NEW touched
  PROVE  /\ ConnectAll(ws, new) \in Seq(AnyWire) /\ Spares(ws, ConnectAll(ws, new), touched)
         /\ \A wire \in Elements(new) : wire \in Elements(ConnectAll(ws, new))
<1>1. /\ ConnectAll(ws, new) \in Seq(AnyWire)
      /\ Elements(ConnectAll(ws, new)) = Elements(ws) \cup Elements(new)
  BY AllConnected
<1>2. QED
  BY <1>1 DEF Spares

\* Two connections in a row.
LEMMA TwoWires ==
  ASSUME NEW a \in AnyWire, NEW b \in AnyWire, a[1][4] = a[2][4], b[1][4] = b[2][4]
  PROVE  <<a, b>> \in Seq(AnyWire) /\ OneType(<<a, b>>)
<1>1. <<a, b>> \in Seq(AnyWire)
  OBVIOUS
<1>2. Elements(<<a, b>>) = {a, b}
  BY DEF Elements
<1>3. QED
  BY <1>1, <1>2 DEF OneType

\* The new channel's own connections (channel_create).
LEMMA ChannelWired ==
  ASSUME NEW ws \in Seq(AnyWire), NEW c \in Nat, NEW type
  PROVE  /\ ConnectAll(ws, ChannelWires(c, type)) \in Seq(AnyWire)
         /\ Spares(ws, ConnectAll(ws, ChannelWires(c, type)), {})
<1> DEFINE jack == <<<<Jack, MidiIn(c)>>>>
           through == [n \in 1..2 |-> <<StereoIn(c, n - 1), StereoOut(c, n - 1)>>]
           toMaster == [n \in 1..2 |-> <<StereoOut(c, n - 1), StereoIn(Master, n - 1)>>]
           second == IF type \in {"bus", "master"} THEN through ELSE <<>>
           third == IF type # "master" THEN toMaster ELSE <<>>
<1>1. /\ \A side \in {0, 1}, d \in Nat : StereoIn(d, side) \in AnyPort /\ StereoOut(d, side) \in AnyPort
      /\ Jack \in AnyPort /\ MidiIn(c) \in AnyPort /\ Master \in Nat
      /\ \A side, d : StereoIn(d, side)[4] = "audio" /\ StereoOut(d, side)[4] = "audio"
      /\ Jack[4] = "event" /\ MidiIn(c)[4] = "event"
  <2>1. Master \in Nat
    BY DEF Master
  <2>2. \A side, d : StereoIn(d, side)[4] = "audio" /\ StereoOut(d, side)[4] = "audio"
    BY DEF StereoIn, StereoOut
  <2>3. Jack[4] = "event" /\ MidiIn(c)[4] = "event"
    BY DEF Jack, MidiIn
  <2>4. \A d \in Nat : StereoIn(d, 0) \in AnyPort /\ StereoOut(d, 0) \in AnyPort
                       /\ StereoIn(d, 1) \in AnyPort /\ StereoOut(d, 1) \in AnyPort
    BY ChannelPortTypes
  <2>5. QED
    BY <2>1, <2>2, <2>3, <2>4, ChannelPortTypes
<1>2. jack \in Seq(AnyWire) /\ OneType(jack)
  <2>1. <<Jack, MidiIn(c)>> \in AnyWire
    BY <1>1, PairTypes
  <2>2. <<Jack, MidiIn(c)>>[1] = Jack /\ <<Jack, MidiIn(c)>>[2] = MidiIn(c)
    OBVIOUS
  <2>3. Elements(jack) = {<<Jack, MidiIn(c)>>}
    BY DEF Elements
  <2>4. QED
    BY <2>1, <2>2, <2>3, <1>1 DEF OneType
<1>3. ASSUME NEW w, DOMAIN w = 1..2, w = [n \in 1..2 |-> w[n]], \A n \in 1..2 : w[n] \in AnyWire /\ w[n][1][4] = w[n][2][4]
      PROVE  w \in Seq(AnyWire) /\ OneType(w)
  <2>1. w \in Seq(AnyWire)
    BY <1>3
  <2>2. QED
    BY <2>1, <1>3 DEF OneType, Elements
<1>4. through \in Seq(AnyWire) /\ OneType(through)
  <2>1. \A n \in 1..2 : n - 1 \in {0, 1}
    OBVIOUS
  <2>2. \A n \in 1..2 : through[n] \in AnyWire /\ through[n][1][4] = through[n][2][4]
    <3> TAKE n \in 1..2
    <3>1. StereoIn(c, n - 1) \in AnyPort /\ StereoOut(c, n - 1) \in AnyPort
      BY <2>1, <1>1
    <3>2. QED
      BY <3>1, <1>1, PairTypes
  <2>3. DOMAIN through = 1..2 /\ through = [n \in 1..2 |-> through[n]]
    OBVIOUS
  <2> HIDE DEF through
  <2>4. QED
    BY <2>2, <2>3, <1>3
<1>5. toMaster \in Seq(AnyWire) /\ OneType(toMaster)
  <2>1. \A n \in 1..2 : n - 1 \in {0, 1}
    OBVIOUS
  <2>2. \A n \in 1..2 : toMaster[n] \in AnyWire /\ toMaster[n][1][4] = toMaster[n][2][4]
    <3> TAKE n \in 1..2
    <3>1. StereoOut(c, n - 1) \in AnyPort /\ StereoIn(Master, n - 1) \in AnyPort
      BY <2>1, <1>1
    <3>2. QED
      BY <3>1, <1>1, PairTypes
  <2>3. DOMAIN toMaster = 1..2 /\ toMaster = [n \in 1..2 |-> toMaster[n]]
    OBVIOUS
  <2> HIDE DEF toMaster
  <2>4. QED
    BY <2>2, <2>3, <1>3
<1>6. <<>> \in Seq(AnyWire) /\ OneType(<<>>)
  BY DEF OneType, Elements
<1>7. ChannelWires(c, type) = (jack \o second) \o third
  BY DEF ChannelWires
<1> HIDE DEF jack, through, toMaster
<1>8. second \in Seq(AnyWire) /\ OneType(second) /\ third \in Seq(AnyWire) /\ OneType(third)
  BY <1>4, <1>5, <1>6
<1> HIDE DEF second, third
<1>9. jack \o second \in Seq(AnyWire) /\ OneType(jack \o second)
  <2>1. jack \o second \in Seq(AnyWire) /\ Elements(jack \o second) = Elements(jack) \cup Elements(second)
    BY <1>2, <1>8, JoinedElements
  <2>2. QED
    BY <2>1, <1>2, <1>8 DEF OneType
<1> DEFINE two == jack \o second
<1> HIDE DEF two
<1>10. two \o third \in Seq(AnyWire) /\ OneType(two \o third)
  <2>1. two \in Seq(AnyWire) /\ OneType(two)
    BY <1>9 DEF two
  <2>2. two \o third \in Seq(AnyWire) /\ Elements(two \o third) = Elements(two) \cup Elements(third)
    BY <2>1, <1>8, JoinedElements
  <2>3. QED
    BY <2>1, <2>2, <1>8 DEF OneType
<1>11. ChannelWires(c, type) \in Seq(AnyWire) /\ OneType(ChannelWires(c, type))
  BY <1>7, <1>10 DEF two
<1>12. QED
  BY <1>11, ConnectingSpares

\* The main plugin of a channel: only connections of the channel's stereo in go.
LEMMA MainWired ==
  ASSUME NEW ws \in Seq(AnyWire), NEW c \in Nat, NEW type, NEW ins \in Seq(AnyPort)
  PROVE  /\ WireMain(ws, c, type, ins) \in Seq(AnyWire)
         /\ Spares(ws, WireMain(ws, c, type, ins), StereoIns(c))
<1> DEFINE midi == OfType(ins, "event")
           audio == OfType(ins, "audio")
           left == DisconnectAll(ws, StereoIn(c, 0))
           cut == DisconnectAll(left, StereoIn(c, 1))
           pair(n) == <<<<Jack, midi[n]>>, <<PianoRoll(c), midi[n]>>>>
           pairs == [n \in DOMAIN midi |-> pair(n)]
           sides == [n \in 1..2 |-> <<StereoIn(c, n - 1), audio[1]>>]
<1>1. /\ Jack \in AnyPort /\ PianoRoll(c) \in AnyPort /\ StereoIn(c, 0) \in AnyPort /\ StereoIn(c, 1) \in AnyPort
  BY ChannelPortTypes
<1>2. /\ Jack[4] = "event" /\ PianoRoll(c)[4] = "event"
      /\ StereoIn(c, 0)[4] = "audio" /\ StereoIn(c, 1)[4] = "audio"
  BY DEF Jack, PianoRoll, StereoIn
<1>3. midi \in Seq(AnyPort) /\ \A port \in Elements(midi) : port[4] = "event"
  BY OfTypeElements
<1>4. /\ audio \in Seq(AnyPort) /\ \A port \in Elements(audio) : port[4] = "audio"
      /\ audio # <<>> => audio[1] \in Elements(audio)
  BY OfTypeElements
<1> HIDE DEF midi, audio
<1>5. CASE type = "midi"
  <2>1. \A n \in DOMAIN midi : midi[n] \in AnyPort /\ midi[n][4] = "event"
    BY <1>3 DEF Elements
  <2>2. \A n \in DOMAIN midi : pair(n) \in Seq(AnyWire) /\ OneType(pair(n))
    <3> TAKE n \in DOMAIN midi
    <3> DEFINE a == <<Jack, midi[n]>>
               b == <<PianoRoll(c), midi[n]>>
    <3>1. a \in AnyWire /\ b \in AnyWire
      BY <2>1, <1>1, PairTypes
    <3>2. a[1][4] = a[2][4] /\ b[1][4] = b[2][4]
      BY <2>1, <1>2
    <3>3. pair(n) = <<a, b>>
      OBVIOUS
    <3> HIDE DEF a, b, pair
    <3>4. QED
      BY <3>1, <3>2, <3>3, TwoWires
  <2> HIDE DEF pair
  <2>3. DOMAIN midi = 1..Len(midi) /\ Len(midi) \in Nat
    BY <1>3
  <2>4. pairs \in Seq(Seq(AnyWire)) /\ DOMAIN pairs = DOMAIN midi /\ \A n \in DOMAIN midi : pairs[n] = pair(n)
    BY <2>2, <2>3
  <2> HIDE DEF pairs
  <2>5. /\ FlattenSeq(pairs) \in Seq(AnyWire)
        /\ Elements(FlattenSeq(pairs)) = UNION {Elements(pairs[n]) : n \in DOMAIN pairs}
    BY <2>4, FlatElements
  <2>6. OneType(FlattenSeq(pairs))
    BY <2>2, <2>4, <2>5 DEF OneType
  <2>7. WireMain(ws, c, type, ins) = ConnectAll(ws, FlattenSeq(pairs))
    BY <1>5 DEF WireMain, pairs, pair, midi
  <2>8. QED
    BY <2>5, <2>6, <2>7, ConnectingSpares
<1>6. CASE type # "midi"
  <2>1. left \in Seq(AnyWire) /\ Spares(ws, left, {StereoIn(c, 0)})
    BY Disconnected
  <2> HIDE DEF left
  <2>2. cut \in Seq(AnyWire) /\ Spares(left, cut, {StereoIn(c, 1)})
    BY <2>1, Disconnected
  <2> HIDE DEF cut
  <2>3. Spares(ws, cut, StereoIns(c))
    BY <2>1, <2>2 DEF Spares, StereoIns
  <2> DEFINE new == IF audio = <<>> THEN <<>> ELSE sides
  <2>4. new \in Seq(AnyWire) /\ OneType(new)
    <3>1. CASE audio = <<>>
      BY <3>1 DEF OneType, Elements
    <3>2. CASE audio # <<>>
      <4> DEFINE a == <<StereoIn(c, 0), audio[1]>>
                 b == <<StereoIn(c, 1), audio[1]>>
      <4>1. audio[1] \in AnyPort /\ audio[1][4] = "audio"
        BY <3>2, <1>4 DEF Elements
      <4>2. a \in AnyWire /\ b \in AnyWire
        BY <4>1, <1>1, PairTypes
      <4>3. a[1][4] = a[2][4] /\ b[1][4] = b[2][4]
        BY <4>1, <1>2
      <4>4. sides = <<a, b>>
        OBVIOUS
      <4> HIDE DEF a, b, sides
      <4>5. QED
        BY <4>2, <4>3, <4>4, <3>2, TwoWires
    <3>3. QED
      BY <3>1, <3>2
  <2>5. WireMain(ws, c, type, ins) = ConnectAll(cut, new)
    BY <1>6 DEF WireMain, cut, left, audio
  <2> HIDE DEF new
  <2>6. /\ ConnectAll(cut, new) \in Seq(AnyWire)
        /\ Spares(cut, ConnectAll(cut, new), StereoIns(c))
    BY <2>2, <2>4, ConnectingSpares
  <2>7. QED
    BY <2>3, <2>5, <2>6 DEF Spares
<1>7. QED
  BY <1>5, <1>6

\* The audio outs and the ins of a plugin, given the descriptors.
Outs(p, descr) == Elements(OfType(OutPorts(p, descr[p]), "audio"))
Ins(p, descr) == Elements(InPorts(p, descr[p]))

\* A used slot is the nearest one behind pos, or before it.
FirstBehind(strip, pos, k) ==
  k \in Slots /\ k > pos /\ strip[k] # 0 /\ \A m \in Slots : pos < m /\ m < k => strip[m] = 0
LastBefore(strip, pos, k) ==
  k \in Slots /\ k < pos /\ strip[k] # 0 /\ \A m \in Slots : k < m /\ m < pos => strip[m] = 0

\* The set of the nearest has one element at most.
LEMMA OneNearest ==
  ASSUME NEW strip, NEW near, NEW k \in near, \A m \in near : m = k
  PROVE  AtNearest(strip, near) = strip[k]
<1>1. (CHOOSE m \in near : TRUE) \in near
  OBVIOUS
<1>2. QED
  BY <1>1 DEF AtNearest

\* The search for next_plugin finds the nearest used slot behind pos.
LEMMA NextFound ==
  ASSUME NEW strip, NEW pos \in Slots
  PROVE  /\ \A k : FirstBehind(strip, pos, k) => NextPlugin(strip, pos) = strip[k]
         /\ (\A k \in Slots : k > pos => strip[k] = 0) => NextPlugin(strip, pos) = 0
         /\ (\E k \in Slots : k > pos /\ strip[k] # 0) => \E k : FirstBehind(strip, pos, k)
<1> DEFINE last == StripSize - 1
           near == {k \in (pos + 1)..last : strip[k] # 0 /\ \A m \in (pos + 1)..(k - 1) : strip[m] = 0}
<1>1. last \in Nat /\ Slots = 0..last /\ pos \in Nat /\ pos <= last
  BY StripAssumption DEF Slots
<1>2. NextPlugin(strip, pos) = AtNearest(strip, near)
  BY DEF NextPlugin
<1> HIDE DEF last
<1>3. \A k : k \in near <=> FirstBehind(strip, pos, k)
  <2> TAKE k
  <2>1. k \in (pos + 1)..last <=> k \in Slots /\ k > pos
    BY <1>1
  <2>2. ASSUME k \in Slots, k > pos
        PROVE  \A m : m \in (pos + 1)..(k - 1) <=> m \in Slots /\ pos < m /\ m < k
    BY <2>2, <1>1
  <2>3. QED
    BY <2>1, <2>2 DEF FirstBehind
<1>4. \A k, m \in near : m = k
  <2> TAKE k \in near, m \in near
  <2>1. FirstBehind(strip, pos, k) /\ FirstBehind(strip, pos, m)
    BY <1>3
  <2>2. k \in Nat /\ m \in Nat /\ ~(k < m) /\ ~(m < k)
    BY <2>1, <1>1 DEF FirstBehind
  <2>3. QED
    BY <2>2
<1>5. ASSUME NEW k \in Slots, k > pos, strip[k] # 0
      PROVE  \E j : FirstBehind(strip, pos, j)
  <2> DEFINE T == {m \in Slots : m > pos /\ strip[m] # 0}
  <2>1. T # {} /\ T \in SUBSET Nat
    BY <1>1, <1>5
  <2>2. PICK j \in T : \A m \in T : j <= m
    BY <2>1, LeastNatural
  <2>3. \A m \in Slots : pos < m /\ m < j => m \notin T
    BY <2>1, <2>2, <1>1
  <2>4. FirstBehind(strip, pos, j)
    BY <2>2, <2>3, <1>1 DEF FirstBehind
  <2>5. QED
    BY <2>4
<1>6. \A k \in near : k \in Slots /\ k > pos /\ strip[k] # 0
  BY <1>3 DEF FirstBehind
<1> HIDE DEF near
<1>7. (\A k \in Slots : k > pos => strip[k] = 0) => near = {}
  BY <1>6
<1>8. \A k \in near : NextPlugin(strip, pos) = strip[k]
  BY <1>2, <1>4, OneNearest
<1>9. near = {} => NextPlugin(strip, pos) = 0
  BY <1>2 DEF AtNearest
<1>10. QED
  BY <1>3, <1>5, <1>7, <1>8, <1>9

\* The search for prev_plugin finds the nearest used slot before pos.
LEMMA PrevFound ==
  ASSUME NEW strip, NEW pos \in Slots
  PROVE  /\ \A k : LastBefore(strip, pos, k) => PrevPlugin(strip, pos) = strip[k]
         /\ PrevPlugin(strip, pos) # 0 =>
              \E k : LastBefore(strip, pos, k) /\ PrevPlugin(strip, pos) = strip[k]
<1> DEFINE near == {k \in 0..(pos - 1) : strip[k] # 0 /\ \A m \in (k + 1)..(pos - 1) : strip[m] = 0}
           last == StripSize - 1
<1>1. last \in Nat /\ Slots = 0..last /\ pos \in Nat /\ pos <= last
  BY StripAssumption DEF Slots
<1>2. PrevPlugin(strip, pos) = AtNearest(strip, near)
  BY DEF PrevPlugin
<1> HIDE DEF last
<1>3. \A k : k \in near <=> LastBefore(strip, pos, k)
  <2> TAKE k
  <2>1. k \in 0..(pos - 1) <=> k \in Slots /\ k < pos
    BY <1>1
  <2>2. ASSUME k \in Slots, k < pos
        PROVE  \A m : m \in (k + 1)..(pos - 1) <=> m \in Slots /\ k < m /\ m < pos
    BY <2>2, <1>1
  <2>3. QED
    BY <2>1, <2>2 DEF LastBefore
<1>4. \A k, m \in near : m = k
  <2> TAKE k \in near, m \in near
  <2>1. LastBefore(strip, pos, k) /\ LastBefore(strip, pos, m)
    BY <1>3
  <2>2. k \in Nat /\ m \in Nat /\ ~(k < m) /\ ~(m < k)
    BY <2>1, <1>1 DEF LastBefore
  <2>3. QED
    BY <2>2
<1> HIDE DEF near
<1>5. \A k \in near : PrevPlugin(strip, pos) = strip[k]
  BY <1>2, <1>4, OneNearest
<1>6. near = {} => PrevPlugin(strip, pos) = 0
  BY <1>2 DEF AtNearest
<1>7. QED
  BY <1>3, <1>5, <1>6

\* The plugins of a strip, and what they were made from.
Fitted(strip, descr) ==
  /\ strip \in [Slots -> 0..Len(descr)]
  /\ descr \in Seq(DOMAIN Descriptors)

\* The ports of a plugin in a strip.
LEMMA FittedPorts ==
  ASSUME NEW descr \in Seq(DOMAIN Descriptors), NEW p \in 1..Len(descr)
  PROVE  /\ InPorts(p, descr[p]) \in Seq(AnyPort) /\ Ins(p, descr) \subseteq PlugPort(p)
         /\ OutPorts(p, descr[p]) \in Seq(AnyPort) /\ Outs(p, descr) \subseteq PlugPort(p)
         /\ OfType(OutPorts(p, descr[p]), "audio") \in Seq(AnyPort)
         /\ \A port \in Outs(p, descr) : port[4] = "audio"
<1>1. p \in Nat /\ descr[p] \in DOMAIN Descriptors
  OBVIOUS
<1>2. /\ InPorts(p, descr[p]) \in Seq(AnyPort) /\ Elements(InPorts(p, descr[p])) \subseteq PlugPort(p)
      /\ OutPorts(p, descr[p]) \in Seq(AnyPort) /\ Elements(OutPorts(p, descr[p])) \subseteq PlugPort(p)
  BY <1>1, PluginPortTypes
<1>3. /\ OfType(OutPorts(p, descr[p]), "audio") \in Seq(AnyPort)
      /\ Outs(p, descr) = {port \in Elements(OutPorts(p, descr[p])) : port[4] = "audio"}
  BY <1>2, OfTypeElements DEF Outs
<1>4. QED
  BY <1>2, <1>3 DEF Ins

\* The inputs of the plugin at pos (channel_add_plugin): what the plugin before it plays
\* reaches it.
LEMMA InWired ==
  ASSUME NEW ws \in Seq(AnyWire), NEW c \in Nat, NEW type, NEW strip, NEW descr,
         Fitted(strip, descr), NEW pos \in Slots, strip[pos] # 0
  PROVE  LET in == WireIn(ws, c, type, strip, pos, descr)
             p == strip[pos]
         IN /\ in \in Seq(AnyWire) /\ Spares(ws, in, StereoIns(c))
            /\ \A k : /\ LastBefore(strip, pos, k)
                      /\ Outs(strip[k], descr) # {}
                      /\ OfType(InPorts(p, descr[p]), "audio") # <<>>
                      => Leads(in, Outs(strip[k], descr), Ins(p, descr))
<1> DEFINE in == WireIn(ws, c, type, strip, pos, descr)
           p == strip[pos]
           ins == InPorts(p, descr[p])
           prev == PrevPlugin(strip, pos)
<1>1. /\ descr \in Seq(DOMAIN Descriptors)
      /\ \A k \in Slots : strip[k] \in 0..Len(descr) /\ (strip[k] # 0 => strip[k] \in 1..Len(descr))
  BY DEF Fitted
<1>2. p \in 1..Len(descr)
  BY <1>1
<1>3. in = IF prev = 0 THEN WireMain(ws, c, type, ins)
           ELSE ConnectAll(ws, WiresFromPrevious(OutPorts(prev, descr[prev]), ins))
  BY DEF WireIn
<1>4. ins \in Seq(AnyPort) /\ Ins(p, descr) = Elements(ins)
  BY <1>1, <1>2, FittedPorts DEF Ins
<1> HIDE DEF in, ins, p
<1>5. CASE prev = 0
  <2>1. in \in Seq(AnyWire) /\ Spares(ws, in, StereoIns(c))
    BY <1>3, <1>4, <1>5, MainWired
  <2>2. \A k : ~LastBefore(strip, pos, k)
    <3> TAKE k
    <3>1. LastBefore(strip, pos, k) => prev = strip[k] /\ strip[k] # 0
      BY PrevFound DEF LastBefore
    <3>2. QED
      BY <3>1, <1>5
  <2>3. QED
    BY <2>1, <2>2 DEF in, p
<1>6. CASE prev # 0
  <2>1. PICK k : LastBefore(strip, pos, k) /\ prev = strip[k]
    BY <1>6, PrevFound
  <2>2. prev \in 1..Len(descr)
    BY <2>1, <1>1, <1>6 DEF LastBefore
  <2> HIDE DEF prev
  <2> DEFINE theirs == OutPorts(prev, descr[prev])
             ours == OfType(ins, "audio")
             met == Met(ours, theirs)
             new == [n \in DOMAIN met |-> <<met[n][2], met[n][1]>>]
  <2>3. theirs \in Seq(AnyPort) /\ Elements(OfType(theirs, "audio")) = Outs(prev, descr)
    BY <1>1, <2>2, FittedPorts DEF Outs
  <2>4. ours \in Seq(AnyPort) /\ Elements(ours) = {port \in Elements(ins) : port[4] = "audio"}
    BY <1>4, OfTypeElements
  <2>5. in = ConnectAll(ws, new)
    BY <1>3, <1>6 DEF WiresFromPrevious
  <2> HIDE DEF theirs, ours
  <2>6. /\ met \in Seq(AnyWire)
        /\ \A w \in Elements(met) : w[1] \in Elements(ours) /\ w[2] \in Elements(theirs) /\ w[2][4] = "audio"
        /\ ours # <<>> => \A their \in Elements(OfType(theirs, "audio")) :
                            \E our \in Elements(ours) : <<our, their>> \in Elements(met)
    BY <2>3, <2>4, MetElements
  <2> HIDE DEF met
  <2>7. \A n \in DOMAIN met : new[n] \in AnyWire /\ new[n][1][4] = new[n][2][4]
    <3> TAKE n \in DOMAIN met
    <3>1. met[n] \in AnyWire /\ met[n] \in Elements(met)
      BY <2>6 DEF Elements
    <3>2. met[n][1] \in AnyPort /\ met[n][2] \in AnyPort /\ met[n][1][4] = "audio" /\ met[n][2][4] = "audio"
      BY <3>1, <2>4, <2>6, PairTypes
    <3>3. QED
      BY <3>2, PairTypes
  <2>8. DOMAIN met = 1..Len(met) /\ Len(met) \in Nat
    BY <2>6
  <2>9. new \in Seq(AnyWire)
    BY <2>7, <2>8
  <2>10. OneType(new)
    <3>1. \A n \in DOMAIN new : new[n][1][4] = new[n][2][4]
      BY <2>7
    <3> HIDE DEF new
    <3>2. QED
      BY <3>1 DEF OneType, Elements
  <2>11. \A w \in Elements(met) : <<w[2], w[1]>> \in Elements(new)
    BY DEF Elements
  <2> HIDE DEF new
  <2>12. in \in Seq(AnyWire) /\ Spares(ws, in, StereoIns(c)) /\ \A w \in Elements(new) : w \in Elements(in)
    BY <2>5, <2>9, <2>10, ConnectingSpares
  <2>13. ASSUME Outs(prev, descr) # {}, ours # <<>>
         PROVE  Leads(in, Outs(prev, descr), Ins(p, descr))
    <3>1. PICK their \in Outs(prev, descr) : TRUE
      BY <2>13
    <3>2. PICK our \in Elements(ours) : <<our, their>> \in Elements(met)
      BY <3>1, <2>3, <2>6, <2>13
    <3>3. <<their, our>> \in Elements(in)
      <4>1. <<our, their>>[1] = our /\ <<our, their>>[2] = their
        OBVIOUS
      <4>2. QED
        BY <4>1, <3>2, <2>11, <2>12
    <3>4. our \in Ins(p, descr)
      BY <3>2, <2>4, <1>4
    <3>5. <<their, our>>[1] = their /\ <<their, our>>[2] = our
      OBVIOUS
    <3>6. QED
      BY <3>1, <3>3, <3>4, <3>5 DEF Leads
  <2>14. \A j : LastBefore(strip, pos, j) => strip[j] = prev
    BY PrevFound DEF prev
  <2>15. QED
    BY <2>12, <2>13, <2>14 DEF in, p, ours, ins
<1>7. QED
  BY <1>5, <1>6

\* The outputs of the plugin at pos (channel_add_plugin): what it plays reaches the plugin
\* behind it, or the channel behind the last one.
LEMMA OutWired ==
  ASSUME NEW ws \in Seq(AnyWire), NEW c \in Nat, NEW strip, NEW descr,
         Fitted(strip, descr), NEW pos \in Slots, strip[pos] # 0
  PROVE  LET out == WireOut(ws, c, strip, pos, descr)
             p == strip[pos]
         IN /\ out \in Seq(AnyWire) /\ Spares(ws, out, {})
            /\ \A k : /\ FirstBehind(strip, pos, k)
                      /\ Outs(p, descr) # {}
                      /\ OfType(InPorts(strip[k], descr[strip[k]]), "audio") # <<>>
                      => Leads(out, Outs(p, descr), Ins(strip[k], descr))
            /\ (\A k \in Slots : k > pos => strip[k] = 0) /\ Outs(p, descr) # {}
                 => Leads(out, Outs(p, descr), StereoOuts(c))
<1> DEFINE out == WireOut(ws, c, strip, pos, descr)
           p == strip[pos]
           outs == OutPorts(p, descr[p])
           audio == OfType(outs, "audio")
           next == NextPlugin(strip, pos)
           toChannel == WiresToChannel(c, outs)
           toNext == WiresToNext(outs, InPorts(next, descr[next]))
<1>1. /\ descr \in Seq(DOMAIN Descriptors)
      /\ \A k \in Slots : strip[k] \in 0..Len(descr) /\ (strip[k] # 0 => strip[k] \in 1..Len(descr))
  BY DEF Fitted
<1>2. p \in 1..Len(descr)
  BY <1>1
<1>3. out = ConnectAll(ws, IF next = 0 THEN toChannel ELSE toNext)
  BY DEF WireOut
<1>4. audio \in Seq(AnyPort) /\ Elements(audio) = Outs(p, descr) /\ \A port \in Elements(audio) : port[4] = "audio"
  BY <1>1, <1>2, FittedPorts DEF Outs
<1>5. /\ DOMAIN audio = 1..Len(audio) /\ Len(audio) \in Nat
      /\ \A n \in DOMAIN audio : audio[n] \in AnyPort /\ audio[n] \in Outs(p, descr) /\ audio[n][4] = "audio"
      /\ Outs(p, descr) # {} => 1 \in DOMAIN audio /\ audio # <<>>
  <2>1. DOMAIN audio = 1..Len(audio) /\ Len(audio) \in Nat
    BY <1>4
  <2>2. \A n \in DOMAIN audio : audio[n] \in Elements(audio)
    BY DEF Elements
  <2>3. Elements(audio) # {} => \E n \in DOMAIN audio : TRUE
    BY DEF Elements
  <2>4. QED
    BY <1>4, <2>1, <2>2, <2>3
<1>6. \A k : FirstBehind(strip, pos, k) => next = strip[k] /\ next # 0
  <2> TAKE k
  <2>1. FirstBehind(strip, pos, k) => next = strip[k]
    BY NextFound
  <2>2. QED
    BY <2>1 DEF FirstBehind
<1>7. /\ (\A k \in Slots : k > pos => strip[k] = 0) => next = 0
      /\ (\E k \in Slots : k > pos /\ strip[k] # 0) => \E k : FirstBehind(strip, pos, k)
  BY NextFound
<1> HIDE DEF out, next
<1>8. CASE next = 0
  <2> DEFINE num == IF Len(audio) < 2 THEN Len(audio) ELSE 2
             wired(n) == <<audio[n], StereoOut(c, n - 1)>>
             new == [n \in 1..num |-> wired(n)]
  <2>1. toChannel = new
    BY DEF WiresToChannel
  <2>2. num \in Nat /\ 1..num \subseteq DOMAIN audio /\ (\A n \in 1..num : n - 1 \in {0, 1})
        /\ (audio # <<>> => 1 \in 1..num)
    BY <1>5
  <2> HIDE DEF audio, num
  <2>3. \A n \in 1..num : new[n] \in AnyWire /\ new[n][1][4] = new[n][2][4]
    <3> TAKE n \in 1..num
    <3>1. audio[n] \in AnyPort /\ audio[n][4] = "audio" /\ n - 1 \in {0, 1}
      BY <2>2, <1>5
    <3>2. StereoOut(c, n - 1) \in AnyPort
      <4>1. StereoOut(c, 0) \in AnyPort /\ StereoOut(c, 1) \in AnyPort
        BY ChannelPortTypes
      <4>2. QED
        BY <4>1, <3>1
    <3>3. StereoOut(c, n - 1)[4] = "audio"
      BY DEF StereoOut
    <3>4. QED
      BY <3>1, <3>2, <3>3, PairTypes
  <2>4. new \in Seq(AnyWire)
    BY <2>2, <2>3
  <2>5. OneType(new)
    <3>1. \A n \in DOMAIN new : new[n][1][4] = new[n][2][4]
      BY <2>3
    <3> HIDE DEF new
    <3>2. QED
      BY <3>1 DEF OneType, Elements
  <2>6. Outs(p, descr) # {} => wired(1) \in Elements(new)
    BY <2>2, <1>5 DEF Elements
  <2>7. wired(1)[1] = audio[1] /\ wired(1)[2] = StereoOut(c, 0)
    OBVIOUS
  <2> HIDE DEF new, wired
  <2>8. out \in Seq(AnyWire) /\ Spares(ws, out, {}) /\ \A w \in Elements(new) : w \in Elements(out)
    BY <1>3, <1>8, <2>1, <2>4, <2>5, ConnectingSpares
  <2>9. Outs(p, descr) # {} => Leads(out, Outs(p, descr), StereoOuts(c))
    BY <2>6, <2>7, <2>8, <1>5 DEF Leads, StereoOuts
  <2>10. QED
    BY <1>6, <1>8, <2>8, <2>9 DEF out
<1>9. CASE next # 0
  <2>1. PICK k : FirstBehind(strip, pos, k)
    BY <1>7, <1>9
  <2>2. next = strip[k] /\ next \in 1..Len(descr)
    BY <2>1, <1>1, <1>6, <1>9 DEF FirstBehind
  <2> DEFINE theirs == InPorts(next, descr[next])
  <2>3. theirs \in Seq(AnyPort) /\ Ins(next, descr) = Elements(theirs)
    BY <1>1, <2>2, FittedPorts DEF Ins
  <2>4. toNext = Met(audio, theirs)
    BY DEF WiresToNext
  <2> HIDE DEF theirs, audio, toNext
  <2>5. /\ toNext \in Seq(AnyWire)
        /\ \A w \in Elements(toNext) : w[1] \in Elements(audio) /\ w[2] \in Elements(theirs) /\ w[2][4] = "audio"
        /\ audio # <<>> => \A their \in Elements(OfType(theirs, "audio")) :
                             \E our \in Elements(audio) : <<our, their>> \in Elements(toNext)
    BY <1>4, <2>3, <2>4, MetElements
  <2>6. OneType(toNext)
    BY <1>4, <2>5 DEF OneType
  <2>7. out \in Seq(AnyWire) /\ Spares(ws, out, {}) /\ \A w \in Elements(toNext) : w \in Elements(out)
    BY <1>3, <1>9, <2>5, <2>6, ConnectingSpares
  <2>8. ASSUME Outs(p, descr) # {}, OfType(theirs, "audio") # <<>>
        PROVE  Leads(out, Outs(p, descr), Ins(next, descr))
    <3> DEFINE their == OfType(theirs, "audio")[1]
    <3>1. their \in Elements(OfType(theirs, "audio")) /\ their \in Elements(theirs)
      BY <2>3, <2>8, OfTypeElements
    <3> HIDE DEF their
    <3>2. PICK our \in Elements(audio) : <<our, their>> \in Elements(toNext)
      BY <3>1, <2>5, <2>8, <1>5
    <3>3. <<our, their>>[1] = our /\ <<our, their>>[2] = their
      OBVIOUS
    <3>4. QED
      BY <3>1, <3>2, <3>3, <2>3, <2>7, <1>4 DEF Leads
  <2>9. ~(\A j \in Slots : j > pos => strip[j] = 0)
    BY <1>7, <1>9
  <2>10. \A j : FirstBehind(strip, pos, j) => strip[j] = next
    BY <1>6
  <2>11. QED
    BY <2>7, <2>8, <2>9, <2>10 DEF out, theirs
<1>10. QED
  BY <1>8, <1>9

\* What the ports of a channel's plugins reach, in the terms of these lemmas.
HeardBy(ws, descr, c, strip) ==
  \A k \in Slots : strip[k] # 0 /\ Outs(strip[k], descr) # {} =>
    /\ (\A m \in Slots : m > k => strip[m] = 0) => Leads(ws, Outs(strip[k], descr), StereoOuts(c))
    /\ \A m : /\ FirstBehind(strip, k, m)
              /\ OfType(InPorts(strip[m], descr[strip[m]]), "audio") # <<>>
              => Leads(ws, Outs(strip[k], descr), Ins(strip[m], descr))

\* A connection between untouched ports is spared.
LEMMA StillLeads ==
  ASSUME NEW ws, NEW new, NEW touched, Spares(ws, new, touched), NEW from, NEW to,
         from \cap touched = {}, to \cap touched = {}, Leads(ws, from, to)
  PROVE  Leads(new, from, to)
BY DEF Leads, Spares

\* A strip is heard as before where no port of its plugins, and no output of its channel,
\* is touched.
LEMMA StillHeard ==
  ASSUME NEW ws, NEW new, NEW touched, Spares(ws, new, touched),
         NEW descr, NEW strip, Fitted(strip, descr), NEW c,
         \A k \in Slots : strip[k] # 0 => PlugPort(strip[k]) \cap touched = {},
         StereoOuts(c) \cap touched = {},
         HeardBy(ws, descr, c, strip)
  PROVE  HeardBy(new, descr, c, strip)
<1>1. \A k \in Slots : strip[k] # 0 =>
        Outs(strip[k], descr) \cap touched = {} /\ Ins(strip[k], descr) \cap touched = {}
  <2> TAKE k \in Slots
  <2> HAVE strip[k] # 0
  <2>1. strip[k] \in 1..Len(descr) /\ descr \in Seq(DOMAIN Descriptors)
    BY DEF Fitted
  <2>2. Ins(strip[k], descr) \subseteq PlugPort(strip[k]) /\ Outs(strip[k], descr) \subseteq PlugPort(strip[k])
    BY <2>1, FittedPorts
  <2>3. QED
    BY <2>2
<1> SUFFICES ASSUME NEW k \in Slots, strip[k] # 0, Outs(strip[k], descr) # {}
             PROVE  /\ (\A m \in Slots : m > k => strip[m] = 0) =>
                         Leads(new, Outs(strip[k], descr), StereoOuts(c))
                    /\ \A m : /\ FirstBehind(strip, k, m)
                              /\ OfType(InPorts(strip[m], descr[strip[m]]), "audio") # <<>>
                              => Leads(new, Outs(strip[k], descr), Ins(strip[m], descr))
  BY DEF HeardBy
<1>2. ASSUME \A m \in Slots : m > k => strip[m] = 0
      PROVE  Leads(new, Outs(strip[k], descr), StereoOuts(c))
  <2>1. Leads(ws, Outs(strip[k], descr), StereoOuts(c))
    BY <1>2 DEF HeardBy
  <2>2. QED
    BY <1>1, <2>1, StillLeads
<1>3. ASSUME NEW m, FirstBehind(strip, k, m), OfType(InPorts(strip[m], descr[strip[m]]), "audio") # <<>>
      PROVE  Leads(new, Outs(strip[k], descr), Ins(strip[m], descr))
  <2>1. Leads(ws, Outs(strip[k], descr), Ins(strip[m], descr))
    BY <1>3 DEF HeardBy
  <2>2. m \in Slots /\ strip[m] # 0
    BY <1>3 DEF FirstBehind
  <2>3. QED
    BY <1>1, <2>1, <2>2, StillLeads
<1>4. QED
  BY <1>2, <1>3

\* Where another plugin is added to the project, what a strip was made from is the same.
LEMMA HeardLater ==
  ASSUME NEW ws, NEW descr, NEW strip, Fitted(strip, descr), NEW c,
         NEW longer, \A p \in 1..Len(descr) : longer[p] = descr[p],
         HeardBy(ws, descr, c, strip)
  PROVE  HeardBy(ws, longer, c, strip)
<1>1. \A k \in Slots : strip[k] # 0 => longer[strip[k]] = descr[strip[k]]
  <2> TAKE k \in Slots
  <2> HAVE strip[k] # 0
  <2>1. strip[k] \in 1..Len(descr)
    BY DEF Fitted
  <2>2. QED
    BY <2>1
<1>2. \A k \in Slots : strip[k] # 0 =>
        Outs(strip[k], longer) = Outs(strip[k], descr) /\ Ins(strip[k], longer) = Ins(strip[k], descr)
  BY <1>1 DEF Outs, Ins
<1>3. \A k, m : FirstBehind(strip, k, m) => m \in Slots /\ strip[m] # 0
  BY DEF FirstBehind
<1>4. QED
  BY <1>1, <1>2, <1>3 DEF HeardBy

\* What is spared step by step.
LEMMA SparesOn ==
  ASSUME NEW a, NEW b, NEW c, NEW left, NEW right, Spares(a, b, left), Spares(b, c, right)
  PROVE  Spares(a, c, left \cup right)
BY DEF Spares

\* channel_remove_plugin takes only connections of the plugin that is replaced.
LEMMA Unplugged ==
  ASSUME NEW ws \in Seq(AnyWire), NEW channel, NEW pos \in Slots, NEW descr,
         Fitted(channel.strip, descr)
  PROVE  /\ RemoveWires(ws, channel, pos, descr) \in Seq(AnyWire)
         /\ Spares(ws, RemoveWires(ws, channel, pos, descr), PlugPort(channel.strip[pos]))
<1> DEFINE old == channel.strip[pos]
<1>1. CASE old = 0
  <2>1. RemoveWires(ws, channel, pos, descr) = ws
    BY <1>1 DEF RemoveWires
  <2>2. QED
    BY <2>1 DEF Spares
<1>2. CASE old # 0
  <2>1. old \in 1..Len(descr) /\ descr \in Seq(DOMAIN Descriptors)
    BY <1>2 DEF Fitted
  <2>2. old \in Nat /\ descr[old] \in DOMAIN Descriptors
    BY <2>1
  <2> DEFINE d == descr[old]
             ports == PluginPorts(old, d)
  <2> HIDE DEF old
  <2>3. /\ InPorts(old, d) \in Seq(AnyPort) /\ Elements(InPorts(old, d)) \subseteq PlugPort(old)
        /\ OutPorts(old, d) \in Seq(AnyPort) /\ Elements(OutPorts(old, d)) \subseteq PlugPort(old)
    BY <2>2, PluginPortTypes
  <2> HIDE DEF d
  <2>4. ports \in Seq(AnyPort) /\ Elements(ports) \subseteq PlugPort(old)
    <3>1. ports = InPorts(old, d) \o OutPorts(old, d)
      BY DEF PluginPorts
    <3>2. /\ InPorts(old, d) \o OutPorts(old, d) \in Seq(AnyPort)
          /\ Elements(InPorts(old, d) \o OutPorts(old, d)) = Elements(InPorts(old, d)) \cup Elements(OutPorts(old, d))
      BY <2>3, JoinedElements
    <3>3. QED
      BY <2>3, <3>1, <3>2
  <2> HIDE DEF ports
  <2>5. PortsFree(ws, ports) \in Seq(AnyWire) /\ Spares(ws, PortsFree(ws, ports), Elements(ports))
    BY <2>4, AllFreed
  <2>6. RemoveWires(ws, channel, pos, descr) = PortsFree(ws, ports)
    BY <1>2 DEF RemoveWires, PluginFree, old, ports, d
  <2>7. QED
    BY <2>4, <2>5, <2>6 DEF Spares, old
<1>3. QED
  BY <1>1, <1>2

\* channel_add_plugin: only connections of the plugin that is replaced and of the
\* channel's stereo in are lost, and afterwards all of the strip is heard.
LEMMA Plugged ==
  ASSUME NEW ws \in Seq(AnyWire), NEW c \in Nat, NEW channel, NEW pos \in Slots, NEW descr,
         Fitted(channel.strip, descr), NEW p \in 1..Len(descr),
         \A k \in Slots : channel.strip[k] # p,
         \A k, m \in Slots : channel.strip[k] = channel.strip[m] /\ channel.strip[k] # 0 => k = m
  PROVE  /\ AddWires(ws, c, channel, pos, p, descr) \in Seq(AnyWire)
         /\ Spares(ws, AddWires(ws, c, channel, pos, p, descr),
                   StereoIns(c) \cup PlugPort(channel.strip[pos]))
         /\ HeardBy(ws, descr, c, channel.strip) =>
              HeardBy(AddWires(ws, c, channel, pos, p, descr), descr, c,
                      [channel.strip EXCEPT ![pos] = p])
<1> DEFINE was == channel.strip
           old == was[pos]
           strip == [was EXCEPT ![pos] = p]
           removed == RemoveWires(ws, channel, pos, descr)
           in == WireIn(removed, c, channel.type, strip, pos, descr)
           out == WireOut(in, c, strip, pos, descr)
           touched == StereoIns(c) \cup PlugPort(old)
<1>1. out = AddWires(ws, c, channel, pos, p, descr)
  BY DEF AddWires
<1>2. /\ Fitted(strip, descr) /\ strip[pos] = p /\ strip[pos] # 0
      /\ \A k \in Slots : k # pos => strip[k] = was[k]
  <2>1. was \in [Slots -> 0..Len(descr)] /\ descr \in Seq(DOMAIN Descriptors) /\ p \in 0..Len(descr) /\ p # 0
    BY DEF Fitted
  <2>2. strip \in [Slots -> 0..Len(descr)]
    BY <2>1
  <2>3. QED
    BY <2>1, <2>2 DEF Fitted
<1>3. removed \in Seq(AnyWire) /\ Spares(ws, removed, PlugPort(old))
  BY Unplugged
<1> HIDE DEF removed, strip
<1>4. /\ in \in Seq(AnyWire) /\ Spares(removed, in, StereoIns(c))
      /\ \A k : /\ LastBefore(strip, pos, k)
                /\ Outs(strip[k], descr) # {}
                /\ OfType(InPorts(p, descr[p]), "audio") # <<>>
                => Leads(in, Outs(strip[k], descr), Ins(p, descr))
  BY <1>2, <1>3, InWired
<1> HIDE DEF in
<1>5. /\ out \in Seq(AnyWire) /\ Spares(in, out, {})
      /\ \A k : /\ FirstBehind(strip, pos, k)
                /\ Outs(p, descr) # {}
                /\ OfType(InPorts(strip[k], descr[strip[k]]), "audio") # <<>>
                => Leads(out, Outs(p, descr), Ins(strip[k], descr))
      /\ (\A k \in Slots : k > pos => strip[k] = 0) /\ Outs(p, descr) # {}
           => Leads(out, Outs(p, descr), StereoOuts(c))
  BY <1>2, <1>4, OutWired
<1> HIDE DEF out
<1>6. Spares(ws, out, touched)
  BY <1>3, <1>4, <1>5 DEF Spares
<1>7. /\ StereoOuts(c) \cap touched = {}
      /\ \A k \in Slots : k # pos /\ was[k] # 0 =>
           Outs(was[k], descr) \cap touched = {} /\ Ins(was[k], descr) \cap touched = {}
  <2>1. StereoOuts(c) \cap touched = {}
    BY PortsApart
  <2>2. ASSUME NEW k \in Slots, k # pos, was[k] # 0
        PROVE  Outs(was[k], descr) \cap touched = {} /\ Ins(was[k], descr) \cap touched = {}
    <3>1. was[k] \in 1..Len(descr) /\ descr \in Seq(DOMAIN Descriptors)
      BY <2>2 DEF Fitted
    <3>2. Ins(was[k], descr) \subseteq PlugPort(was[k]) /\ Outs(was[k], descr) \subseteq PlugPort(was[k])
      BY <3>1, FittedPorts
    <3>3. was[k] # old
      BY <2>2
    <3>4. PlugPort(was[k]) \cap touched = {}
      BY <3>3, PortsApart
    <3>5. QED
      BY <3>2, <3>4
  <2>3. QED
    BY <2>1, <2>2
<1> HIDE DEF touched, old
<1>8. ASSUME HeardBy(ws, descr, c, was) PROVE HeardBy(out, descr, c, strip)
  <2> SUFFICES ASSUME NEW k \in Slots, strip[k] # 0, Outs(strip[k], descr) # {}
               PROVE  /\ (\A m \in Slots : m > k => strip[m] = 0) =>
                           Leads(out, Outs(strip[k], descr), StereoOuts(c))
                      /\ \A m : /\ FirstBehind(strip, k, m)
                                /\ OfType(InPorts(strip[m], descr[strip[m]]), "audio") # <<>>
                                => Leads(out, Outs(strip[k], descr), Ins(strip[m], descr))
    BY DEF HeardBy
  <2>1. CASE k = pos
    BY <2>1, <1>2, <1>5
  <2>2. CASE k # pos
    <3>1. /\ strip[k] = was[k] /\ was[k] # 0 /\ Outs(was[k], descr) # {}
          /\ Outs(was[k], descr) \cap touched = {}
      BY <2>2, <1>2, <1>7
    <3>2. ASSUME \A m \in Slots : m > k => strip[m] = 0
          PROVE  Leads(out, Outs(strip[k], descr), StereoOuts(c))
      <4>1. ASSUME NEW m \in Slots, m > k PROVE was[m] = 0
        <5>1. strip[m] = 0
          BY <3>2, <4>1
        <5>2. m # pos
          BY <5>1, <1>2
        <5>3. QED
          BY <5>1, <5>2, <1>2
      <4>2. Leads(ws, Outs(was[k], descr), StereoOuts(c))
        BY <1>8, <3>1, <4>1 DEF HeardBy
      <4>3. QED
        BY <4>2, <3>1, <1>6, <1>7, StillLeads
    <3>3. ASSUME NEW m, FirstBehind(strip, k, m),
                 OfType(InPorts(strip[m], descr[strip[m]]), "audio") # <<>>
          PROVE  Leads(out, Outs(strip[k], descr), Ins(strip[m], descr))
      <4>1. m \in Slots /\ m > k /\ strip[m] # 0 /\ \A j \in Slots : k < j /\ j < m => strip[j] = 0
        BY <3>3 DEF FirstBehind
      <4>2. CASE m = pos
        <5>1. LastBefore(strip, pos, k)
          BY <4>1, <4>2 DEF LastBefore, Slots
        <5>2. Leads(in, Outs(strip[k], descr), Ins(p, descr))
          BY <5>1, <4>2, <3>1, <3>3, <1>2, <1>4
        <5>3. Leads(out, Outs(strip[k], descr), Ins(p, descr))
          BY <5>2, <1>5 DEF Leads, Spares
        <5>4. QED
          BY <5>3, <4>2, <1>2
      <4>3. CASE m # pos
        <5>1. strip[m] = was[m] /\ was[m] # 0
          BY <4>1, <4>3, <1>2
        <5>2. \A j \in Slots : k < j /\ j < m => was[j] = 0
          BY <4>1, <1>2
        <5>3. FirstBehind(was, k, m)
          BY <4>1, <5>1, <5>2 DEF FirstBehind
        <5>4. Leads(ws, Outs(was[k], descr), Ins(was[m], descr))
          BY <1>8, <5>1, <5>3, <3>1, <3>3 DEF HeardBy
        <5>5. Ins(was[m], descr) \cap touched = {}
          BY <4>1, <4>3, <5>1, <1>7
        <5>6. QED
          BY <5>1, <5>4, <5>5, <3>1, <1>6, StillLeads
      <4>4. QED
        BY <4>2, <4>3
    <3>4. QED
      BY <3>2, <3>3
  <2>3. QED
    BY <2>1, <2>2
<1>9. QED
  BY <1>1, <1>5, <1>6, <1>8 DEF touched, old, strip

-----------------------------------------------------------------------------

\* The automatables there can be while a project has P plugins, and their tracks.
Controlled(P) == (0..P) \X Nat
TrackOf(P) == [automatable : Controlled(P), visible : BOOLEAN]

\* No plugin is in two slots of a strip.
OwnSlots(strip) == \A k, m \in Slots : strip[k] = strip[m] /\ strip[k] # 0 => k = m

\* The controls of one plugin.
LEMMA ControlsKnown ==
  ASSUME NEW P \in Nat, NEW p \in 1..P, NEW d \in DOMAIN Descriptors
  PROVE  /\ Controls(p, d) \in Seq(Controlled(P)) /\ Distinct(Controls(p, d))
         /\ \A a \in Elements(Controls(p, d)) : a[1] = p
<1> DEFINE N == Descriptors[d].controls
           list == Controls(p, d)
<1>1. N \in Nat
  BY StripAssumption
<1>2. list = [k \in 1..N |-> <<p, k>>]
  BY DEF Controls
<1> HIDE DEF list, N
<1>3. DOMAIN list = 1..N /\ \A k \in 1..N : list[k] = <<p, k>> /\ list[k] \in Controlled(P)
  BY <1>1, <1>2 DEF Controlled
<1>4. list \in Seq(Controlled(P))
  BY <1>1, <1>2, <1>3
<1>5. Distinct(list) /\ \A a \in Elements(list) : a[1] = p
  BY <1>3 DEF Distinct, Elements
<1>6. QED
  BY <1>4, <1>5 DEF list

\* The automatables of a channel: the fader once, and the controls of its plugins.
LEMMA AutomatablesKnown ==
  ASSUME NEW strip, NEW descr, Fitted(strip, descr)
  PROVE  /\ Automatables(strip, descr) \in Seq(Controlled(Len(descr)))
         /\ Fader \in Elements(Automatables(strip, descr))
         /\ OwnSlots(strip) => Distinct(Automatables(strip, descr))
         /\ (\A k \in Slots : strip[k] = 0) => Elements(Automatables(strip, descr)) = {Fader}
<1> DEFINE P == Len(descr)
           T == Controlled(P)
           Of(p) == IF p = 0 THEN <<>> ELSE Controls(p, descr[p])
           seqs == [n \in 1..StripSize |-> Of(strip[n - 1])]
           flat == FlattenSeq(seqs)
<1>1. /\ P \in Nat /\ StripSize \in Nat /\ descr \in Seq(DOMAIN Descriptors)
      /\ \A n \in 1..StripSize : n - 1 \in Slots
      /\ \A k \in Slots : strip[k] \in 0..P
  BY StripAssumption DEF Fitted, Slots
<1>2. \A p \in 0..P : /\ Of(p) \in Seq(T) /\ Distinct(Of(p))
                      /\ \A a \in Elements(Of(p)) : a[1] = p /\ p # 0
  <2> TAKE p \in 0..P
  <2>1. CASE p = 0
    <3>1. Of(p) = <<>>
      BY <2>1
    <3>2. Elements(<<>>) = {} /\ Distinct(<<>>) /\ <<>> \in Seq(T)
      BY DEF Elements, Distinct
    <3> HIDE DEF Of
    <3>3. QED
      BY <3>1, <3>2
  <2>2. CASE p # 0
    <3>1. Of(p) = Controls(p, descr[p]) /\ p \in 1..P /\ descr[p] \in DOMAIN Descriptors
      BY <1>1, <2>2
    <3> HIDE DEF Of
    <3>2. QED
      BY <3>1, <1>1, <2>2, ControlsKnown
  <2>3. QED
    BY <2>1, <2>2
<1> HIDE DEF Of, T
<1>3. seqs \in Seq(Seq(T)) /\ DOMAIN seqs = 1..StripSize /\ \A n \in 1..StripSize : seqs[n] = Of(strip[n - 1])
  BY <1>1, <1>2
<1> HIDE DEF seqs
<1>4. /\ flat \in Seq(T)
      /\ Elements(flat) = UNION {Elements(seqs[n]) : n \in DOMAIN seqs}
      /\ ((\A n \in DOMAIN seqs : Distinct(seqs[n]))
           /\ \A m, n \in DOMAIN seqs : m # n => Elements(seqs[m]) \cap Elements(seqs[n]) = {})
         => Distinct(flat)
  BY <1>3, FlatElements
<1> HIDE DEF flat
<1>5. OwnSlots(strip) => Distinct(flat)
  <2> SUFFICES ASSUME OwnSlots(strip) PROVE Distinct(flat)
    OBVIOUS
  <2>1. ASSUME NEW n \in 1..StripSize
        PROVE  /\ n - 1 \in Slots /\ strip[n - 1] \in 0..P
               /\ Distinct(seqs[n]) /\ \A a \in Elements(seqs[n]) : a[1] = strip[n - 1] /\ a[1] # 0
    <3>1. n - 1 \in Slots /\ strip[n - 1] \in 0..P /\ seqs[n] = Of(strip[n - 1])
      BY <1>1, <1>3
    <3>2. QED
      BY <3>1, <1>2
  <2>2. ASSUME NEW m \in 1..StripSize, NEW n \in 1..StripSize, m # n
        PROVE  Elements(seqs[m]) \cap Elements(seqs[n]) = {}
    <3>1. m - 1 \in Slots /\ n - 1 \in Slots /\ m - 1 # n - 1
      BY <2>2, <1>1
    <3>2. strip[m - 1] = strip[n - 1] => strip[m - 1] = 0
      BY <3>1 DEF OwnSlots
    <3>3. ASSUME NEW a \in Elements(seqs[m]), a \in Elements(seqs[n]) PROVE FALSE
      <4>1. a[1] = strip[m - 1] /\ a[1] # 0 /\ a[1] = strip[n - 1]
        BY <2>1, <3>3
      <4>2. QED
        BY <3>2, <4>1
    <3>4. QED
      BY <3>3
  <2>3. QED
    BY <1>3, <1>4, <2>1, <2>2
<1>6. \A a \in Elements(flat) : a[1] # 0
  <2> TAKE a \in Elements(flat)
  <2>1. PICK n \in 1..StripSize : a \in Elements(seqs[n])
    BY <1>3, <1>4
  <2>2. strip[n - 1] \in 0..P /\ seqs[n] = Of(strip[n - 1])
    BY <1>1, <1>3
  <2>3. QED
    BY <2>1, <2>2, <1>2
<1>7. (\A k \in Slots : strip[k] = 0) => Elements(flat) = {}
  <2> SUFFICES ASSUME \A k \in Slots : strip[k] = 0, NEW a \in Elements(flat) PROVE FALSE
    OBVIOUS
  <2>1. PICK n \in 1..StripSize : a \in Elements(seqs[n])
    BY <1>3, <1>4
  <2>2. strip[n - 1] = 0 /\ seqs[n] = Of(0) /\ 0 \in 0..P
    BY <1>1, <1>3
  <2>3. QED
    BY <2>1, <2>2, <1>2
<1>8. <<Fader>> \in Seq(T) /\ Elements(<<Fader>>) = {Fader} /\ Distinct(<<Fader>>) /\ Fader[1] = 0
  BY <1>1 DEF T, Controlled, Fader, Elements, Distinct
<1>9. Automatables(strip, descr) = <<Fader>> \o flat
  BY DEF Automatables, GenerateAutomatables, flat, seqs, Of
<1>10. /\ <<Fader>> \o flat \in Seq(T)
       /\ Elements(<<Fader>> \o flat) = Elements(<<Fader>>) \cup Elements(flat)
       /\ Distinct(<<Fader>>) /\ Distinct(flat) /\ Elements(<<Fader>>) \cap Elements(flat) = {}
            => Distinct(<<Fader>> \o flat)
  BY <1>4, <1>8, JoinedElements
<1>11. QED
  BY <1>5, <1>6, <1>7, <1>8, <1>9, <1>10 DEF T, P

\* The owners of the automation tracks.
Owners(ats) == [n \in DOMAIN ats |-> ats[n].automatable]

\* automatable_get_automation_track
LEMMA TrackFound ==
  ASSUME NEW P, NEW ats \in Seq(TrackOf(P)), NEW a
  PROVE  /\ Owners(ats) \in Seq(Controlled(P)) /\ DOMAIN Owners(ats) = DOMAIN ats
         /\ a \in Elements(Owners(ats)) =>
              GetTrack(ats, a) \in DOMAIN ats /\ Owners(ats)[GetTrack(ats, a)] = a
         /\ a \notin Elements(Owners(ats)) => GetTrack(ats, a) = 0
<1> DEFINE owners == Owners(ats)
<1>1. DOMAIN ats = 1..Len(ats) /\ Len(ats) \in Nat /\ \A n \in 1..Len(ats) : ats[n].automatable \in Controlled(P)
  <2>1. DOMAIN ats = 1..Len(ats) /\ Len(ats) \in Nat /\ \A n \in 1..Len(ats) : ats[n] \in TrackOf(P)
    OBVIOUS
  <2>2. \A at \in TrackOf(P) : at.automatable \in Controlled(P)
    BY DEF TrackOf
  <2>3. QED
    BY <2>1, <2>2
<1>2. owners = [n \in 1..Len(ats) |-> ats[n].automatable]
  BY <1>1 DEF Owners
<1>3. owners \in Seq(Controlled(P)) /\ DOMAIN owners = DOMAIN ats /\ Len(owners) = Len(ats)
  BY <1>1, <1>2
<1>4. GetTrack(ats, a) = ArrayIndexOf(owners, a)
  BY DEF GetTrack, Owners
<1> HIDE DEF owners
<1>5. ASSUME a \in Elements(owners)
      PROVE  ArrayIndexOf(owners, a) \in 1..Len(owners) /\ owners[ArrayIndexOf(owners, a)] = a
  <2>1. ArrayContains(owners, a)
    BY <1>5 DEF ArrayContains
  <2>2. QED
    BY <2>1, <1>3, IndexOfFirst
<1>6. ASSUME a \notin Elements(owners) PROVE ArrayIndexOf(owners, a) = 0
  BY <1>6 DEF ArrayIndexOf, ArrayContains
<1>7. QED
  BY <1>1, <1>3, <1>4, <1>5, <1>6 DEF owners

\* The tracks that automation_tracklist_update keeps have different owners, which are
\* automatables of the channel.
LEMMA NeededTracks ==
  ASSUME NEW P, NEW ats \in Seq(TrackOf(P)), NEW automatables \in Seq(Controlled(P))
  PROVE  /\ Needed(ats, automatables) \in Seq(TrackOf(P))
         /\ Distinct(Owners(Needed(ats, automatables)))
         /\ Elements(Owners(Needed(ats, automatables))) \subseteq Elements(automatables)
         /\ \A at \in Elements(Needed(ats, automatables)) : at \in Elements(ats)
<1> DEFINE first == {GetTrack(ats, a) : a \in Elements(automatables)}
           kept == Picked([n \in DOMAIN ats |-> n], first)
           rest == [m \in DOMAIN kept |-> ats[kept[m]]]
<1>1. Needed(ats, automatables) = rest
  BY DEF Needed
<1>2. \A n \in DOMAIN ats \cap first : \E a \in Elements(automatables) : n = GetTrack(ats, a) /\ ats[n].automatable = a
  <2> TAKE n \in DOMAIN ats \cap first
  <2>1. PICK a \in Elements(automatables) : n = GetTrack(ats, a)
    OBVIOUS
  <2>2. n # 0
    OBVIOUS
  <2>3. a \in Elements(Owners(ats))
    BY <2>1, <2>2, TrackFound
  <2>4. Owners(ats)[n] = a
    BY <2>1, <2>3, TrackFound
  <2>5. ats[n].automatable = a
    BY <2>4 DEF Owners
  <2>6. QED
    BY <2>1, <2>5
<1> HIDE DEF first, kept, rest
<1>3. kept = Picked([n \in DOMAIN ats |-> n], first) /\ rest = [m \in DOMAIN kept |-> ats[kept[m]]]
  BY DEF kept, rest
<1>4. /\ rest \in Seq(TrackOf(P)) /\ DOMAIN rest = DOMAIN kept
      /\ kept \in Seq(DOMAIN ats) /\ Distinct(kept) /\ Elements(kept) = DOMAIN ats \cap first
  <2>1. \A k, r :
          /\ k = Picked([n \in DOMAIN ats |-> n], first)
          /\ r = [m \in DOMAIN k |-> ats[k[m]]]
          => /\ r \in Seq(TrackOf(P)) /\ DOMAIN r = DOMAIN k
             /\ k \in Seq(DOMAIN ats) /\ Distinct(k) /\ Elements(k) = DOMAIN ats \cap first
             /\ \A n \in DOMAIN ats \cap first : ats[n] \in Elements(r)
    BY AtPicked
  <2>2. QED
    BY <1>3, <2>1
<1>5. \A m \in DOMAIN rest : /\ kept[m] \in DOMAIN ats \cap first /\ rest[m] = ats[kept[m]]
                             /\ Owners(rest)[m] = ats[kept[m]].automatable
  <2>1. \A m \in DOMAIN kept : kept[m] \in Elements(kept)
    BY DEF Elements
  <2>2. QED
    BY <1>3, <1>4, <2>1 DEF Owners
<1>6. DOMAIN Owners(rest) = DOMAIN rest
  BY DEF Owners
<1>7. Distinct(Owners(rest))
  <2> SUFFICES ASSUME NEW m \in DOMAIN rest, NEW n \in DOMAIN rest, Owners(rest)[m] = Owners(rest)[n]
               PROVE  m = n
    BY <1>6 DEF Distinct
  <2>1. ats[kept[m]].automatable = ats[kept[n]].automatable
    BY <1>5
  <2>2. kept[m] = GetTrack(ats, ats[kept[m]].automatable) /\ kept[n] = GetTrack(ats, ats[kept[n]].automatable)
    BY <1>2, <1>5
  <2>3. kept[m] = kept[n]
    BY <2>1, <2>2
  <2>4. QED
    BY <2>3, <1>4 DEF Distinct
<1>8. Elements(Owners(rest)) \subseteq Elements(automatables)
  BY <1>2, <1>5, <1>6 DEF Elements
<1>9. \A at \in Elements(rest) : at \in Elements(ats)
  BY <1>5 DEF Elements
<1>10. QED
  BY <1>1, <1>4, <1>7, <1>8, <1>9

\* Every automatable that has no track gets one, and it is hidden.
LEMMA MissingTracks ==
  ASSUME NEW P, NEW ats \in Seq(TrackOf(P)), NEW automatables \in Seq(Controlled(P)),
         Distinct(automatables)
  PROVE  /\ Missing(ats, automatables) \in Seq(TrackOf(P))
         /\ Distinct(Owners(Missing(ats, automatables)))
         /\ Elements(Owners(Missing(ats, automatables))) = Elements(automatables) \ Elements(Owners(ats))
         /\ \A at \in Elements(Missing(ats, automatables)) : ~at.visible
<1> DEFINE trackless == {a \in Elements(automatables) : GetTrack(ats, a) = 0}
           without == Picked(automatables, trackless)
           New(a) == AddAutomationTrack(AutomationTrackNew(a))
           new == [n \in DOMAIN without |-> New(without[n])]
<1>1. Missing(ats, automatables) = new
  BY DEF Missing
<1>2. \A a : DOMAIN New(a) = {"automatable", "visible"} /\ New(a).automatable = a /\ New(a).visible = FALSE
  <2> TAKE a
  <2> DEFINE blank == [automatable |-> NoAutomatable, visible |-> FALSE]
             owned == [blank EXCEPT !.automatable = a]
  <2>1. DOMAIN blank = {"automatable", "visible"} /\ blank.visible = FALSE
    OBVIOUS
  <2> HIDE DEF blank
  <2>2. DOMAIN owned = {"automatable", "visible"} /\ owned.automatable = a /\ owned.visible = FALSE
    BY <2>1
  <2>3. New(a) = [owned EXCEPT !.visible = FALSE]
    BY DEF AddAutomationTrack, AutomationTrackNew, SetAutomatable, blank
  <2> HIDE DEF owned, New
  <2>4. QED
    BY <2>2, <2>3
<1>3. \A a \in Controlled(P) : New(a) \in TrackOf(P) /\ New(a).automatable = a /\ New(a).visible = FALSE
  <2> TAKE a \in Controlled(P)
  <2>1. DOMAIN New(a) = {"automatable", "visible"} /\ New(a).automatable = a /\ New(a).visible = FALSE
    BY <1>2
  <2>2. New(a) = [field \in {"automatable", "visible"} |-> New(a)[field]]
    BY <2>1 DEF AddAutomationTrack, SetAutomatable
  <2> HIDE DEF New
  <2>3. New(a) \in TrackOf(P)
    BY <2>1, <2>2 DEF TrackOf
  <2>4. QED
    BY <2>1, <2>3
<1>4. trackless = Elements(automatables) \ Elements(Owners(ats))
  <2>1. ASSUME NEW a, a \in Elements(Owners(ats)) PROVE GetTrack(ats, a) # 0
    <3>1. GetTrack(ats, a) \in DOMAIN ats /\ 0 \notin DOMAIN ats
      BY <2>1, TrackFound
    <3>2. QED
      BY <3>1
  <2>2. \A a : a \notin Elements(Owners(ats)) => GetTrack(ats, a) = 0
    BY TrackFound
  <2>3. QED
    BY <2>1, <2>2
<1> HIDE DEF trackless, New
<1>5. /\ without \in Seq(Controlled(P)) /\ Distinct(without)
      /\ Elements(without) = Elements(automatables) \cap trackless
  BY PickedElements
<1> HIDE DEF without
<1>6. DOMAIN without = 1..Len(without) /\ Len(without) \in Nat /\ \A n \in DOMAIN without : without[n] \in Controlled(P)
  BY <1>5
<1>7. new \in Seq(TrackOf(P)) /\ DOMAIN new = DOMAIN without
  <2>1. new = [n \in 1..Len(without) |-> New(without[n])]
    BY <1>6
  <2>2. QED
    BY <2>1, <1>3, <1>6
<1>8. Owners(new) = without
  <2>1. without = [n \in DOMAIN without |-> without[n]]
    BY <1>5
  <2>2. QED
    BY <2>1, <1>3, <1>6 DEF Owners
<1>9. \A at \in Elements(new) : ~at.visible
  BY <1>3, <1>6 DEF Elements
<1>10. QED
  BY <1>1, <1>4, <1>5, <1>7, <1>8, <1>9

\* automation_tracklist_update: afterwards every automatable has exactly one track, and
\* what is visible was there before.
LEMMA Updated ==
  ASSUME NEW P, NEW ats \in Seq(TrackOf(P)), NEW automatables \in Seq(Controlled(P)),
         Distinct(automatables)
  PROVE  /\ Update(ats, automatables) \in Seq(TrackOf(P))
         /\ Distinct(Owners(Update(ats, automatables)))
         /\ Elements(Owners(Update(ats, automatables))) = Elements(automatables)
         /\ \A at \in Elements(Update(ats, automatables)) : at.visible => at \in Elements(ats)
<1> DEFINE kept == Needed(ats, automatables)
           new == Missing(kept, automatables)
<1>1. Update(ats, automatables) = kept \o new
  BY DEF Update
<1>2. /\ kept \in Seq(TrackOf(P)) /\ Distinct(Owners(kept))
      /\ Elements(Owners(kept)) \subseteq Elements(automatables)
      /\ \A at \in Elements(kept) : at \in Elements(ats)
  BY NeededTracks
<1> HIDE DEF kept
<1>3. /\ new \in Seq(TrackOf(P)) /\ Distinct(Owners(new))
      /\ Elements(Owners(new)) = Elements(automatables) \ Elements(Owners(kept))
      /\ \A at \in Elements(new) : ~at.visible
  BY <1>2, MissingTracks
<1> HIDE DEF new
<1>4. kept \o new \in Seq(TrackOf(P)) /\ Elements(kept \o new) = Elements(kept) \cup Elements(new)
  BY <1>2, <1>3, JoinedElements
<1>5. /\ Owners(kept) \in Seq(Controlled(P)) /\ DOMAIN Owners(kept) = DOMAIN kept
      /\ Owners(new) \in Seq(Controlled(P)) /\ DOMAIN Owners(new) = DOMAIN new
  BY <1>2, <1>3, TrackFound
<1>6. Owners(kept \o new) = Owners(kept) \o Owners(new)
  <2>1. /\ DOMAIN kept = 1..Len(kept) /\ DOMAIN new = 1..Len(new)
        /\ Len(kept) \in Nat /\ Len(new) \in Nat
        /\ Len(Owners(kept)) = Len(kept) /\ Len(Owners(new)) = Len(new)
    BY <1>2, <1>3, <1>5
  <2>2. /\ DOMAIN (kept \o new) = 1..(Len(kept) + Len(new))
        /\ \A n \in 1..Len(kept) : (kept \o new)[n] = kept[n]
        /\ \A n \in 1..(Len(kept) + Len(new)) : n \notin 1..Len(kept) => (kept \o new)[n] = new[n - Len(kept)]
    BY <1>2, <1>3
  <2>3. \A n \in 1..(Len(kept) + Len(new)) : n \notin 1..Len(kept) => n - Len(kept) \in 1..Len(new)
    BY <2>1
  <2> DEFINE left == Owners(kept)
             right == Owners(new)
             both == left \o right
  <2>4. /\ both = [n \in 1..Len(both) |-> both[n]] /\ Len(both) = Len(left) + Len(right)
        /\ \A n \in 1..Len(left) : both[n] = left[n]
        /\ \A n \in 1..(Len(left) + Len(right)) : n \notin 1..Len(left) => both[n] = right[n - Len(left)]
    <3>1. left \in Seq(Controlled(P)) /\ right \in Seq(Controlled(P))
      BY <1>5
    <3> HIDE DEF left, right
    <3>2. both \in Seq(Controlled(P)) /\ Len(both) = Len(left) + Len(right)
      BY <3>1
    <3>3. /\ \A n \in 1..Len(left) : both[n] = left[n]
          /\ \A n \in 1..(Len(left) + Len(right)) : n \notin 1..Len(left) => both[n] = right[n - Len(left)]
      BY <3>1
    <3> HIDE DEF both
    <3>4. both = [n \in 1..Len(both) |-> both[n]]
      BY <3>2, Enumerated
    <3>5. QED
      BY <3>2, <3>3, <3>4
  <2>5. \A n \in 1..(Len(kept) + Len(new)) : (kept \o new)[n].automatable = both[n]
    <3> TAKE n \in 1..(Len(kept) + Len(new))
    <3>1. CASE n \in 1..Len(kept)
      BY <3>1, <2>1, <2>2, <2>4 DEF Owners
    <3>2. CASE n \notin 1..Len(kept)
      <4>1. (kept \o new)[n] = new[n - Len(kept)] /\ n - Len(kept) \in DOMAIN new
        BY <3>2, <2>1, <2>2, <2>3
      <4>2. both[n] = right[n - Len(kept)]
        BY <3>2, <2>1, <2>4
      <4>3. QED
        BY <4>1, <4>2 DEF Owners
    <3>3. QED
      BY <3>1, <3>2
  <2>6. Owners(kept \o new) = [n \in 1..(Len(kept) + Len(new)) |-> (kept \o new)[n].automatable]
    BY <2>2 DEF Owners
  <2>7. both = [n \in 1..(Len(kept) + Len(new)) |-> both[n]]
    BY <2>1, <2>4
  <2> HIDE DEF both
  <2>8. Owners(kept \o new) = both
    BY <2>5, <2>6, <2>7
  <2>9. QED
    BY <2>8 DEF both
<1>7. /\ Elements(Owners(kept) \o Owners(new)) = Elements(Owners(kept)) \cup Elements(Owners(new))
      /\ Distinct(Owners(kept) \o Owners(new))
  BY <1>2, <1>3, <1>5, JoinedElements
<1>8. QED
  BY <1>1, <1>2, <1>3, <1>4, <1>6, <1>7

\* What a channel is while the project has P plugins.
Fields == {"name", "type", "alive", "strip", "ats", "lane"}
ChannelFit(channel, P) ==
  /\ DOMAIN channel = Fields
  /\ channel.type \in {"master", "midi", "bus"} /\ channel.alive \in BOOLEAN
  /\ channel.strip \in [Slots -> 0..P]
  /\ channel.ats \in Seq(TrackOf(P))
  /\ channel.lane \subseteq Controlled(P)

\* Only the fader's track is ever visible before the user selects another.
FaderShown(ats) == \A at \in Elements(ats) : at.visible => at.automatable = Fader

\* What a change of the automation leaves as it was.
SameStrip(old, new) ==
  /\ new.name = old.name /\ new.type = old.type /\ new.alive = old.alive /\ new.strip = old.strip

\* The rows of no plugin are automatables.
LEMMA RowTypes ==
  ASSUME NEW P \in Nat
  PROVE  Fader \in Controlled(P) /\ NoAutomatable \in Controlled(P)
BY DEF Fader, NoAutomatable, Controlled

\* automation_track_set_automatable on what is shown.
LEMMA ShownSet ==
  ASSUME NEW P, NEW ats \in Seq(TrackOf(P)), NEW a \in Controlled(P)
  PROVE  /\ SetShown(ats, a) \in Seq(TrackOf(P))
         /\ (\A at \in Elements(ats) : at.visible => at.automatable = a) =>
              Owners(SetShown(ats, a)) = Owners(ats)
<1> DEFINE set == SetShown(ats, a)
           New(at) == IF at.visible THEN SetAutomatable(at, a) ELSE at
<1>1. DOMAIN ats = 1..Len(ats) /\ Len(ats) \in Nat /\ \A n \in 1..Len(ats) : ats[n] \in TrackOf(P)
  OBVIOUS
<1>2. \A at \in TrackOf(P) : /\ New(at) \in TrackOf(P)
                             /\ (at.visible => at.automatable = a) => New(at).automatable = at.automatable
  <2> TAKE at \in TrackOf(P)
  <2>1. CASE at.visible
    <3>1. New(at) = [at EXCEPT !.automatable = a]
      BY <2>1 DEF SetAutomatable
    <3>2. /\ [at EXCEPT !.automatable = a] \in TrackOf(P)
          /\ [at EXCEPT !.automatable = a].automatable = a
      BY DEF TrackOf
    <3> HIDE DEF New
    <3>3. QED
      BY <2>1, <3>1, <3>2
  <2>2. CASE ~at.visible
    BY <2>2
  <2>3. QED
    BY <2>1, <2>2
<1>3. set = [n \in 1..Len(ats) |-> New(ats[n])]
  BY <1>1 DEF SetShown
<1> HIDE DEF New, set
<1>4. set \in Seq(TrackOf(P)) /\ DOMAIN set = 1..Len(ats)
  BY <1>1, <1>2, <1>3
<1>5. ASSUME \A at \in Elements(ats) : at.visible => at.automatable = a
      PROVE  Owners(set) = Owners(ats)
  <2>1. \A n \in 1..Len(ats) : set[n].automatable = ats[n].automatable
    <3> TAKE n \in 1..Len(ats)
    <3>1. ats[n] \in Elements(ats) /\ ats[n] \in TrackOf(P) /\ set[n] = New(ats[n])
      BY <1>1, <1>3 DEF Elements
    <3>2. ats[n].visible => ats[n].automatable = a
      BY <3>1, <1>5
    <3>3. QED
      BY <3>1, <3>2, <1>2
  <2>2. QED
    BY <2>1, <1>1, <1>4 DEF Owners
<1>6. QED
  BY <1>4, <1>5 DEF set

\* Exactly one track of each automatable, in the terms of these lemmas.
LEMMA EachOnce ==
  ASSUME NEW channel, NEW descr
  PROVE  OneTrackEach(channel, descr) <=>
           /\ Distinct(Owners(channel.ats))
           /\ Elements(Owners(channel.ats)) = Elements(Automatables(channel.strip, descr))
BY DEF OneTrackEach, Owners

\* automation_tracklist_widget_refresh of one track.
LEMMA LaneRefreshed ==
  ASSUME NEW descr, NEW P, P = Len(descr), descr \in Seq(DOMAIN Descriptors),
         NEW channel, ChannelFit(channel, P)
  PROVE  /\ ChannelFit(RefreshLane(channel, descr), P)
         /\ SameStrip(channel, RefreshLane(channel, descr))
         /\ FaderShown(channel.ats) =>
              Owners(RefreshLane(channel, descr).ats) = Owners(channel.ats)
<1> DEFINE visible == \E n \in DOMAIN channel.ats : channel.ats[n].visible
           ats == SetShown(channel.ats, Fader)
           lane == IF visible THEN Rows(channel, descr) ELSE {}
<1>1. P \in Nat /\ Fitted(channel.strip, descr) /\ channel.ats \in Seq(TrackOf(P))
  BY DEF ChannelFit, Fitted
<1>2. Rows(channel, descr) \subseteq Controlled(P)
  <2>1. Automatables(channel.strip, descr) \in Seq(Controlled(P))
    BY <1>1, AutomatablesKnown
  <2>2. Elements(Automatables(channel.strip, descr)) \subseteq Controlled(P)
    BY <2>1 DEF Elements
  <2>3. QED
    BY <2>2, <1>1, RowTypes DEF Rows
<1>3. lane \subseteq Controlled(P)
  BY <1>2
<1>4. /\ ats \in Seq(TrackOf(P))
      /\ FaderShown(channel.ats) => Owners(ats) = Owners(channel.ats)
  BY <1>1, RowTypes, ShownSet DEF FaderShown
<1>5. RefreshLane(channel, descr) = [channel EXCEPT !.ats = ats, !.lane = lane]
  BY DEF RefreshLane
<1> HIDE DEF ats, lane
<1>6. QED
  BY <1>3, <1>4, <1>5 DEF ChannelFit, Fields, SameStrip

\* track_setup: a new channel has the fader's track, and it is visible.
LEMMA NewTracks ==
  ASSUME NEW P \in Nat
  PROVE  /\ TrackSetup \in Seq(TrackOf(P)) /\ FaderShown(TrackSetup)
         /\ Distinct(Owners(TrackSetup)) /\ Elements(Owners(TrackSetup)) = {Fader}
<1> DEFINE none == <<>>
           fader == <<Fader>>
           ats == Update(none, fader)
           at == GetTrack(ats, Fader)
           setup == [ats EXCEPT ![at].visible = TRUE]
<1>1. TrackSetup = setup
  BY DEF TrackSetup, SetupTracklist, AutomationTracklistNew, GenerateAutomatables
<1>2. /\ fader \in Seq(Controlled(P)) /\ none \in Seq(TrackOf(P))
      /\ Distinct(fader) /\ Elements(fader) = {Fader}
  BY RowTypes DEF Distinct, Elements
<1> HIDE DEF none, fader
<1>3. ats \in Seq(TrackOf(P)) /\ Distinct(Owners(ats)) /\ Elements(Owners(ats)) = {Fader}
  <2>1. /\ Update(none, fader) \in Seq(TrackOf(P)) /\ Distinct(Owners(Update(none, fader)))
        /\ Elements(Owners(Update(none, fader))) = Elements(fader)
    BY <1>2, Updated
  <2>2. QED
    BY <1>2, <2>1
<1> HIDE DEF ats
<1>4. at \in DOMAIN ats
  BY <1>3, TrackFound
<1> DEFINE shownAt == [ats[at] EXCEPT !.visible = TRUE]
<1>5. ats[at] \in TrackOf(P)
  BY <1>3, <1>4
<1>6. shownAt \in TrackOf(P) /\ shownAt.automatable = ats[at].automatable
  BY <1>5 DEF TrackOf
<1>7. setup = [ats EXCEPT ![at] = shownAt]
  OBVIOUS
<1> HIDE DEF at, shownAt, setup
<1>8. setup \in Seq(TrackOf(P)) /\ DOMAIN setup = DOMAIN ats
  BY <1>3, <1>4, <1>6, <1>7
<1>9. \A n \in DOMAIN ats : setup[n].automatable = ats[n].automatable
  BY <1>6, <1>7, <1>8
<1>10. Owners(setup) = Owners(ats)
  BY <1>8, <1>9 DEF Owners
<1>11. FaderShown(setup)
  <2>1. \A n \in DOMAIN setup : setup[n].automatable \in Elements(Owners(setup))
    BY DEF Elements, Owners
  <2>2. QED
    BY <2>1, <1>3, <1>10 DEF FaderShown, Elements
<1>12. QED
  BY <1>1, <1>3, <1>8, <1>10, <1>11

\* channel_create: a new channel has an empty strip, and one automation track.
LEMMA ChannelCreated ==
  ASSUME NEW P \in Nat, NEW label, NEW type \in {"master", "midi", "bus"}
  PROVE  LET new == ChannelCreate(label, type)
         IN /\ ChannelFit(new, P) /\ new.strip = [k \in Slots |-> 0]
            /\ FaderShown(new.ats) /\ Distinct(Owners(new.ats)) /\ Elements(Owners(new.ats)) = {Fader}
<1> DEFINE new == ChannelCreate(label, type)
           empty == [k \in Slots |-> 0]
<1>1. /\ DOMAIN new = Fields /\ new.type = type /\ new.alive = TRUE /\ new.strip = empty
      /\ new.ats = TrackSetup /\ new.lane = {}
  BY DEF ChannelCreate, Fields
<1>2. empty \in [Slots -> 0..P]
  OBVIOUS
<1> HIDE DEF new, empty
<1>3. /\ TrackSetup \in Seq(TrackOf(P)) /\ FaderShown(TrackSetup)
      /\ Distinct(Owners(TrackSetup)) /\ Elements(Owners(TrackSetup)) = {Fader}
  BY NewTracks
<1>4. ChannelFit(new, P)
  BY <1>1, <1>2, <1>3 DEF ChannelFit
<1>5. QED
  BY <1>1, <1>3, <1>4 DEF new, empty

\* Only the fader's track is visible after an update, if it was before.
LEMMA UpdatedShown ==
  ASSUME NEW P, NEW ats \in Seq(TrackOf(P)), NEW automatables \in Seq(Controlled(P)),
         Distinct(automatables), FaderShown(ats)
  PROVE  FaderShown(Update(ats, automatables))
BY Updated DEF FaderShown

\* What the strip holds that the automation tracks are updated from: no plugin twice.
LEMMA StripsOwned ==
  ASSUME NEW P \in Nat, NEW strip \in [Slots -> 0..P], OwnSlots(strip), NEW pos \in Slots,
         NEW p \in 0..P, \A k \in Slots : p # 0 => strip[k] # p
  PROVE  LET new == [strip EXCEPT ![pos] = p] IN new \in [Slots -> 0..P] /\ OwnSlots(new)
<1> DEFINE new == [strip EXCEPT ![pos] = p]
<1>1. new \in [Slots -> 0..P] /\ new[pos] = p /\ \A k \in Slots : k # pos => new[k] = strip[k]
  OBVIOUS
<1> HIDE DEF new
<1>2. OwnSlots(new)
  <2> SUFFICES ASSUME NEW k \in Slots, NEW m \in Slots, new[k] = new[m], new[k] # 0 PROVE k = m
    BY DEF OwnSlots
  <2>1. CASE k = pos \/ m = pos
    BY <2>1, <1>1
  <2>2. CASE k # pos /\ m # pos
    BY <2>2, <1>1 DEF OwnSlots
  <2>3. QED
    BY <2>1, <2>2
<1>3. QED
  BY <1>1, <1>2 DEF new

\* channel_add_plugin, and channel_remove_plugin before it: the plugin is in the strip, and
\* every automatable has one track again, whichever of the two strips the first update read.
LEMMA PluginAdded ==
  ASSUME NEW descr \in Seq(DOMAIN Descriptors), NEW P, P = Len(descr),
         NEW channel, ChannelFit(channel, P), OwnSlots(channel.strip),
         NEW pos \in Slots, NEW p \in 1..P, \A k \in Slots : channel.strip[k] # p,
         NEW read \in ReadStrips(channel, pos)
  PROVE  LET filled == AddPlugin(channel, pos, p, read, descr)
         IN /\ ChannelFit(filled, P) /\ filled.strip = [channel.strip EXCEPT ![pos] = p]
            /\ filled.name = channel.name /\ filled.type = channel.type /\ filled.alive = channel.alive
            /\ OwnSlots(filled.strip) /\ OneTrackEach(filled, descr)
            /\ FaderShown(channel.ats) => FaderShown(filled.ats)
<1> DEFINE filled == AddPlugin(channel, pos, p, read, descr)
           strip == [channel.strip EXCEPT ![pos] = p]
           first == Update(channel.ats, Automatables(read, descr))
           second == Update(first, Automatables(strip, descr))
<1>1. P \in Nat /\ channel.strip \in [Slots -> 0..P] /\ channel.ats \in Seq(TrackOf(P))
  BY DEF ChannelFit
<1>2. read \in [Slots -> 0..P] /\ OwnSlots(read)
  <2>1. 0 \in 0..P
    BY <1>1
  <2>2. LET none == [channel.strip EXCEPT ![pos] = 0] IN none \in [Slots -> 0..P] /\ OwnSlots(none)
    BY <1>1, <2>1, StripsOwned
  <2>3. QED
    BY <1>1, <2>2 DEF ReadStrips
<1>3. strip \in [Slots -> 0..P] /\ OwnSlots(strip)
  <2>1. p \in 0..P
    BY <1>1
  <2>2. QED
    BY <1>1, <2>1, StripsOwned
<1>4. /\ filled = [[channel EXCEPT !.ats = first] EXCEPT !.strip = strip, !.ats = second]
  <2>1. DOMAIN channel = Fields
    BY DEF ChannelFit
  <2>2. [channel EXCEPT !.ats = first].ats = first
    BY <2>1 DEF Fields
  <2>3. filled = [[channel EXCEPT !.ats = first] EXCEPT !.strip = strip,
                     !.ats = Update([channel EXCEPT !.ats = first].ats, Automatables(strip, descr))]
    BY DEF AddPlugin, RemovePlugin
  <2> HIDE DEF filled, first, strip
  <2>4. QED
    BY <2>2, <2>3
<1> HIDE DEF strip, filled
<1>5. /\ Automatables(read, descr) \in Seq(Controlled(P)) /\ Distinct(Automatables(read, descr))
      /\ Automatables(strip, descr) \in Seq(Controlled(P)) /\ Distinct(Automatables(strip, descr))
  BY <1>2, <1>3, AutomatablesKnown DEF Fitted
<1>6. first \in Seq(TrackOf(P)) /\ (FaderShown(channel.ats) => FaderShown(first))
  BY <1>1, <1>5, Updated, UpdatedShown
<1> HIDE DEF first
<1>7. /\ second \in Seq(TrackOf(P)) /\ (FaderShown(first) => FaderShown(second))
      /\ Distinct(Owners(second)) /\ Elements(Owners(second)) = Elements(Automatables(strip, descr))
  BY <1>5, <1>6, Updated, UpdatedShown
<1> HIDE DEF second
<1>8. /\ DOMAIN filled = Fields /\ filled.strip = strip /\ filled.ats = second
      /\ filled.name = channel.name /\ filled.type = channel.type /\ filled.alive = channel.alive
      /\ filled.lane = channel.lane
  BY <1>4 DEF ChannelFit, Fields
<1>9. ChannelFit(filled, P)
  BY <1>3, <1>7, <1>8 DEF ChannelFit
<1>10. OneTrackEach(filled, descr)
  BY <1>7, <1>8, EachOnce
<1>11. QED
  BY <1>3, <1>6, <1>7, <1>8, <1>9, <1>10 DEF filled, strip

-----------------------------------------------------------------------------

\* The plugins of a project, and what they were made from.
PluginType == [descr : DOMAIN Descriptors, freed : BOOLEAN]
DescrOf(ps) == [p \in DOMAIN ps |-> ps[p].descr]

\* No plugin is in two slots, of whatever channels.
Owned(list) ==
  \A a, b \in DOMAIN list : \A j, k \in Slots :
    list[a].strip[j] = list[b].strip[k] /\ list[a].strip[j] # 0 => a = b /\ j = k

\* What the channels, the connections and the plugins of a project are to each other.
StripsFit(list, ws, ps) ==
  /\ ps \in Seq(PluginType) /\ ws \in Seq(AnyWire)
  /\ \A c \in DOMAIN list : ChannelFit(list[c], Len(ps))
  /\ Owned(list)
  /\ \A c \in DOMAIN list : list[c].alive => HeardBy(ws, DescrOf(ps), c, list[c].strip)

\* The descriptors of the plugins.
LEMMA DescrKnown ==
  ASSUME NEW ps \in Seq(PluginType)
  PROVE  DescrOf(ps) \in Seq(DOMAIN Descriptors) /\ Len(DescrOf(ps)) = Len(ps)
<1>1. DOMAIN ps = 1..Len(ps) /\ Len(ps) \in Nat /\ \A p \in 1..Len(ps) : ps[p] \in PluginType
  OBVIOUS
<1>2. \A plugin \in PluginType : plugin.descr \in DOMAIN Descriptors
  BY DEF PluginType
<1>3. DescrOf(ps) = [p \in 1..Len(ps) |-> ps[p].descr]
  BY <1>1 DEF DescrOf
<1>4. QED
  BY <1>1, <1>2, <1>3

\* A plugin more.
LEMMA DescrMore ==
  ASSUME NEW ps \in Seq(PluginType), NEW d \in DOMAIN Descriptors, NEW freed \in BOOLEAN
  PROVE  LET more == Append(ps, [descr |-> d, freed |-> freed])
         IN /\ more \in Seq(PluginType) /\ Len(more) = Len(ps) + 1
            /\ DescrOf(more) = Append(DescrOf(ps), d)
            /\ \A p \in 1..Len(ps) : DescrOf(more)[p] = DescrOf(ps)[p]
<1> DEFINE new == [descr |-> d, freed |-> freed]
           more == Append(ps, new)
           N == Len(ps)
<1>1. new \in PluginType /\ new.descr = d
  BY DEF PluginType
<1> HIDE DEF new
<1>2. /\ more \in Seq(PluginType) /\ Len(more) = N + 1 /\ N \in Nat /\ DOMAIN ps = 1..N
      /\ DOMAIN more = 1..(N + 1)
      /\ (\A p \in 1..N : more[p] = ps[p]) /\ more[N + 1] = new
  BY <1>1
<1> HIDE DEF more
<1>3. /\ DescrOf(more) \in Seq(DOMAIN Descriptors) /\ Len(DescrOf(more)) = N + 1
      /\ DescrOf(ps) \in Seq(DOMAIN Descriptors) /\ Len(DescrOf(ps)) = N
  BY <1>2, DescrKnown
<1>4. /\ \A p \in 1..N : DescrOf(more)[p] = DescrOf(ps)[p]
      /\ DescrOf(more)[N + 1] = d
  BY <1>1, <1>2 DEF DescrOf
<1> DEFINE longer == Append(DescrOf(ps), d)
<1>5. /\ longer \in Seq(DOMAIN Descriptors) /\ Len(longer) = N + 1
      /\ (\A p \in 1..N : longer[p] = DescrOf(ps)[p]) /\ longer[N + 1] = d
  BY <1>2, <1>3
<1> HIDE DEF longer
<1>6. \A p \in 1..(N + 1) : longer[p] = DescrOf(more)[p]
  BY <1>2, <1>4, <1>5
<1>7. longer = DescrOf(more)
  BY <1>3, <1>5, <1>6
<1>8. QED
  BY <1>2, <1>4, <1>7 DEF more, new, longer

\* A channel that fits, fits when there are more plugins.
LEMMA FitsMore ==
  ASSUME NEW P \in Nat, NEW Q \in Nat, P <= Q, NEW channel, ChannelFit(channel, P)
  PROVE  ChannelFit(channel, Q)
<1>1. 0..P \subseteq 0..Q
  OBVIOUS
<1>2. Controlled(P) \subseteq Controlled(Q) /\ TrackOf(P) \subseteq TrackOf(Q)
  BY <1>1 DEF Controlled, TrackOf
<1>3. channel.ats \in Seq(TrackOf(Q)) /\ channel.strip \in [Slots -> 0..Q] /\ channel.lane \subseteq Controlled(Q)
  BY <1>1, <1>2 DEF ChannelFit
<1>4. QED
  BY <1>3 DEF ChannelFit

\* Where the strips stay as they are, whatever happens to the automation.
LEMMA StripsStay ==
  ASSUME NEW list, NEW ws, NEW ps, StripsFit(list, ws, ps), NEW new, DOMAIN new = DOMAIN list,
         \A c \in DOMAIN list : /\ ChannelFit(new[c], Len(ps))
                                /\ new[c].alive => list[c].alive
                                /\ new[c].strip = list[c].strip
  PROVE  StripsFit(new, ws, ps)
BY DEF StripsFit, Owned

\* A refresh of the lanes.
LEMMA LanesRefreshed ==
  ASSUME NEW list, NEW ws, NEW ps, StripsFit(list, ws, ps), NEW refreshed
  PROVE  LET new == RefreshLanes(list, refreshed, DescrOf(ps))
         IN /\ StripsFit(new, ws, ps) /\ DOMAIN new = DOMAIN list
            /\ \A c \in DOMAIN list : new[c].strip = list[c].strip
            /\ \A c \in DOMAIN list : FaderShown(list[c].ats) /\ OneTrackEach(list[c], DescrOf(ps))
                                        => OneTrackEach(new[c], DescrOf(ps))
<1> DEFINE descr == DescrOf(ps)
           new == RefreshLanes(list, refreshed, descr)
<1>1. descr \in Seq(DOMAIN Descriptors) /\ Len(descr) = Len(ps)
  BY DescrKnown DEF StripsFit
<1>2. /\ DOMAIN new = DOMAIN list
      /\ \A c \in DOMAIN list : new[c] = list[c] \/ new[c] = RefreshLane(list[c], descr)
  BY DEF RefreshLanes
<1> HIDE DEF new, descr
<1>3. ASSUME NEW c \in DOMAIN list
      PROVE  /\ ChannelFit(new[c], Len(ps)) /\ new[c].alive = list[c].alive /\ new[c].strip = list[c].strip
             /\ FaderShown(list[c].ats) /\ OneTrackEach(list[c], descr) => OneTrackEach(new[c], descr)
  <2>1. ChannelFit(list[c], Len(ps))
    BY DEF StripsFit
  <2> DEFINE lane == RefreshLane(list[c], descr)
  <2>2. /\ ChannelFit(lane, Len(ps)) /\ SameStrip(list[c], lane)
        /\ FaderShown(list[c].ats) => Owners(lane.ats) = Owners(list[c].ats)
    BY <1>1, <2>1, LaneRefreshed
  <2>3. CASE new[c] = list[c]
    BY <2>1, <2>3
  <2> HIDE DEF lane
  <2>4. CASE new[c] = lane
    <3>1. /\ ChannelFit(new[c], Len(ps)) /\ new[c].alive = list[c].alive /\ new[c].strip = list[c].strip
          /\ FaderShown(list[c].ats) => Owners(new[c].ats) = Owners(list[c].ats)
      BY <2>2, <2>4 DEF SameStrip
    <3>2. QED
      BY <3>1, EachOnce
  <2>5. QED
    BY <1>2, <2>3, <2>4 DEF lane
<1>4. StripsFit(new, ws, ps)
  BY <1>2, <1>3, StripsStay
<1>5. QED
  BY <1>2, <1>3, <1>4 DEF new, descr

\* The plugins of a strip are plugins of the project, and so is what it was made from.
LEMMA FitStrip ==
  ASSUME NEW list, NEW ws, NEW ps, StripsFit(list, ws, ps), NEW c \in DOMAIN list
  PROVE  /\ Fitted(list[c].strip, DescrOf(ps)) /\ OwnSlots(list[c].strip)
         /\ list[c].strip \in [Slots -> 0..Len(ps)]
<1>1. DescrOf(ps) \in Seq(DOMAIN Descriptors) /\ Len(DescrOf(ps)) = Len(ps)
  BY DescrKnown DEF StripsFit
<1>2. QED
  BY <1>1 DEF StripsFit, Fitted, ChannelFit, Owned, OwnSlots

\* A plugin that is made, or freed, changes nothing for the strips.
LEMMA PluginsMore ==
  ASSUME NEW list, NEW ws, NEW ps, StripsFit(list, ws, ps),
         NEW more \in Seq(PluginType), Len(ps) <= Len(more),
         \A p \in 1..Len(ps) : DescrOf(more)[p] = DescrOf(ps)[p]
  PROVE  StripsFit(list, ws, more)
<1>1. ps \in Seq(PluginType) /\ Len(ps) \in Nat /\ Len(more) \in Nat
  BY DEF StripsFit
<1>2. \A c \in DOMAIN list : ChannelFit(list[c], Len(more))
  BY <1>1, FitsMore DEF StripsFit
<1>3. Len(DescrOf(ps)) = Len(ps)
  BY <1>1, DescrKnown
<1>4. \A c \in DOMAIN list : list[c].alive => HeardBy(ws, DescrOf(more), c, list[c].strip)
  BY <1>3, FitStrip, HeardLater DEF StripsFit
<1>5. QED
  BY <1>2, <1>4 DEF StripsFit

\* Connections that are made or lost elsewhere.
LEMMA HeardElsewhere ==
  ASSUME NEW list, NEW ws, NEW ps, StripsFit(list, ws, ps), NEW new, NEW touched,
         Spares(ws, new, touched), NEW c \in DOMAIN list, list[c].alive,
         StereoOuts(c) \cap touched = {},
         \A k \in Slots : list[c].strip[k] # 0 => PlugPort(list[c].strip[k]) \cap touched = {}
  PROVE  HeardBy(new, DescrOf(ps), c, list[c].strip)
<1>1. Fitted(list[c].strip, DescrOf(ps)) /\ HeardBy(ws, DescrOf(ps), c, list[c].strip)
  BY FitStrip DEF StripsFit
<1>2. QED
  BY <1>1, StillHeard

\* An empty strip is heard.
LEMMA EmptyHeard ==
  ASSUME NEW ws, NEW descr, NEW c, NEW strip, \A k \in Slots : strip[k] = 0
  PROVE  HeardBy(ws, descr, c, strip)
BY DEF HeardBy

\* A channel that is added, while nothing of the other channels is touched.
LEMMA ChannelAppended ==
  ASSUME NEW list, Named(list), NEW ws, NEW ps, StripsFit(list, ws, ps),
         NEW channel, ChannelFit(channel, Len(ps)), OwnSlots(channel.strip),
         \A d \in DOMAIN list : \A j, k \in Slots :
           channel.strip[k] # 0 => list[d].strip[j] # channel.strip[k],
         NEW new \in Seq(AnyWire), NEW touched, Spares(ws, new, touched),
         \A d \in DOMAIN list :
           /\ StereoOuts(d) \cap touched = {}
           /\ \A k \in Slots : list[d].strip[k] # 0 => PlugPort(list[d].strip[k]) \cap touched = {},
         HeardBy(new, DescrOf(ps), Len(list) + 1, channel.strip)
  PROVE  StripsFit(Append(list, channel), new, ps)
<1> DEFINE all == Append(list, channel)
           N == Len(list)
<1>1. /\ Named(all) /\ Len(all) = N + 1
      /\ (\A c \in DOMAIN list : all[c] = list[c]) /\ all[N + 1] = channel
  <2>1. "name" \in DOMAIN channel
    BY DEF ChannelFit, Fields
  <2>2. QED
    BY <2>1, AppendNames
<1> HIDE DEF all
<1>2. DOMAIN list = 1..N /\ N \in Nat /\ DOMAIN all = 1..(N + 1)
  BY <1>1 DEF Named
<1>3. \A c \in DOMAIN all : (c \in DOMAIN list /\ all[c] = list[c]) \/ (c = N + 1 /\ all[c] = channel)
  BY <1>1, <1>2
<1>4. \A c \in DOMAIN all : ChannelFit(all[c], Len(ps))
  BY <1>3 DEF StripsFit
<1>5. Owned(all)
  <2> SUFFICES ASSUME NEW a \in DOMAIN all, NEW b \in DOMAIN all, NEW j \in Slots, NEW k \in Slots,
                      all[a].strip[j] = all[b].strip[k], all[a].strip[j] # 0
               PROVE  a = b /\ j = k
    BY DEF Owned
  <2>1. CASE a \in DOMAIN list /\ b \in DOMAIN list
    <3>1. list[a].strip[j] = list[b].strip[k] /\ list[a].strip[j] # 0
      BY <2>1, <1>1
    <3>2. QED
      BY <3>1, <2>1 DEF StripsFit, Owned
  <2>2. CASE a \in DOMAIN list /\ b \notin DOMAIN list
    <3>1. all[a] = list[a] /\ all[b] = channel
      BY <2>2, <1>1, <1>3
    <3>2. QED
      BY <3>1, <2>2
  <2>3. CASE a \notin DOMAIN list /\ b \in DOMAIN list
    <3>1. all[a] = channel /\ all[b] = list[b]
      BY <2>3, <1>1, <1>3
    <3>2. QED
      BY <3>1, <2>3
  <2>4. CASE a \notin DOMAIN list /\ b \notin DOMAIN list
    <3>1. a = N + 1 /\ b = N + 1 /\ all[a] = channel /\ all[b] = channel
      BY <2>4, <1>3
    <3>2. QED
      BY <3>1 DEF OwnSlots
  <2>5. QED
    BY <2>1, <2>2, <2>3, <2>4
<1>6. ASSUME NEW c \in DOMAIN all, all[c].alive PROVE HeardBy(new, DescrOf(ps), c, all[c].strip)
  <2>1. CASE c \in DOMAIN list
    <3>1. all[c] = list[c] /\ list[c].alive
      BY <2>1, <1>1, <1>6
    <3>2. HeardBy(new, DescrOf(ps), c, list[c].strip)
      BY <2>1, <3>1, HeardElsewhere
    <3>3. QED
      BY <3>1, <3>2
  <2>2. CASE c \notin DOMAIN list
    BY <2>2, <1>3
  <2>3. QED
    BY <2>1, <2>2
<1>7. QED
  BY <1>4, <1>5, <1>6 DEF StripsFit, all

\* A plugin that is dropped on a slot, in the place of another or of none.
LEMMA PluginDropped ==
  ASSUME NEW list, Named(list), NEW ws, NEW ps, StripsFit(list, ws, ps),
         NEW c \in DOMAIN list, NEW pos \in Slots, NEW p \in 1..Len(ps),
         \A d \in DOMAIN list : \A k \in Slots : list[d].strip[k] # p,
         NEW read \in ReadStrips(list[c], pos)
  PROVE  LET filled == AddPlugin(list[c], pos, p, read, DescrOf(ps))
         IN /\ StripsFit([list EXCEPT ![c] = filled],
                         AddWires(ws, c, list[c], pos, p, DescrOf(ps)), ps)
            /\ OneTrackEach(filled, DescrOf(ps))
<1> DEFINE descr == DescrOf(ps)
           filled == AddPlugin(list[c], pos, p, read, descr)
           new == [list EXCEPT ![c] = filled]
           out == AddWires(ws, c, list[c], pos, p, descr)
           old == list[c].strip[pos]
           touched == StereoIns(c) \cup PlugPort(old)
<1>1. /\ ps \in Seq(PluginType) /\ ws \in Seq(AnyWire) /\ ChannelFit(list[c], Len(ps)) /\ Len(ps) \in Nat
      /\ DOMAIN list = 1..Len(list) /\ Len(list) \in Nat /\ c \in Nat
  BY DEF StripsFit, Named
<1>2. descr \in Seq(DOMAIN Descriptors) /\ Len(descr) = Len(ps)
  BY <1>1, DescrKnown
<1>3. Fitted(list[c].strip, descr) /\ OwnSlots(list[c].strip) /\ list[c].strip \in [Slots -> 0..Len(ps)]
  BY FitStrip
<1> HIDE DEF descr
<1>4. /\ ChannelFit(filled, Len(ps)) /\ filled.strip = [list[c].strip EXCEPT ![pos] = p]
      /\ filled.name = list[c].name /\ filled.type = list[c].type /\ filled.alive = list[c].alive
      /\ OwnSlots(filled.strip) /\ OneTrackEach(filled, descr)
      /\ FaderShown(list[c].ats) => FaderShown(filled.ats)
  BY <1>1, <1>2, <1>3, PluginAdded
<1>5. /\ out \in Seq(AnyWire) /\ Spares(ws, out, touched)
      /\ HeardBy(ws, descr, c, list[c].strip) =>
           HeardBy(out, descr, c, [list[c].strip EXCEPT ![pos] = p])
  BY <1>1, <1>2, <1>3, Plugged DEF OwnSlots
<1>6. /\ DOMAIN new = DOMAIN list /\ new[c] = filled /\ \A d \in DOMAIN list : d # c => new[d] = list[d]
  OBVIOUS
<1> HIDE DEF filled, new, out
<1>7. \A k \in Slots : filled.strip[k] = IF k = pos THEN p ELSE list[c].strip[k]
  BY <1>3, <1>4
<1>8. \A d \in DOMAIN new : ChannelFit(new[d], Len(ps))
  BY <1>4, <1>6 DEF StripsFit
<1>9. Owned(new)
  <2> SUFFICES ASSUME NEW a \in DOMAIN list, NEW b \in DOMAIN list, NEW j \in Slots, NEW k \in Slots,
                      new[a].strip[j] = new[b].strip[k], new[a].strip[j] # 0
               PROVE  a = b /\ j = k
    BY <1>6 DEF Owned
  <2> DEFINE Here(d, m) == d = c /\ m = pos
  <2>1. \A d \in DOMAIN list, m \in Slots : new[d].strip[m] = IF Here(d, m) THEN p ELSE list[d].strip[m]
    BY <1>6, <1>7
  <2>2. CASE Here(a, j) /\ Here(b, k)
    BY <2>2
  <2>3. CASE Here(a, j) /\ ~Here(b, k)
    <3>1. new[a].strip[j] = p /\ new[b].strip[k] = list[b].strip[k]
      BY <2>1, <2>3
    <3>2. QED
      BY <3>1
  <2>4. CASE ~Here(a, j) /\ Here(b, k)
    <3>1. new[a].strip[j] = list[a].strip[j] /\ new[b].strip[k] = p
      BY <2>1, <2>4
    <3>2. QED
      BY <3>1
  <2>5. CASE ~Here(a, j) /\ ~Here(b, k)
    <3>1. list[a].strip[j] = list[b].strip[k] /\ list[a].strip[j] # 0
      BY <2>1, <2>5
    <3>2. QED
      BY <3>1 DEF StripsFit, Owned
  <2>6. QED
    BY <2>2, <2>3, <2>4, <2>5
<1>10. ASSUME NEW d \in DOMAIN new, new[d].alive PROVE HeardBy(out, descr, d, new[d].strip)
  <2>1. CASE d = c
    <3>1. list[c].alive
      BY <2>1, <1>4, <1>6, <1>10
    <3>2. HeardBy(ws, descr, c, list[c].strip)
      BY <3>1 DEF StripsFit, descr
    <3>3. QED
      BY <2>1, <3>2, <1>4, <1>5, <1>6
  <2>2. CASE d # c
    <3>1. d \in DOMAIN list /\ new[d] = list[d] /\ list[d].alive
      BY <2>2, <1>6, <1>10
    <3>2. StereoOuts(d) \cap touched = {}
      BY PortsApart
    <3>3. ASSUME NEW k \in Slots, list[d].strip[k] # 0 PROVE PlugPort(list[d].strip[k]) \cap touched = {}
      <4>1. list[d].strip[k] # old
        BY <2>2, <3>1, <3>3 DEF StripsFit, Owned
      <4>2. QED
        BY <4>1, PortsApart
    <3> HIDE DEF touched
    <3>4. HeardBy(out, DescrOf(ps), d, list[d].strip)
      BY <3>1, <3>2, <3>3, <1>5, HeardElsewhere
    <3>5. QED
      BY <3>1, <3>4 DEF descr
  <2>3. QED
    BY <2>1, <2>2
<1>11. StripsFit(new, out, ps)
  BY <1>1, <1>5, <1>8, <1>9, <1>10 DEF StripsFit, descr
<1>12. QED
  BY <1>4, <1>11 DEF new, out, filled, descr

\* The plugins of a strip.
LEMMA StripPluginsKnown ==
  ASSUME NEW P \in Nat, NEW strip \in [Slots -> 0..P]
  PROVE  /\ StripPlugins(strip) \in Seq(1..P)
         /\ \A p \in Elements(StripPlugins(strip)) : \E k \in Slots : strip[k] = p /\ p # 0
<1> DEFINE row == [n \in 1..StripSize |-> strip[n - 1]]
           found == Picked(row, Nat \ {0})
<1>1. StripSize \in Nat /\ \A n \in 1..StripSize : n - 1 \in Slots
  BY StripAssumption DEF Slots
<1>2. row \in Seq(0..P) /\ \A p \in Elements(row) : \E k \in Slots : strip[k] = p
  <2>1. \A n \in 1..StripSize : row[n] \in 0..P
    BY <1>1
  <2>2. row \in Seq(0..P)
    BY <1>1, <2>1
  <2>3. \A p \in Elements(row) : \E k \in Slots : strip[k] = p
    BY <1>1 DEF Elements
  <2>4. QED
    BY <2>2, <2>3
<1> HIDE DEF row
<1>3. found \in Seq(0..P) /\ Elements(found) = Elements(row) \cap (Nat \ {0})
  BY <1>2, PickedElements
<1> HIDE DEF found
<1>4. DOMAIN found = 1..Len(found) /\ Len(found) \in Nat /\ \A n \in 1..Len(found) : found[n] \in 1..P
  <2>1. \A n \in DOMAIN found : found[n] \in Elements(found) /\ found[n] \in 0..P
    BY <1>3 DEF Elements
  <2>2. QED
    BY <1>3, <2>1
<1>5. found \in Seq(1..P)
  BY <1>3, <1>4
<1>6. StripPlugins(strip) = found
  BY DEF StripPlugins, found, row
<1>7. QED
  BY <1>2, <1>3, <1>5, <1>6

\* channel_free: only ports of the channel and of its plugins are freed.
LEMMA ChannelRemoved ==
  ASSUME NEW list, Named(list), NEW ws, NEW ps, StripsFit(list, ws, ps), NEW c \in DOMAIN list
  PROVE  LET gone == StripPlugins(list[c].strip)
             ports == FlattenSeq([n \in DOMAIN gone |-> PluginPorts(gone[n], DescrOf(ps)[gone[n]])])
         IN StripsFit([list EXCEPT ![c] = [list[c] EXCEPT !.alive = FALSE]],
                      PortsFree(ws, ports \o ChannelPorts(c)), ps)
<1> DEFINE descr == DescrOf(ps)
           P == Len(ps)
           gone == StripPlugins(list[c].strip)
           Of(p) == PluginPorts(p, descr[p])
           seqs == [n \in DOMAIN gone |-> Of(gone[n])]
           ports == FlattenSeq(seqs)
           freed == ports \o ChannelPorts(c)
           out == PortsFree(ws, freed)
           ended == [list[c] EXCEPT !.alive = FALSE]
           new == [list EXCEPT ![c] = ended]
<1>1. /\ ps \in Seq(PluginType) /\ ws \in Seq(AnyWire) /\ ChannelFit(list[c], P) /\ P \in Nat
      /\ DOMAIN list = 1..Len(list) /\ Len(list) \in Nat /\ c \in Nat
  BY DEF StripsFit, Named
<1>2. descr \in Seq(DOMAIN Descriptors) /\ Len(descr) = P
  BY <1>1, DescrKnown
<1>3. list[c].strip \in [Slots -> 0..P]
  BY FitStrip
<1> HIDE DEF descr, P
<1>4. /\ gone \in Seq(1..P)
      /\ \A p \in Elements(gone) : \E k \in Slots : list[c].strip[k] = p /\ p # 0
  BY <1>1, <1>3, StripPluginsKnown
<1> HIDE DEF gone
<1>5. DOMAIN gone = 1..Len(gone) /\ Len(gone) \in Nat /\ \A n \in DOMAIN gone : gone[n] \in 1..P /\ gone[n] \in Elements(gone)
  <2>1. DOMAIN gone = 1..Len(gone) /\ Len(gone) \in Nat /\ \A n \in DOMAIN gone : gone[n] \in 1..P
    <3> DEFINE T == 1..P
    <3>1. gone \in Seq(T)
      BY <1>4
    <3> HIDE DEF T
    <3>2. DOMAIN gone = 1..Len(gone) /\ Len(gone) \in Nat /\ \A n \in DOMAIN gone : gone[n] \in T
      BY <3>1
    <3>3. QED
      BY <3>2 DEF T
  <2>2. \A n \in DOMAIN gone : gone[n] \in Elements(gone)
    BY DEF Elements
  <2>3. QED
    BY <2>1, <2>2
<1>6. \A p \in 1..P : Of(p) \in Seq(AnyPort) /\ Elements(Of(p)) \subseteq PlugPort(p)
  <2> TAKE p \in 1..P
  <2>1. p \in Nat /\ descr[p] \in DOMAIN Descriptors
    BY <1>1, <1>2
  <2> DEFINE ins == InPorts(p, descr[p])
             outs == OutPorts(p, descr[p])
  <2>2. /\ ins \in Seq(AnyPort) /\ Elements(ins) \subseteq PlugPort(p)
        /\ outs \in Seq(AnyPort) /\ Elements(outs) \subseteq PlugPort(p)
    BY <2>1, PluginPortTypes
  <2>3. Of(p) = ins \o outs
    BY DEF PluginPorts
  <2> HIDE DEF ins, outs, Of
  <2>4. ins \o outs \in Seq(AnyPort) /\ Elements(ins \o outs) = Elements(ins) \cup Elements(outs)
    BY <2>2, JoinedElements
  <2>5. QED
    BY <2>2, <2>3, <2>4
<1> HIDE DEF Of
<1>7. seqs \in Seq(Seq(AnyPort)) /\ DOMAIN seqs = DOMAIN gone /\ \A n \in DOMAIN gone : seqs[n] = Of(gone[n])
  <2>1. seqs = [n \in 1..Len(gone) |-> Of(gone[n])]
    BY <1>5
  <2>2. \A n \in 1..Len(gone) : Of(gone[n]) \in Seq(AnyPort)
    BY <1>5, <1>6
  <2>3. QED
    BY <1>5, <2>1, <2>2
<1> HIDE DEF seqs
<1>8. ports \in Seq(AnyPort) /\ Elements(ports) = UNION {Elements(seqs[n]) : n \in DOMAIN seqs}
  BY <1>7, FlatElements
<1> HIDE DEF ports
<1>9. \A port \in Elements(ports) : \E p \in Elements(gone) : port \in PlugPort(p)
  <2> TAKE port \in Elements(ports)
  <2>1. PICK n \in DOMAIN gone : port \in Elements(Of(gone[n]))
    BY <1>7, <1>8
  <2>2. QED
    BY <2>1, <1>5, <1>6
<1>10. freed \in Seq(AnyPort) /\ Elements(freed) = Elements(ports) \cup Elements(ChannelPorts(c))
  <2>1. ChannelPorts(c) \in Seq(AnyPort)
    <3>1. /\ StereoIn(c, 0) \in AnyPort /\ StereoIn(c, 1) \in AnyPort
          /\ StereoOut(c, 0) \in AnyPort /\ StereoOut(c, 1) \in AnyPort
          /\ MidiIn(c) \in AnyPort /\ PianoRoll(c) \in AnyPort
      BY <1>1, ChannelPortTypes
    <3>2. QED
      BY <3>1 DEF ChannelPorts
  <2> DEFINE own == ChannelPorts(c)
  <2> HIDE DEF own
  <2>2. ports \o own \in Seq(AnyPort) /\ Elements(ports \o own) = Elements(ports) \cup Elements(own)
    BY <2>1, <1>8, JoinedElements DEF own
  <2>3. QED
    BY <2>2 DEF own
<1> HIDE DEF freed
<1>11. out \in Seq(AnyWire) /\ Spares(ws, out, Elements(freed))
  BY <1>1, <1>10, AllFreed
<1> HIDE DEF out
<1>12. /\ DOMAIN ended = Fields /\ ended.alive = FALSE /\ ended.strip = list[c].strip
       /\ ended.type = list[c].type /\ ended.ats = list[c].ats /\ ended.lane = list[c].lane
  BY <1>1 DEF ChannelFit, Fields
<1> HIDE DEF ended
<1>13. ChannelFit(ended, P)
  BY <1>1, <1>12 DEF ChannelFit
<1>14. DOMAIN new = DOMAIN list /\ new[c] = ended /\ \A d \in DOMAIN list : d # c => new[d] = list[d]
  OBVIOUS
<1> HIDE DEF new
<1>15. /\ \A d \in DOMAIN new : ChannelFit(new[d], P)
       /\ \A d \in DOMAIN new : new[d].strip = list[d].strip
  BY <1>12, <1>13, <1>14 DEF StripsFit, P
<1>16. Owned(new)
  BY <1>14, <1>15 DEF StripsFit, Owned
<1>17. ASSUME NEW d \in DOMAIN new, new[d].alive PROVE HeardBy(out, descr, d, new[d].strip)
  <2>1. d # c /\ d \in DOMAIN list /\ new[d] = list[d] /\ list[d].alive
    BY <1>12, <1>14, <1>17
  <2>2. StereoOuts(d) \cap Elements(freed) = {}
    <3>1. StereoOuts(d) \cap Elements(ChannelPorts(c)) = {}
      BY <2>1, PortsApart
    <3>2. StereoOuts(d) \cap Elements(ports) = {}
      BY <1>9, PortsApart
    <3>3. QED
      BY <3>1, <3>2, <1>10
  <2>3. ASSUME NEW k \in Slots, list[d].strip[k] # 0
        PROVE  PlugPort(list[d].strip[k]) \cap Elements(freed) = {}
    <3> DEFINE q == list[d].strip[k]
    <3>1. \A p \in Elements(gone) : p # q
      <4> TAKE p \in Elements(gone)
      <4>1. PICK j \in Slots : list[c].strip[j] = p /\ p # 0
        BY <1>4
      <4>2. QED
        BY <4>1, <2>1 DEF StripsFit, Owned
    <3> HIDE DEF q
    <3>2. PlugPort(q) \cap Elements(ports) = {}
      <4>1. \A p \in Elements(gone) : PlugPort(q) \cap PlugPort(p) = {}
        BY <3>1, PortsApart
      <4>2. QED
        BY <4>1, <1>9
    <3>3. PlugPort(q) \cap Elements(ChannelPorts(c)) = {}
      BY PortsApart
    <3>4. QED
      BY <3>2, <3>3, <1>10 DEF q
  <2>4. HeardBy(out, DescrOf(ps), d, list[d].strip)
    BY <2>1, <2>2, <2>3, <1>11, HeardElsewhere
  <2>5. QED
    BY <2>1, <2>4 DEF descr
<1>18. StripsFit(new, out, ps)
  BY <1>1, <1>11, <1>15, <1>16, <1>17 DEF StripsFit, descr, P
<1>19. QED
  BY <1>18 DEF new, ended, out, freed, ports, seqs, Of, gone, descr

\* Freeing plugins leaves what they were made from.
LEMMA PluginsFreed ==
  ASSUME plugins \in Seq(PluginType), NEW gone
  PROVE  /\ FreePlugins(gone) \in Seq(PluginType) /\ Len(FreePlugins(gone)) = Len(plugins)
         /\ \A p \in 1..Len(plugins) : DescrOf(FreePlugins(gone))[p] = DescrOf(plugins)[p]
<1> DEFINE left == FreePlugins(gone)
           N == Len(plugins)
           Ended(plugin) == [plugin EXCEPT !.freed = TRUE]
<1>1. DOMAIN plugins = 1..N /\ N \in Nat /\ \A p \in 1..N : plugins[p] \in PluginType
  OBVIOUS
<1>2. \A plugin \in PluginType : Ended(plugin) \in PluginType /\ Ended(plugin).descr = plugin.descr
  BY DEF PluginType
<1>3. left = [p \in 1..N |-> IF p \in gone THEN Ended(plugins[p]) ELSE plugins[p]]
  BY <1>1 DEF FreePlugins
<1> HIDE DEF left, Ended, N
<1>4. DOMAIN left = 1..N /\ \A p \in 1..N : left[p] \in PluginType /\ left[p].descr = plugins[p].descr
  BY <1>1, <1>2, <1>3
<1>5. left \in Seq(PluginType) /\ Len(left) = N
  <2>1. left \in [1..N -> PluginType]
    BY <1>3, <1>4
  <2>2. QED
    BY <1>1, <2>1
<1>6. \A p \in 1..N : DescrOf(left)[p] = DescrOf(plugins)[p]
  BY <1>1, <1>4 DEF DescrOf
<1>7. QED
  BY <1>5, <1>6 DEF left, N

-----------------------------------------------------------------------------

\* The invariant of the strips, on top of that of the lists.
StripsInv ==
  /\ StripsFit(channels, wires, plugins)
  /\ descriptors \subseteq DOMAIN Descriptors

\* What a step does to them.
Matches == \A c \in DOMAIN channels' : StripChanged(c) => OneTrackEach(channels'[c], Descr')
Refits == StripsFit(channels', wires', plugins') /\ Matches

\* A step that changes no strip.
LEMMA SameStrips ==
  ASSUME StripsFit(channels', wires', plugins'), DOMAIN channels' \subseteq DOMAIN channels,
         \A c \in DOMAIN channels' : channels'[c].strip = channels[c].strip
  PROVE  Refits
BY DEF Refits, Matches, StripChanged

\* What there is of the project, before a step.
LEMMA FitProject ==
  ASSUME IInv, StripsInv
  PROVE  /\ Named(channels) /\ DOMAIN channels = 1..Len(channels) /\ Len(channels) \in Nat
         /\ plugins \in Seq(PluginType) /\ Len(plugins) \in Nat /\ wires \in Seq(AnyWire)
         /\ Descr = DescrOf(plugins) /\ Descr \in Seq(DOMAIN Descriptors) /\ Len(Descr) = Len(plugins)
         /\ \A c \in DOMAIN channels : channels[c].strip \in [Slots -> 0..Len(plugins)]
<1>1. Named(channels) /\ DOMAIN channels = 1..Len(channels) /\ Len(channels) \in Nat
  BY KnownChannel
<1>2. plugins \in Seq(PluginType) /\ wires \in Seq(AnyWire)
  BY DEF StripsInv, StripsFit
<1>3. Len(plugins) \in Nat
  BY <1>2
<1>4. Descr = DescrOf(plugins)
  BY DEF Descr, DescrOf
<1>5. Descr \in Seq(DOMAIN Descriptors) /\ Len(Descr) = Len(plugins)
  BY <1>2, <1>4, DescrKnown
<1>6. \A c \in DOMAIN channels : channels[c].strip \in [Slots -> 0..Len(plugins)]
  BY DEF StripsInv, StripsFit, ChannelFit
<1>7. QED
  BY <1>1, <1>2, <1>3, <1>4, <1>5, <1>6

\* A channel that fits is added, and the tracklist is refreshed.
LEMMA ChannelShown ==
  ASSUME Named(channels), NEW ws, NEW ps, NEW new, "name" \in DOMAIN new,
         StripsFit(Append(channels, new), ws, ps), NEW refreshed,
         FaderShown(new.ats), OneTrackEach(new, DescrOf(ps)),
         channels' = RefreshLanes(Append(channels, new), refreshed, DescrOf(ps)),
         wires' = ws, plugins' = ps
  PROVE  Refits
<1> DEFINE N == Len(channels)
           all == Append(channels, new)
           descr == DescrOf(ps)
<1>1. /\ Len(all) = N + 1 /\ (\A c \in DOMAIN channels : all[c] = channels[c]) /\ all[N + 1] = new
      /\ DOMAIN all = 1..(N + 1) /\ DOMAIN channels = 1..N /\ N \in Nat
  <2>1. Named(all) /\ Len(all) = N + 1 /\ (\A c \in DOMAIN channels : all[c] = channels[c]) /\ all[N + 1] = new
    BY AppendNames
  <2>2. QED
    BY <2>1 DEF Named
<1>2. StripsFit(all, ws, ps)
  OBVIOUS
<1>3. Descr' = descr
  BY DEF Descr, DescrOf
<1> HIDE DEF all
<1> DEFINE shownAll == RefreshLanes(all, refreshed, descr)
<1>4. /\ StripsFit(shownAll, ws, ps) /\ DOMAIN shownAll = DOMAIN all
      /\ \A c \in DOMAIN all : shownAll[c].strip = all[c].strip
      /\ \A c \in DOMAIN all : FaderShown(all[c].ats) /\ OneTrackEach(all[c], descr)
                                 => OneTrackEach(shownAll[c], descr)
  BY <1>2, LanesRefreshed
<1>5. channels' = shownAll
  BY DEF all
<1> HIDE DEF shownAll, descr
<1>6. ASSUME NEW c \in DOMAIN channels', StripChanged(c) PROVE OneTrackEach(channels'[c], Descr')
  <2>1. c \in DOMAIN all /\ channels'[c] = shownAll[c]
    BY <1>4, <1>5
  <2>2. c \notin DOMAIN channels
    <3>1. c \in DOMAIN channels => channels'[c].strip = channels[c].strip
      BY <2>1, <1>1, <1>4
    <3>2. QED
      BY <3>1, <1>6 DEF StripChanged
  <2>3. all[c] = new
    BY <2>1, <2>2, <1>1
  <2>4. OneTrackEach(shownAll[c], descr)
    BY <2>1, <2>3, <1>4 DEF descr
  <2>5. QED
    BY <2>1, <2>4, <1>3
<1>7. QED
  BY <1>4, <1>5, <1>6 DEF Refits, Matches

\* mixer_add_channel of an instrument track.
LEMMA AddInsTrackFits ==
  ASSUME IInv, StripsInv, AddInsTrack
  PROVE  Refits
<1> DEFINE N == Len(channels)
           P == Len(plugins)
           new == ChannelCreate("Instrument Track", "midi")
           all == Append(channels, new)
           wired == ConnectAll(wires, ChannelWires(N + 1, "midi"))
           refreshed == {t \in Elements(tracks') : HasAutomation(t)}
<1>1. /\ channels' = RefreshLanes(all, refreshed, Descr) /\ wires' = wired /\ plugins' = plugins
  BY DEF AddInsTrack, RefreshTracklist
<1>2. /\ Named(channels) /\ DOMAIN channels = 1..N /\ N \in Nat /\ N + 1 \in Nat
      /\ plugins \in Seq(PluginType) /\ P \in Nat /\ wires \in Seq(AnyWire)
      /\ Descr = DescrOf(plugins) /\ Descr \in Seq(DOMAIN Descriptors) /\ Len(Descr) = P
      /\ StripsFit(channels, wires, plugins)
  BY FitProject DEF StripsInv
<1>3. /\ ChannelFit(new, P) /\ new.strip = [k \in Slots |-> 0]
      /\ FaderShown(new.ats) /\ Distinct(Owners(new.ats)) /\ Elements(Owners(new.ats)) = {Fader}
  BY <1>2, ChannelCreated
<1> HIDE DEF new, refreshed
<1>4. wired \in Seq(AnyWire) /\ Spares(wires, wired, {})
  BY <1>2, ChannelWired
<1> HIDE DEF wired
<1>5. (\A k \in Slots : new.strip[k] = 0) /\ OwnSlots(new.strip)
  BY <1>3 DEF OwnSlots
<1>6. HeardBy(wired, DescrOf(plugins), N + 1, new.strip)
  BY <1>5, EmptyHeard
<1>7. StripsFit(all, wired, plugins)
  <2> DEFINE none == {}
  <2>1. \A d \in DOMAIN channels : \A j, k \in Slots :
          new.strip[k] # 0 => channels[d].strip[j] # new.strip[k]
    BY <1>5
  <2>2. Spares(wires, wired, none)
    BY <1>4
  <2>3. \A d \in DOMAIN channels :
          /\ StereoOuts(d) \cap none = {}
          /\ \A k \in Slots : channels[d].strip[k] # 0 => PlugPort(channels[d].strip[k]) \cap none = {}
    OBVIOUS
  <2> HIDE DEF none
  <2>4. StripsFit(Append(channels, new), wired, plugins)
    BY <1>2, <1>3, <1>4, <1>5, <1>6, <2>1, <2>2, <2>3, ChannelAppended
  <2>5. QED
    BY <2>4
<1>8. OneTrackEach(new, Descr)
  <2>1. Fitted(new.strip, Descr)
    BY <1>2, <1>3 DEF Fitted, ChannelFit
  <2>2. Elements(Automatables(new.strip, Descr)) = {Fader}
    BY <2>1, <1>5, AutomatablesKnown
  <2>3. QED
    BY <2>2, <1>3, EachOnce
<1>9. "name" \in DOMAIN new
  BY <1>3 DEF ChannelFit, Fields
<1>10. /\ StripsFit(Append(channels, new), wired, plugins) /\ OneTrackEach(new, DescrOf(plugins))
       /\ channels' = RefreshLanes(Append(channels, new), refreshed, DescrOf(plugins))
  BY <1>1, <1>2, <1>7, <1>8
<1> HIDE DEF all
<1>11. QED
  BY <1>1, <1>2, <1>3, <1>9, <1>10, ChannelShown

\* What a new channel is that has one plugin, in its first slot.
HasOnly(p, ps, ws, c, filled, out) ==
  /\ ChannelFit(filled, Len(ps)) /\ OwnSlots(filled.strip)
  /\ OneTrackEach(filled, DescrOf(ps)) /\ FaderShown(filled.ats)
  /\ filled.strip = [k \in Slots |-> IF k = 0 THEN p ELSE 0]
  /\ out \in Seq(AnyWire) /\ Spares(ws, out, StereoIns(c) \cup PlugPort(0))
  /\ HeardBy(out, DescrOf(ps), c, filled.strip)

\* It is heard, and nothing is taken from the other channels.
LEMMA NewChannelHeard ==
  ASSUME NEW ps \in Seq(PluginType), NEW p \in 1..Len(ps), NEW ws \in Seq(AnyWire), NEW c \in Nat,
         NEW label, NEW type \in {"master", "midi", "bus"},
         NEW new, new = ChannelCreate(label, type),
         NEW filled, filled = AddPlugin(new, 0, p, new.strip, DescrOf(ps)),
         NEW out, out = AddWires(ConnectAll(ws, ChannelWires(c, type)), c, new, 0, p, DescrOf(ps))
  PROVE  HasOnly(p, ps, ws, c, filled, out)
<1> DEFINE descr == DescrOf(ps)
           wired == ConnectAll(ws, ChannelWires(c, type))
<1>1. descr \in Seq(DOMAIN Descriptors) /\ Len(descr) = Len(ps) /\ Len(ps) \in Nat
  BY DescrKnown
<1> HIDE DEF descr
<1>2. /\ ChannelFit(new, Len(ps)) /\ new.strip = [k \in Slots |-> 0] /\ FaderShown(new.ats)
  BY <1>1, ChannelCreated
<1>3. /\ Fitted(new.strip, descr) /\ OwnSlots(new.strip) /\ (\A k \in Slots : new.strip[k] = 0)
      /\ (\A k \in Slots : new.strip[k] # p) /\ 0 \in Slots
  <2>1. 0 \in Slots
    BY StripAssumption DEF Slots
  <2>2. QED
    BY <1>1, <1>2, <2>1 DEF Fitted, OwnSlots, ChannelFit
<1>4. new.strip \in ReadStrips(new, 0)
  BY DEF ReadStrips
<1>5. /\ ChannelFit(filled, Len(ps)) /\ filled.strip = [new.strip EXCEPT ![0] = p]
      /\ OwnSlots(filled.strip) /\ OneTrackEach(filled, descr) /\ FaderShown(filled.ats)
  <2> DEFINE first == 0
             P == Len(ps)
  <2>1. /\ first \in Slots /\ P = Len(descr) /\ p \in 1..P /\ new.strip \in ReadStrips(new, first)
        /\ ChannelFit(new, P)
    BY <1>1, <1>2, <1>3, <1>4
  <2> HIDE DEF first, P
  <2>2. LET added == AddPlugin(new, first, p, new.strip, descr)
        IN /\ ChannelFit(added, P) /\ added.strip = [new.strip EXCEPT ![first] = p]
           /\ OwnSlots(added.strip) /\ OneTrackEach(added, descr) /\ FaderShown(added.ats)
    BY <2>1, <1>1, <1>2, <1>3, PluginAdded
  <2>3. QED
    BY <2>2 DEF first, P, descr
<1>6. filled.strip = [k \in Slots |-> IF k = 0 THEN p ELSE 0]
  BY <1>2, <1>5
<1>7. wired \in Seq(AnyWire) /\ Spares(ws, wired, {})
  BY ChannelWired
<1> HIDE DEF wired
<1> DEFINE pos == 0
<1>8. /\ out \in Seq(AnyWire) /\ Spares(wired, out, StereoIns(c) \cup PlugPort(new.strip[0]))
      /\ HeardBy(wired, descr, c, new.strip) => HeardBy(out, descr, c, [new.strip EXCEPT ![0] = p])
  <2>1. \A k, m \in Slots : new.strip[k] = new.strip[m] /\ new.strip[k] # 0 => k = m
    BY <1>3
  <2>2. pos \in Slots /\ p \in 1..Len(descr)
    BY <1>1, <1>3
  <2> HIDE DEF pos
  <2>3. /\ AddWires(wired, c, new, pos, p, descr) \in Seq(AnyWire)
        /\ Spares(wired, AddWires(wired, c, new, pos, p, descr), StereoIns(c) \cup PlugPort(new.strip[pos]))
        /\ HeardBy(wired, descr, c, new.strip) =>
             HeardBy(AddWires(wired, c, new, pos, p, descr), descr, c, [new.strip EXCEPT ![pos] = p])
    BY <1>3, <1>7, <2>1, <2>2, Plugged
  <2>4. QED
    BY <2>3 DEF pos, descr, wired
<1>9. HeardBy(wired, descr, c, new.strip)
  BY <1>3, EmptyHeard
<1>10. Spares(ws, out, StereoIns(c) \cup PlugPort(0))
  <2>1. new.strip[0] = 0
    BY <1>3
  <2>2. Spares(wired, out, StereoIns(c) \cup PlugPort(0))
    BY <1>8, <2>1
  <2>3. QED
    BY <1>7, <2>2 DEF Spares
<1>11. QED
  BY <1>5, <1>6, <1>8, <1>9, <1>10 DEF HasOnly, descr

\* mixer_add_channel_from_plugin_descr.
LEMMA AddFromPluginDescrFits ==
  ASSUME IInv, StripsInv, NEW d \in descriptors, AddFromPluginDescr(d)
  PROVE  Refits
<1> DEFINE N == Len(channels)
           P == Len(plugins)
           type == IF IsInstrument(d) THEN "midi" ELSE "bus"
           more == PluginCreate(plugins, d)
           new == ChannelCreate(d, type)
           filled == AddPlugin(new, 0, P + 1, new.strip, DescrOf(more))
           out == AddWires(ConnectAll(wires, ChannelWires(N + 1, type)), N + 1, new, 0, P + 1, DescrOf(more))
           refreshed == {t \in Elements(tracks') : HasAutomation(t)}
           touched == StereoIns(N + 1) \cup PlugPort(0)
<1>1. /\ Named(channels) /\ DOMAIN channels = 1..N /\ N \in Nat /\ N + 1 \in Nat
      /\ plugins \in Seq(PluginType) /\ P \in Nat /\ wires \in Seq(AnyWire)
      /\ Descr = DescrOf(plugins)
      /\ \A c \in DOMAIN channels : channels[c].strip \in [Slots -> 0..P]
      /\ StripsFit(channels, wires, plugins)
  BY FitProject DEF StripsInv
<1>2. d \in DOMAIN Descriptors
  BY DEF StripsInv
<1>3. /\ more \in Seq(PluginType) /\ Len(more) = P + 1
      /\ DescrOf(more) = Append(Descr, d)
      /\ \A p \in 1..P : DescrOf(more)[p] = DescrOf(plugins)[p]
  BY <1>1, <1>2, DescrMore DEF PluginCreate
<1>4. /\ channels' = RefreshLanes(Append(channels, filled), refreshed, DescrOf(more))
      /\ wires' = out /\ plugins' = more
  BY <1>3 DEF AddFromPluginDescr, RefreshTracklist
<1>5. type \in {"master", "midi", "bus"} /\ P + 1 \in 1..Len(more)
  BY <1>1, <1>3
<1> HIDE DEF more, type
<1>6. /\ ChannelFit(filled, Len(more)) /\ OwnSlots(filled.strip)
      /\ OneTrackEach(filled, DescrOf(more)) /\ FaderShown(filled.ats)
      /\ filled.strip = [k \in Slots |-> IF k = 0 THEN P + 1 ELSE 0]
      /\ out \in Seq(AnyWire) /\ Spares(wires, out, touched)
      /\ HeardBy(out, DescrOf(more), N + 1, filled.strip)
  <2> DEFINE last == P + 1
             c == N + 1
  <2>1. last \in 1..Len(more) /\ c \in Nat
    BY <1>1, <1>3, <1>5
  <2> HIDE DEF last, c, new, filled, out
  <2>3. /\ new = ChannelCreate(d, type)
        /\ filled = AddPlugin(new, 0, last, new.strip, DescrOf(more))
        /\ out = AddWires(ConnectAll(wires, ChannelWires(c, type)), c, new, 0, last, DescrOf(more))
    BY DEF new, filled, out, last, c
  <2>4. HasOnly(last, more, wires, c, filled, out)
    BY <1>1, <1>3, <1>5, <2>1, <2>3, NewChannelHeard
  <2>5. QED
    BY <2>4 DEF HasOnly, last, c
<1> HIDE DEF filled, out, refreshed
<1>7. StripsFit(channels, wires, more)
  <2>1. Len(plugins) <= Len(more)
    BY <1>1, <1>3
  <2>2. QED
    BY <2>1, <1>1, <1>3, PluginsMore
<1>8. \A c \in DOMAIN channels : \A j, k \in Slots :
        filled.strip[k] # 0 => channels[c].strip[j] # filled.strip[k]
  BY <1>1, <1>6
<1>9. \A c \in DOMAIN channels :
        /\ StereoOuts(c) \cap touched = {}
        /\ \A k \in Slots : channels[c].strip[k] # 0 => PlugPort(channels[c].strip[k]) \cap touched = {}
  BY PortsApart
<1> HIDE DEF touched
<1>10. StripsFit(Append(channels, filled), out, more)
  BY <1>1, <1>6, <1>7, <1>8, <1>9, ChannelAppended
<1>11. "name" \in DOMAIN filled
  BY <1>6 DEF ChannelFit, Fields
<1>12. QED
  BY <1>1, <1>4, <1>6, <1>10, <1>11, ChannelShown

\* plugin_instantiate, where it fails.
LEMMA InstantiationFailsFits ==
  ASSUME IInv, StripsInv, NEW d \in descriptors, InstantiationFails(d)
  PROVE  Refits
<1>1. plugins \in Seq(PluginType) /\ Len(plugins) \in Nat /\ StripsFit(channels, wires, plugins)
  BY FitProject DEF StripsInv
<1>2. d \in DOMAIN Descriptors
  BY DEF StripsInv
<1>3. channels' = channels /\ wires' = wires /\ plugins' = Append(plugins, [descr |-> d, freed |-> TRUE])
  BY DEF InstantiationFails
<1> DEFINE more == Append(plugins, [descr |-> d, freed |-> TRUE])
<1>4. /\ more \in Seq(PluginType) /\ Len(more) = Len(plugins) + 1
      /\ \A p \in 1..Len(plugins) : DescrOf(more)[p] = DescrOf(plugins)[p]
  BY <1>1, <1>2, DescrMore
<1>5. plugins' = more
  BY <1>3
<1> HIDE DEF more
<1>6. StripsFit(channels, wires, more)
  BY <1>1, <1>4, PluginsMore
<1>7. QED
  BY <1>3, <1>5, <1>6, SameStrips

\* on_drag_data_received of a slot.
LEMMA SlotDropFits ==
  ASSUME IInv, StripsInv, NEW d \in descriptors, NEW c \in DOMAIN channels, NEW pos \in Slots,
         SlotDrop(c, pos, d)
  PROVE  Refits
<1> DEFINE P == Len(plugins)
           old == channels[c].strip[pos]
           freed == FreePlugins({old})
           more == PluginCreate(freed, d)
           out == AddWires(wires, c, channels[c], pos, P + 1, DescrOf(more))
<1>1. /\ Named(channels) /\ plugins \in Seq(PluginType) /\ P \in Nat
      /\ Descr = DescrOf(plugins) /\ Descr \in Seq(DOMAIN Descriptors) /\ Len(Descr) = P
      /\ \A b \in DOMAIN channels : channels[b].strip \in [Slots -> 0..P]
      /\ StripsFit(channels, wires, plugins)
  BY FitProject DEF StripsInv
<1>2. d \in DOMAIN Descriptors
  BY DEF StripsInv
<1>3. /\ freed \in Seq(PluginType) /\ Len(freed) = P
      /\ \A p \in 1..P : DescrOf(freed)[p] = DescrOf(plugins)[p]
  BY <1>1, PluginsFreed
<1> HIDE DEF freed
<1>4. DescrOf(freed) = Descr
  <2>1. DescrOf(freed) \in Seq(DOMAIN Descriptors) /\ Len(DescrOf(freed)) = P
    BY <1>3, DescrKnown
  <2>2. QED
    BY <2>1, <1>1, <1>3
<1>5. /\ more \in Seq(PluginType) /\ Len(more) = P + 1
      /\ DescrOf(more) = Append(Descr, d)
      /\ \A p \in 1..P : DescrOf(more)[p] = DescrOf(plugins)[p]
  <2>1. /\ more \in Seq(PluginType) /\ Len(more) = Len(freed) + 1
        /\ DescrOf(more) = Append(DescrOf(freed), d)
        /\ \A p \in 1..Len(freed) : DescrOf(more)[p] = DescrOf(freed)[p]
    BY <1>2, <1>3, DescrMore DEF PluginCreate
  <2> HIDE DEF more
  <2>2. QED
    BY <2>1, <1>3, <1>4
<1>6. PICK read \in ReadStrips(channels[c], pos) :
        channels' = [channels EXCEPT ![c] = AddPlugin(channels[c], pos, P + 1, read, DescrOf(more))]
  BY <1>5 DEF SlotDrop, ReadStrips
<1>7. wires' = out /\ plugins' = more
  BY <1>5 DEF SlotDrop, freed
<1> HIDE DEF more
<1>8. StripsFit(channels, wires, more)
  BY <1>1, <1>5, PluginsMore
<1>9. P + 1 \in 1..Len(more) /\ \A b \in DOMAIN channels : \A k \in Slots : channels[b].strip[k] # P + 1
  BY <1>1, <1>5
<1> DEFINE filled == AddPlugin(channels[c], pos, P + 1, read, DescrOf(more))
<1>10. StripsFit([channels EXCEPT ![c] = filled], out, more) /\ OneTrackEach(filled, DescrOf(more))
  BY <1>1, <1>8, <1>9, PluginDropped
<1>11. channels' = [channels EXCEPT ![c] = filled]
  BY <1>6
<1> HIDE DEF filled, out
<1>12. ASSUME NEW b \in DOMAIN channels', StripChanged(b) PROVE OneTrackEach(channels'[b], Descr')
  <2>1. b \in DOMAIN channels /\ (b # c => channels'[b] = channels[b]) /\ channels'[c] = filled
    BY <1>11
  <2>2. b = c
    BY <2>1, <1>12 DEF StripChanged
  <2>3. Descr' = DescrOf(more)
    BY <1>7 DEF Descr, DescrOf
  <2>4. QED
    BY <2>1, <2>2, <2>3, <1>10
<1>13. QED
  BY <1>7, <1>10, <1>11, <1>12 DEF Refits, Matches

\* No plugin and no connection, and no channel they belong to.
LEMMA NothingFits ==
  ASSUME NEW ps \in Seq(PluginType)
  PROVE  StripsFit(<<>>, <<>>, ps)
BY DEF StripsFit, Owned

\* project_free and the start of the program.
LEMMA ForgetFits ==
  ASSUME Forget
  PROVE  Refits
<1> DEFINE none == <<>>
<1>1. channels' = none /\ wires' = none /\ plugins' = none
  BY DEF Forget
<1>2. none \in Seq(PluginType) /\ StripsFit(none, none, none) /\ DOMAIN none = {}
  <2>1. none \in Seq(PluginType) /\ DOMAIN none = {}
    OBVIOUS
  <2>2. \A ps \in Seq(PluginType) : StripsFit(<<>>, <<>>, ps)
    BY NothingFits
  <2>3. StripsFit(<<>>, <<>>, none)
    BY <2>1, <2>2
  <2>4. QED
    BY <2>1, <2>3
<1> HIDE DEF none
<1>3. QED
  BY <1>1, <1>2 DEF Refits, Matches

\* create_default: the master.
LEMMA CreateDefaultFits ==
  ASSUME IInv, StripsInv, CreateDefault
  PROVE  Refits
<1> DEFINE P == Len(plugins)
           none == <<>>
           untouched == {}
           new == ChannelCreate("Master", "master")
           wired == ConnectAll(none, ChannelWires(Master, "master"))
<1>1. channels' = Append(none, new) /\ wires' = wired /\ plugins' = plugins
  <2>1. channels' = <<new>> /\ wires' = wired /\ plugins' = plugins
    BY DEF CreateDefault
  <2> HIDE DEF new
  <2>2. Append(none, new) = <<new>>
    OBVIOUS
  <2>3. QED
    BY <2>1, <2>2
<1>2. /\ plugins \in Seq(PluginType) /\ P \in Nat /\ DescrOf(plugins) \in Seq(DOMAIN Descriptors)
      /\ Len(DescrOf(plugins)) = P
  BY FitProject
<1>3. /\ Named(none) /\ Len(none) = 0 /\ DOMAIN none = {} /\ none \in Seq(AnyWire)
      /\ StripsFit(none, none, plugins)
  BY <1>2, NothingFits DEF Named
<1>4. /\ ChannelFit(new, P) /\ new.strip = [k \in Slots |-> 0]
      /\ FaderShown(new.ats) /\ Distinct(Owners(new.ats)) /\ Elements(Owners(new.ats)) = {Fader}
  BY <1>2, ChannelCreated
<1> HIDE DEF none, new
<1>5. wired \in Seq(AnyWire) /\ Spares(none, wired, untouched)
  BY <1>3, ChannelWired DEF Master
<1> HIDE DEF wired, untouched
<1>6. (\A k \in Slots : new.strip[k] = 0) /\ OwnSlots(new.strip) /\ Fitted(new.strip, DescrOf(plugins))
  BY <1>2, <1>4 DEF OwnSlots, Fitted, ChannelFit
<1>7. HeardBy(wired, DescrOf(plugins), Len(none) + 1, new.strip)
  BY <1>6, EmptyHeard
<1>8. StripsFit(Append(none, new), wired, plugins)
  BY <1>2, <1>3, <1>4, <1>5, <1>6, <1>7, ChannelAppended
<1>9. OneTrackEach(new, DescrOf(plugins))
  <2>1. Elements(Automatables(new.strip, DescrOf(plugins))) = {Fader}
    BY <1>6, AutomatablesKnown
  <2>2. QED
    BY <2>1, <1>4, EachOnce
<1>10. DOMAIN channels' = {1} /\ channels'[1] = new
  BY <1>1 DEF none
<1>11. Descr' = DescrOf(plugins)
  BY <1>1 DEF Descr, DescrOf
<1>12. QED
  BY <1>1, <1>8, <1>9, <1>10, <1>11 DEF Refits, Matches

\* A turn of the loop that deletes tracks.
LEMMA DeleteNextFits ==
  ASSUME IInv, StripsInv, DeleteNext
  PROVE  Refits
<1> DEFINE track == Head(doomed)
<1>1. track \in 0..Len(channels)
  BY DEF DeleteNext, IInv, ChannelsKnown
<1>2. /\ Named(channels) /\ DOMAIN channels = 1..Len(channels) /\ Len(channels) \in Nat
      /\ plugins \in Seq(PluginType) /\ Descr = DescrOf(plugins)
      /\ StripsFit(channels, wires, plugins)
  BY FitProject DEF StripsInv
<1>3. CASE track = Chord
  <2>1. channels' = channels /\ wires' = wires /\ plugins' = plugins
    BY <1>3 DEF DeleteNext, projectVars
  <2>2. QED
    BY <2>1, <1>2, SameStrips
<1>4. CASE track # Chord
  <2> DEFINE gone == StripPlugins(channels[track].strip)
             ports == FlattenSeq([n \in DOMAIN gone |-> PluginPorts(gone[n], DescrOf(plugins)[gone[n]])])
             ended == [channels EXCEPT ![track] = [channels[track] EXCEPT !.alive = FALSE]]
             freed == PortsFree(wires, ports \o ChannelPorts(track))
             rest == FreePlugins(Elements(gone))
  <2>1. track \in DOMAIN channels
    BY <1>1, <1>2, <1>4 DEF Chord
  <2>2. channels' = ended /\ wires' = freed /\ plugins' = rest
    BY <1>2, <1>4 DEF DeleteNext, RemoveChannel
  <2> HIDE DEF track
  <2>3. StripsFit(ended, freed, plugins)
    BY <1>2, <2>1, ChannelRemoved
  <2>4. /\ rest \in Seq(PluginType) /\ Len(rest) = Len(plugins)
        /\ \A p \in 1..Len(plugins) : DescrOf(rest)[p] = DescrOf(plugins)[p]
    BY <1>2, PluginsFreed
  <2>5. Len(plugins) <= Len(rest)
    BY <1>2, <2>4
  <2>6. /\ DOMAIN ended = DOMAIN channels
        /\ \A c \in DOMAIN channels : ended[c].strip = channels[c].strip
    <3>1. "strip" \in DOMAIN channels[track]
      BY <1>2, <2>1 DEF StripsFit, ChannelFit, Fields
    <3>2. QED
      BY <2>1, <3>1
  <2> HIDE DEF ended, freed, rest
  <2>7. StripsFit(ended, freed, rest)
    BY <2>3, <2>4, <2>5, PluginsMore
  <2>8. QED
    BY <2>2, <2>6, <2>7, SameStrips
<1>5. QED
  BY <1>3, <1>4

\* Lanes that are refreshed, and nothing else.
LEMMA RefreshFits ==
  ASSUME IInv, StripsInv, NEW refreshed, channels' = RefreshLanes(channels, refreshed, Descr),
         wires' = wires, plugins' = plugins
  PROVE  Refits
<1>1. Descr = DescrOf(plugins) /\ StripsFit(channels, wires, plugins)
  BY FitProject DEF StripsInv
<1> DEFINE new == RefreshLanes(channels, refreshed, DescrOf(plugins))
<1>2. /\ StripsFit(new, wires, plugins) /\ DOMAIN new = DOMAIN channels
      /\ \A c \in DOMAIN channels : new[c].strip = channels[c].strip
  BY <1>1, LanesRefreshed
<1>3. channels' = new
  BY <1>1
<1> HIDE DEF new
<1>4. QED
  BY <1>2, <1>3, SameStrips

\* on_at_selector_changed.
LEMMA SelectorChangedFits ==
  ASSUME IInv, StripsInv, NEW t \in DOMAIN channels, NEW a, SelectorChanged(t, a)
  PROVE  Refits
<1> DEFINE P == Len(plugins)
           lane == [channels[t] EXCEPT !.ats = SetShown(channels[t].ats, a)]
           new == [channels EXCEPT ![t] = lane]
<1>1. ChannelFit(channels[t], P) /\ StripsFit(channels, wires, plugins)
  BY DEF StripsInv, StripsFit
<1>2. a \in Controlled(P)
  BY <1>1 DEF SelectorChanged, ChannelFit
<1>3. SetShown(channels[t].ats, a) \in Seq(TrackOf(P))
  BY <1>1, <1>2, ShownSet DEF ChannelFit
<1>4. channels' = new /\ wires' = wires /\ plugins' = plugins
  BY DEF SelectorChanged
<1>5. /\ DOMAIN lane = Fields /\ lane.type = channels[t].type /\ lane.alive = channels[t].alive
      /\ lane.strip = channels[t].strip /\ lane.lane = channels[t].lane
      /\ lane.ats = SetShown(channels[t].ats, a)
  BY <1>1 DEF ChannelFit, Fields
<1> HIDE DEF lane
<1>6. ChannelFit(lane, P)
  BY <1>1, <1>3, <1>5 DEF ChannelFit
<1>7. /\ DOMAIN new = DOMAIN channels
      /\ \A c \in DOMAIN channels : new[c] = IF c = t THEN lane ELSE channels[c]
  OBVIOUS
<1> HIDE DEF new
<1>8. \A c \in DOMAIN channels : /\ ChannelFit(new[c], P)
                                 /\ new[c].alive => channels[c].alive
                                 /\ new[c].strip = channels[c].strip
  BY <1>1, <1>5, <1>6, <1>7 DEF StripsFit
<1>9. StripsFit(new, wires, plugins)
  BY <1>1, <1>7, <1>8, StripsStay
<1>10. QED
  BY <1>4, <1>7, <1>8, <1>9, SameStrips

\* What changes no channel, no connection and no plugin.
LEMMA UnchangedFits ==
  ASSUME StripsInv, UNCHANGED <<channels, wires, plugins>>
  PROVE  Refits
BY SameStrips DEF StripsInv

\* What the user does to the mixer.
LEMMA MixerEditFits ==
  ASSUME IInv, StripsInv, MixerEdit
  PROVE  Refits
<1>1. CASE AddInsTrack
  BY <1>1, AddInsTrackFits
<1>2. ASSUME NEW d \in DraggedDescr,
             InstantiationFails(d) \/ AddFromPluginDescr(d)
               \/ \E c \in DOMAIN channels, pos \in Slots : SlotDrop(c, pos, d)
      PROVE  Refits
  <2>1. d \in descriptors
    BY DEF DraggedDescr, PluginRows
  <2>2. QED
    BY <2>1, <1>2, InstantiationFailsFits, AddFromPluginDescrFits, SlotDropFits
<1>3. CASE DropCrashes \/ SelectCrashes
  BY <1>3, UnchangedFits DEF DropCrashes, SelectCrashes, Crash, projectVars
<1>4. ASSUME NEW t, NEW append, Press(t, append) \/ DeleteTracks(t, append) PROVE Refits
  BY <1>4, UnchangedFits DEF Press, SetSelected, DeleteTracks, projectVars
<1>5. CASE SelectAll \/ Export
  BY <1>5, UnchangedFits DEF SelectAll, SetSelected, Export, projectVars
<1>6. ASSUME NEW side, NEW unit, SelectRow(side, unit) PROVE Refits
  BY <1>6, UnchangedFits DEF SelectRow, editVars, projectVars
<1>7. ASSUME NEW t, ShowAutomation(t) PROVE Refits
  BY <1>7, RefreshFits DEF ShowAutomation
<1>8. ASSUME NEW t \in Elements(tracks) \ {Chord}, NEW a, SelectorChanged(t, a) PROVE Refits
  <2>1. t \in DOMAIN channels
    BY KnownChannel DEF IInv, ChannelsKnown, Elements, Chord
  <2>2. QED
    BY <1>8, <2>1, SelectorChangedFits
<1>9. QED
  BY <1>1, <1>2, <1>3, <1>4, <1>5, <1>6, <1>7, <1>8 DEF MixerEdit

\* What follows from it on its own.
LEMMA MixerStepFits ==
  ASSUME IInv, StripsInv, MixerStep
  PROVE  Refits
<1>1. CASE DeleteNext
  BY <1>1, DeleteNextFits
<1>2. CASE DeleteCrashes \/ DrawCrashes \/ DrawConnectionsCrashes \/ SelectorCrashes
  <2>1. Crash
    BY <1>2 DEF DeleteCrashes, DrawCrashes, DrawConnectionsCrashes, SelectorCrashes
  <2>2. QED
    BY <2>1, UnchangedFits DEF Crash, projectVars
<1>3. QED
  BY <1>1, <1>2 DEF MixerStep

\* Every step of the program keeps the strips as they should be.
LEMMA NextFits ==
  ASSUME IInv, StripsInv, [Next]_vars
  PROVE  Refits /\ StripsInv'
<1> DEFINE Known == descriptors' \subseteq DOMAIN Descriptors
<1> SUFFICES Refits /\ Known
  BY DEF Refits, StripsInv
<1>1. descriptors' = descriptors => Known
  BY DEF StripsInv
<1>2. ASSUME UNCHANGED mixerVars PROVE Refits
  BY <1>2, UnchangedFits DEF mixerVars, editVars, projectVars
<1>3. ASSUME Crashes PROVE Refits /\ Known
  <2>1. Crash /\ descriptors' = descriptors
    BY <1>3 DEF Crashes, sessionVars, browserVars, managerVars
  <2>2. QED
    BY <2>1, <1>1, UnchangedFits DEF Crash, projectVars
<1>4. ASSUME Forget PROVE Refits /\ Known
  <2>1. descriptors' = {}
    BY <1>4 DEF Forget, PluginManagerNew
  <2>2. QED
    BY <2>1, <1>4, ForgetFits
<1>5. ASSUME UNCHANGED mixerVars, UNCHANGED browserVars PROVE Refits /\ Known
  BY <1>1, <1>2, <1>5 DEF browserVars, managerVars
<1>6. ASSUME NEW file, Launch(file) PROVE Refits /\ Known
  BY <1>4, <1>6 DEF Launch
<1>7. CASE TaskFunc
  <2>1. Known
    BY <1>1, <1>7 DEF TaskFunc, ScanPlugins, managerVars
  <2>2. QED
    BY <2>1, <1>2, <1>7 DEF TaskFunc
<1>8. CASE TaskFails \/ LoadCrashes \/ PlayCrashes \/ SaveCrashes
  BY <1>3, <1>8 DEF TaskFails, LoadCrashes, PlayCrashes, SaveCrashes
<1>9. CASE TaskCompleted \/ UpdateSplash \/ CreateNewToggled \/ InitMainWindow
  BY <1>5, <1>9 DEF TaskCompleted, UpdateSplash, CreateNewToggled, InitMainWindow, sessionVars
<1>10. ASSUME NEW d, SelectionChanged(d) PROVE Refits /\ Known
  BY <1>5, <1>10 DEF SelectionChanged, sessionVars
<1>11. ASSUME NEW cancel, OnFinish(cancel) PROVE Refits /\ Known
  BY <1>5, <1>11 DEF OnFinish, sessionVars
<1>12. CASE CreateDefault
  BY <1>1, <1>12, CreateDefaultFits DEF CreateDefault, sessionVars, browserVars, managerVars
<1>13. CASE SetupMainWindow
  <2>1. /\ \E refreshed : channels' = RefreshLanes(channels, refreshed, Descr)
        /\ wires' = wires /\ plugins' = plugins /\ descriptors' = descriptors
    BY <1>13 DEF SetupMainWindow, MainWindowRefresh, RefreshTracklist, sessionVars, browserVars, managerVars
  <2>2. QED
    BY <2>1, <1>1, RefreshFits
<1>14. CASE Edit
  <2>1. MixerEdit /\ descriptors' = descriptors
    BY <1>14 DEF Edit, SameDevices, browserVars, managerVars
  <2>2. QED
    BY <2>1, <1>1, MixerEditFits
<1>15. CASE Step
  <2>1. MixerStep /\ descriptors' = descriptors
    BY <1>15 DEF Step, sessionVars, browserVars, managerVars
  <2>2. QED
    BY <2>1, <1>1, MixerStepFits
<1>16. ASSUME NEW c, Browse(c) PROVE Refits /\ Known
  BY <1>1, <1>2, <1>16 DEF Browse, managerVars
<1>17. ASSUME NEW backend, SetAudioBackend(backend) PROVE Refits /\ Known
  BY <1>5, <1>17 DEF SetAudioBackend
<1>18. CASE SetTempo \/ JackChanges
  BY <1>5, <1>18 DEF SetTempo, JackChanges, EngineChange
<1>19. ASSUME NEW t, AddRegion(t) PROVE Refits /\ Known
  BY <1>5, <1>19 DEF AddRegion, SameDevices
<1>20. ASSUME NEW d, NEW writable, ProjectSave(d, writable) PROVE Refits /\ Known
  BY <1>5, <1>20 DEF ProjectSave, SameDevices
<1>21. CASE Quit
  BY <1>4, <1>21 DEF Quit
<1>22. CASE Terminated \/ UNCHANGED vars
  BY <1>5, <1>22 DEF Terminated, vars, sessionVars
<1>23. QED
  BY <1>6, <1>7, <1>8, <1>9, <1>10, <1>11, <1>12, <1>13, <1>14, <1>15, <1>16, <1>17, <1>18, <1>19,
     <1>20, <1>21, <1>22 DEF Next, Save, SaveAs

\* The program starts with nothing.
LEMMA InitStrips == Init => StripsInv
<1> SUFFICES ASSUME Init PROVE StripsInv
  OBVIOUS
<1> DEFINE none == <<>>
<1>1. channels = none /\ wires = none /\ plugins = none /\ descriptors = {}
  BY DEF Init
<1>2. none \in Seq(PluginType)
  OBVIOUS
<1>3. \A ps \in Seq(PluginType) : StripsFit(none, none, ps)
  BY NothingFits
<1> HIDE DEF none
<1>4. QED
  BY <1>1, <1>2, <1>3 DEF StripsInv

\* Both invariants hold.
LEMMA StripsInvariant == Spec => [](IInv /\ StripsInv)
<1>1. IInv /\ StripsInv /\ [Next]_vars => (IInv /\ StripsInv)'
  BY NextInv, NextFits
<1>2. QED
  BY InitInv, InitStrips, <1>1, PTL DEF Spec

\* Once a channel exists or its strip has changed, each automatable of the channel and
\* of its plugins has exactly one automation track, and no other is left: also when
\* channel_remove_plugin has updated the tracks from a strip that still holds the plugin
\* it freed (automation_tracklist_update, channel_add_plugin).
THEOREM AutomationTracksMatchCorrect == Spec => AutomationTracksMatch
<1>1. IInv /\ StripsInv /\ [Next]_vars =>
        [\A c \in DOMAIN channels' : StripChanged(c) => OneTrackEach(channels'[c], Descr')]_vars
  BY NextFits DEF Refits, Matches
<1>2. QED
  BY <1>1, StripsInvariant, PTL DEF Spec, AutomationTracksMatch

\* Whatever was dropped on the slots, in any order and in the place of other plugins,
\* and whatever channels were deleted meanwhile, what a plugin plays reaches the next
\* plugin of its strip, or the output of the channel behind the last one
\* (channel_add_plugin; a loop that disconnects skips every second connection, and
\* takes none of another plugin).
THEOREM PluginsHeardCorrect == Spec => []PluginsHeard
<1>1. ASSUME StripsInv PROVE PluginsHeard
  <2> SUFFICES ASSUME NEW c \in DOMAIN channels, Alive(c) PROVE Heard(c, channels[c].strip)
    BY DEF PluginsHeard
  <2> DEFINE strip == channels[c].strip
  <2>1. /\ HeardBy(wires, Descr, c, strip) /\ strip \in [Slots -> 0..Len(plugins)]
        /\ Fitted(strip, Descr)
    <3>1. Descr = DescrOf(plugins)
      BY DEF Descr, DescrOf
    <3>2. QED
      BY <3>1, <1>1, FitStrip DEF StripsInv, StripsFit, Alive
  <2> HIDE DEF strip
  <2> SUFFICES ASSUME NEW k \in Slots, Plays(strip[k])
               PROVE  LET behind == {m \in Slots : m > k /\ strip[m] # 0}
                      IN IF behind = {} THEN Reaches(strip[k], {StereoOut(c, 0), StereoOut(c, 1)})
                         ELSE \A m \in behind : (\A n \in behind : m <= n) =>
                                LET ins == InPorts(strip[m], Descr[strip[m]])
                                IN OfType(ins, "audio") = <<>> \/ Reaches(strip[k], Elements(ins))
    BY DEF Heard, strip
  <2> DEFINE behind == {m \in Slots : m > k /\ strip[m] # 0}
  <2>2. strip[k] # 0 /\ Outs(strip[k], Descr) # {}
    <3>1. strip[k] # 0 /\ OfType(OutPorts(strip[k], Descr[strip[k]]), "audio") # <<>>
      BY DEF Plays
    <3>2. strip[k] \in 1..Len(Descr) /\ Descr \in Seq(DOMAIN Descriptors)
      BY <3>1, <2>1 DEF Fitted
    <3>3. OfType(OutPorts(strip[k], Descr[strip[k]]), "audio") \in Seq(AnyPort)
      BY <3>2, FittedPorts
    <3>4. ASSUME NEW s \in Seq(AnyPort), s # <<>> PROVE Elements(s) # {}
      <4>1. 1 \in DOMAIN s
        BY <3>4
      <4>2. QED
        BY <4>1 DEF Elements
    <3>5. QED
      BY <3>1, <3>3, <3>4 DEF Outs
  <2>3. \A ports : Leads(wires, Outs(strip[k], Descr), ports) => Reaches(strip[k], ports)
    BY DEF Leads, Reaches, Outs
  <2>4. CASE behind = {}
    <3>1. \A m \in Slots : m > k => strip[m] = 0
      BY <2>4
    <3>2. Leads(wires, Outs(strip[k], Descr), StereoOuts(c))
      BY <3>1, <2>1, <2>2 DEF HeardBy
    <3>3. QED
      BY <2>3, <2>4, <3>2 DEF StereoOuts
  <2>5. ASSUME NEW m \in behind, \A n \in behind : m <= n,
               OfType(InPorts(strip[m], Descr[strip[m]]), "audio") # <<>>
        PROVE  Reaches(strip[k], Elements(InPorts(strip[m], Descr[strip[m]])))
    <3>1. FirstBehind(strip, k, m)
      <4>1. Slots \subseteq Int
        BY DEF Slots
      <4>2. QED
        BY <4>1, <2>5 DEF FirstBehind
    <3>2. Leads(wires, Outs(strip[k], Descr), Ins(strip[m], Descr))
      BY <3>1, <2>1, <2>2, <2>5 DEF HeardBy
    <3>3. QED
      BY <2>3, <3>2 DEF Ins
  <2>6. QED
    BY <2>4, <2>5
<1>2. QED
  BY <1>1, StripsInvariant, PTL
-----------------------------------------------------------------------------
\* What the widgets and the regions point to is a channel or a plugin of the project, or
\* was one before it was freed.
AllUnits == ({"channel"} \X DOMAIN channels) \cup ({"plugin"} \X DOMAIN plugins)
Shows(unit) == unit = <<>> \/ unit \in AllUnits
ViewsInv ==
  /\ shown \subseteq DOMAIN channels /\ regions \in Seq(DOMAIN channels)
  /\ selected \subseteq {Chord} \cup DOMAIN channels
  /\ paned \subseteq {Chord} \cup DOMAIN channels
  /\ units \subseteq AllUnits
  /\ DOMAIN view = {"src", "dest"} /\ Shows(view.src) /\ Shows(view.dest)

\* The browser, the splash screen and the engine.
EngineFields == {"backend", "sample_rate", "ticks_from", "block_length", "buf_size_set", "active"}
AppInv ==
  /\ task \in DOMAIN Tasks
  /\ (~Opened => category = <<>>) /\ Elements(category) \subseteq categories
  /\ preferred \in Backends
  /\ DOMAIN engine = EngineFields /\ engine.backend \in Backends \cup {"none"}
  /\ engine.active <=> engine.backend # "none"

\* The assistant and the saved projects.
FilesInv ==
  /\ recent \in Seq(Dirs) /\ DOMAIN disk = Dirs
  /\ selection # <<>> => complete /\ selection[1] \in RecentProjects
  /\ dir # <<>> => dir[1] \in Elements(recent)

\* Neither channels nor plugins ever leave an open project.
Grows == DOMAIN channels \subseteq DOMAIN channels' /\ DOMAIN plugins \subseteq DOMAIN plugins'

LEMMA ChannelsGrow ==
  ASSUME IInv, Keeps \/ Adds \/ (\E track \in 1..Len(channels) : Removes(track)) \/ Opens
  PROVE  DOMAIN channels \subseteq DOMAIN channels'
<1>1. Len(channels) \in Nat /\ DOMAIN channels = 1..Len(channels)
  BY KnownChannel
<1>2. CASE Keeps \/ \E track \in 1..Len(channels) : Removes(track)
  <2>1. Renews(channels, channels')
    BY <1>2 DEF Keeps, Removes
  <2>2. QED
    BY <1>1, <2>1 DEF Renews, Named
<1>3. CASE Adds
  BY <1>1, <1>3 DEF Adds, Named
<1>4. CASE Opens
  <2>1. Len(channels) = 0
    BY <1>4 DEF Opens, IInv, ChordStays
  <2>2. QED
    BY <1>1, <2>1
<1>5. QED
  BY <1>2, <1>3, <1>4

\* Where a project only grows, what points to it does so still.
LEMMA ViewsLater ==
  ASSUME ViewsInv, Grows,
         regions' = regions \/ regions' \in Seq(DOMAIN channels'),
         shown' = shown \/ shown' \subseteq DOMAIN channels',
         selected' = selected \/ selected' \subseteq {Chord} \cup DOMAIN channels',
         paned' = paned \/ paned' \subseteq {Chord} \cup DOMAIN channels',
         units' = units \/ units' \subseteq AllUnits',
         view' = view \/ (DOMAIN view' = {"src", "dest"} /\ Shows(view.src)' /\ Shows(view.dest)')
  PROVE  ViewsInv'
<1>1. AllUnits \subseteq AllUnits'
  BY DEF AllUnits, Grows
<1>2. shown' \subseteq DOMAIN channels' /\ selected' \subseteq {Chord} \cup DOMAIN channels'
        /\ paned' \subseteq {Chord} \cup DOMAIN channels'
  BY DEF ViewsInv, Grows
<1>3. regions' \in Seq(DOMAIN channels')
  <2>1. CASE regions' = regions
    <3> DEFINE S == DOMAIN channels
               T == DOMAIN channels'
    <3>1. S \subseteq T /\ regions \in Seq(S)
      BY DEF ViewsInv, Grows
    <3> HIDE DEF S, T
    <3>2. regions \in Seq(T)
      BY <3>1
    <3>3. QED
      BY <2>1, <3>2 DEF T
  <2>2. QED
    BY <2>1
<1>4. units' \subseteq AllUnits'
  BY <1>1 DEF ViewsInv
<1>5. DOMAIN view' = {"src", "dest"} /\ Shows(view.src)' /\ Shows(view.dest)'
  BY <1>1 DEF ViewsInv, Shows
<1>6. QED
  BY <1>2, <1>3, <1>4, <1>5 DEF ViewsInv

\* The channels of the mixer, and the master of an open project.
LEMMA MixerKnown ==
  ASSUME IInv
  PROVE  /\ Elements(order) \subseteq DOMAIN channels /\ Elements(tracks) \subseteq {Chord} \cup DOMAIN channels
         /\ Opened => Master \in DOMAIN channels
<1>1. Len(channels) \in Nat /\ DOMAIN channels = 1..Len(channels)
  BY KnownChannel
<1>2. order \in Seq(2..Len(channels)) /\ tracks \in Seq(0..Len(channels))
  BY DEF IInv, ChannelsKnown
<1>3. Elements(order) \subseteq 2..Len(channels) /\ Elements(tracks) \subseteq 0..Len(channels)
  BY <1>2 DEF Elements
<1>4. Opened => Len(channels) > 0
  BY DEF IInv, ChordStays
<1>5. QED
  BY <1>1, <1>3, <1>4 DEF Chord, Master

\* create_audio_units_store: the rows of the connections.
LEMMA UnitsKnown ==
  ASSUME IInv, StripsInv, Opened
  PROVE  AudioUnits(Elements(order), [c \in DOMAIN channels |-> channels[c].strip]) \subseteq AllUnits
<1> DEFINE strips == [c \in DOMAIN channels |-> channels[c].strip]
           list == Elements(order)
           heard == {strips[c][k] : c \in list \cup {Master}, k \in Slots} \ {0}
<1>1. list \cup {Master} \subseteq DOMAIN channels
  BY MixerKnown
<1>2. /\ plugins \in Seq(PluginType) /\ \A c \in DOMAIN channels : channels[c].strip \in [Slots -> 0..Len(plugins)]
      /\ Len(plugins) \in Nat
  BY FitProject
<1>3. DOMAIN plugins = 1..Len(plugins)
  BY <1>2
<1>4. ASSUME NEW p \in heard PROVE p \in DOMAIN plugins
  <2>1. PICK c \in list \cup {Master}, k \in Slots : p = strips[c][k]
    OBVIOUS
  <2>2. c \in DOMAIN channels /\ strips[c] = channels[c].strip
    BY <1>1, <2>1
  <2>3. p \in 0..Len(plugins) /\ p # 0
    BY <1>2, <2>1, <2>2
  <2>4. QED
    BY <1>2, <1>3, <2>3
<1> HIDE DEF strips, heard
<1>5. AudioUnits(list, strips) = {<<"channel", c>> : c \in list} \cup {<<"plugin", p>> : p \in heard}
  BY DEF AudioUnits, heard
<1>6. AudioUnits(list, strips) \subseteq AllUnits
  BY <1>1, <1>4, <1>5 DEF AllUnits
<1>7. QED
  BY <1>6 DEF strips

\* A plugin is made after, or where, others were freed.
LEMMA PluginsGrow ==
  ASSUME plugins \in Seq(PluginType), NEW gone, NEW plugin
  PROVE  /\ DOMAIN FreePlugins(gone) = DOMAIN plugins
         /\ DOMAIN plugins \subseteq DOMAIN Append(plugins, plugin)
         /\ DOMAIN plugins \subseteq DOMAIN Append(FreePlugins(gone), plugin)
<1>1. DOMAIN FreePlugins(gone) = DOMAIN plugins
  BY DEF FreePlugins
<1>2. \A ps \in Seq(PluginType) : DOMAIN ps \subseteq DOMAIN Append(ps, plugin)
  <2> TAKE ps \in Seq(PluginType)
  <2> DEFINE T == PluginType \cup {plugin}
             more == Append(ps, plugin)
  <2>1. ps \in Seq(T) /\ plugin \in T
    OBVIOUS
  <2> HIDE DEF T
  <2>2. more \in Seq(T) /\ Len(more) = Len(ps) + 1 /\ Len(ps) \in Nat /\ DOMAIN ps = 1..Len(ps)
    BY <2>1
  <2> HIDE DEF more
  <2>3. DOMAIN more = 1..(Len(ps) + 1)
    BY <2>2
  <2>4. QED
    BY <2>2, <2>3 DEF more
<1>3. FreePlugins(gone) \in Seq(PluginType)
  BY PluginsFreed
<1>4. QED
  BY <1>1, <1>2, <1>3

\* mixer_widget_refresh and connections_widget_refresh, of what the project has become.
LEMMA WidgetsKnown ==
  ASSUME IInv, StripsInv, Opened
  PROVE  /\ {Master} \cup Elements(order) \subseteq DOMAIN channels
         /\ AudioUnits(Elements(order), [c \in DOMAIN channels |-> channels[c].strip]) \subseteq AllUnits
BY MixerKnown, UnitsKnown

\* What the user does to the mixer, seen from its widgets.
LEMMA MixerEditViews ==
  ASSUME IInv, StripsInv, ViewsInv, IInv', StripsInv', Opened, UNCHANGED <<stage, regions>>, MixerEdit
  PROVE  ViewsInv'
<1>1. DOMAIN channels \subseteq DOMAIN channels'
  BY MixerEditShape, ChannelsGrow
<1>2. plugins' = plugins => Grows
  BY <1>1 DEF Grows
<1>3. plugins \in Seq(PluginType)
  BY FitProject
<1>4. Opened'
  BY DEF Opened
<1>5. /\ {Master} \cup Elements(order') \subseteq DOMAIN channels'
      /\ AudioUnits(Elements(order'), [c \in DOMAIN channels' |-> channels'[c].strip]) \subseteq AllUnits'
  <2>1. ASSUME TRUE PROVE (IInv /\ StripsInv /\ Opened =>
          /\ {Master} \cup Elements(order) \subseteq DOMAIN channels
          /\ AudioUnits(Elements(order), [c \in DOMAIN channels |-> channels[c].strip]) \subseteq AllUnits)'
    BY WidgetsKnown, PTL
  <2>2. QED
    BY <2>1, <1>4
<1>6. Elements(tracks) \subseteq {Chord} \cup DOMAIN channels
  BY MixerKnown
<1>7. CASE AddInsTrack
  <2>1. /\ plugins' = plugins /\ shown' = {Master} \cup Elements(order') /\ selected' = {}
        /\ paned' = paned /\ units' = units /\ view' = view /\ regions' = regions
    BY <1>7 DEF AddInsTrack, MixerWidgetRefresh, connectionsVars
  <2>2. QED
    BY <2>1, <1>2, <1>5, ViewsLater
<1>8. ASSUME NEW d, InstantiationFails(d) PROVE ViewsInv'
  <2>1. /\ plugins' = Append(plugins, [descr |-> d, freed |-> TRUE])
        /\ shown' = shown /\ selected' = selected
        /\ paned' = paned /\ units' = units /\ view' = view /\ regions' = regions
    BY <1>8 DEF InstantiationFails, connectionsVars
  <2>2. Grows
    BY <2>1, <1>1, <1>3, PluginsGrow DEF Grows
  <2>3. QED
    BY <2>1, <2>2, ViewsLater
<1>9. ASSUME NEW d, AddFromPluginDescr(d) PROVE ViewsInv'
  <2>1. /\ plugins' = Append(plugins, [descr |-> d, freed |-> FALSE])
        /\ shown' = {Master} \cup Elements(order') /\ selected' = selected
        /\ paned' = paned /\ view' = view /\ regions' = regions
        /\ units' = AudioUnits(Elements(order'), [c \in DOMAIN channels' |-> channels'[c].strip])
    BY <1>9 DEF AddFromPluginDescr, PluginCreate, MixerWidgetRefresh, Rewired, ConnectionsRefresh
  <2>2. Grows
    BY <2>1, <1>1, <1>3, PluginsGrow DEF Grows
  <2>3. QED
    BY <2>1, <2>2, <1>5, ViewsLater
<1>10. ASSUME NEW d, NEW c, NEW pos, SlotDrop(c, pos, d) PROVE ViewsInv'
  <2> DEFINE freed == FreePlugins({channels[c].strip[pos]})
  <2>1. /\ plugins' = Append(freed, [descr |-> d, freed |-> FALSE])
        /\ shown' = shown /\ selected' = selected
        /\ paned' = paned /\ view' = view /\ regions' = regions
        /\ units' = AudioUnits(Elements(order'), [b \in DOMAIN channels' |-> channels'[b].strip])
    BY <1>10 DEF SlotDrop, PluginCreate, Rewired, ConnectionsRefresh
  <2>2. Grows
    BY <2>1, <1>1, <1>3, PluginsGrow DEF Grows
  <2>3. QED
    BY <2>1, <2>2, <1>5, ViewsLater
<1>11. CASE DropCrashes \/ SelectCrashes
  <2>1. /\ plugins' = plugins /\ shown' = shown /\ selected' = selected
        /\ paned' = paned /\ units' = units /\ view' = view /\ regions' = regions
    BY <1>11 DEF DropCrashes, SelectCrashes, Crash, projectVars, connectionsVars
  <2>2. QED
    BY <2>1, <1>2, ViewsLater
<1>12. ASSUME NEW s, s \subseteq {Chord} \cup DOMAIN channels, SetSelected(s) PROVE ViewsInv'
  <2>1. /\ plugins' = plugins /\ shown' = shown /\ selected' = s
        /\ paned' = paned /\ units' = units /\ view' = view /\ regions' = regions
    BY <1>12 DEF SetSelected, projectVars, connectionsVars
  <2>2. QED
    BY <2>1, <1>1, <1>2, <1>12, ViewsLater
<1>13. ASSUME NEW t \in Elements(tracks), NEW append \in BOOLEAN
       PROVE  ToggleSelect(t, append) \subseteq {Chord} \cup DOMAIN channels
  BY <1>6 DEF ToggleSelect, ViewsInv
<1>14. ASSUME NEW t \in Elements(tracks), NEW append \in BOOLEAN, Press(t, append) PROVE ViewsInv'
  BY <1>12, <1>13, <1>14 DEF Press
<1>15. ASSUME NEW t \in Elements(tracks), NEW append \in BOOLEAN, DeleteTracks(t, append) PROVE ViewsInv'
  <2>1. /\ plugins' = plugins /\ shown' = shown
        /\ selected' = selected \/ selected' = ToggleSelect(t, append)
        /\ paned' = paned /\ units' = units /\ view' = view /\ regions' = regions
    BY <1>15 DEF DeleteTracks, projectVars, connectionsVars
  <2>2. selected' = selected \/ selected' \subseteq {Chord} \cup DOMAIN channels'
    BY <2>1, <1>1, <1>13
  <2>3. QED
    BY <2>1, <2>2, <1>2, ViewsLater
<1>16. CASE SelectAll
  BY <1>6, <1>12, <1>16 DEF SelectAll
<1>17. CASE Export
  <2>1. /\ plugins' = plugins /\ shown' = shown /\ selected' = selected
        /\ paned' = paned /\ units' = units /\ view' = view /\ regions' = regions
    BY <1>17 DEF Export, projectVars, connectionsVars
  <2>2. QED
    BY <2>1, <1>2, ViewsLater
<1>18. ASSUME NEW side \in {"src", "dest"}, NEW unit \in units, SelectRow(side, unit) PROVE ViewsInv'
  <2>1. /\ plugins' = plugins /\ channels' = channels /\ shown' = shown /\ selected' = selected
        /\ paned' = paned /\ units' = units /\ view' = [view EXCEPT ![side] = unit] /\ regions' = regions
    BY <1>18 DEF SelectRow, SelectUnit, editVars, projectVars
  <2>2. unit \in AllUnits /\ AllUnits' = AllUnits
    BY <2>1 DEF ViewsInv, AllUnits
  <2>3. DOMAIN view' = {"src", "dest"} /\ Shows(view.src)' /\ Shows(view.dest)'
    BY <2>1, <2>2 DEF ViewsInv, Shows
  <2>4. QED
    BY <2>1, <2>3, <1>2, ViewsLater
<1>19. ASSUME NEW t \in Elements(tracks), ShowAutomation(t) PROVE ViewsInv'
  <2>1. /\ plugins' = plugins /\ shown' = shown /\ selected' = selected
        /\ paned' = (IF t \in paned THEN paned \ {t} ELSE paned \cup {t})
        /\ units' = units /\ view' = view /\ regions' = regions
    BY <1>19 DEF ShowAutomation, connectionsVars
  <2>2. paned' \subseteq {Chord} \cup DOMAIN channels'
    BY <2>1, <1>1, <1>6 DEF ViewsInv
  <2>3. QED
    BY <2>1, <2>2, <1>2, ViewsLater
<1>20. ASSUME NEW t, NEW a, SelectorChanged(t, a) PROVE ViewsInv'
  <2>1. /\ plugins' = plugins /\ shown' = shown /\ selected' = selected
        /\ paned' = paned /\ units' = units /\ view' = view /\ regions' = regions
    BY <1>20 DEF SelectorChanged, connectionsVars
  <2>2. QED
    BY <2>1, <1>2, ViewsLater
<1>21. QED
  BY <1>7, <1>8, <1>9, <1>10, <1>11, <1>14, <1>15, <1>16, <1>17, <1>18, <1>19, <1>20 DEF MixerEdit

\* And what follows from it.
LEMMA MixerStepViews ==
  ASSUME IInv, StripsInv, ViewsInv, UNCHANGED <<stage, regions>>, MixerStep
  PROVE  ViewsInv'
<1>1. DOMAIN channels \subseteq DOMAIN channels'
  BY MixerStepShape, ChannelsGrow DEF Opened
<1>2. DOMAIN plugins' = DOMAIN plugins
  <2>1. CASE DeleteNext
    BY <2>1 DEF DeleteNext, RemoveChannel, FreePlugins, projectVars
  <2>2. CASE ~DeleteNext
    BY <2>2 DEF MixerStep, DeleteCrashes, DrawCrashes, DrawConnectionsCrashes, SelectorCrashes, Crash, projectVars
  <2>3. QED
    BY <2>1, <2>2
<1>3. /\ shown' = shown /\ selected' = selected /\ paned' = paned /\ units' = units /\ view' = view
      /\ regions' = regions
  BY DEF MixerStep, DeleteNext, DeleteCrashes, DrawCrashes, DrawConnectionsCrashes, SelectorCrashes, Crash, connectionsVars
<1>4. QED
  BY <1>1, <1>2, <1>3, ViewsLater DEF Grows

\* The elements of a file, and what several of them are.
ElementName == {"Port", "Color", "Position", "Descriptor", "LV2Port", "LV2Plugin", "LV2Ports",
  "Plugin", "in_ports", "out_ports", "unknown_ports", "Track", "Channel", "Plugins", "StereoIn",
  "MidiIn", "PianoRoll", "StereoOut", "Transport", "Project", "Mixer"}
Element == ElementName \X Int

LEMMA TimesWritten ==
  ASSUME NEW k \in Nat, NEW element \in Element
  PROVE  Times(k, element) \in Seq(Element)
BY DEF Times

LEMMA OneWritten ==
  ASSUME NEW name \in ElementName, NEW k \in Int
  PROVE  <<<<name, k>>>> \in Seq(Element)
<1>1. <<name, k>> \in Element
  BY DEF Element
<1> DEFINE element == <<name, k>>
<1> HIDE DEF element
<1>2. <<element>> \in Seq(Element)
  BY <1>1 DEF element
<1>3. QED
  BY <1>2 DEF element

LEMMA BothWritten ==
  ASSUME NEW s \in Seq(Element), NEW t \in Seq(Element)
  PROVE  s \o t \in Seq(Element) /\ Len(s \o t) = Len(s) + Len(t)
OBVIOUS

\* xml_write_plugin and what it calls.
LEMMA PluginWritten ==
  ASSUME NEW d \in DOMAIN Descriptors, NEW pos \in Int
  PROVE  WritePlugin(d, pos) \in Seq(Element)
<1> DEFINE ins == Len(Descriptors[d].ins) + Descriptors[d].controls
           outs == Len(Descriptors[d].outs)
           num == Len(Descriptors[d].ins) + Len(Descriptors[d].outs) + Descriptors[d].controls
<1>1. ins \in Nat /\ outs \in Nat /\ num \in Nat
  <2>1. /\ Descriptors[d].ins \in Seq(PortType) /\ Descriptors[d].outs \in Seq(PortType)
        /\ Descriptors[d].controls \in Nat
    BY StripAssumption
  <2> DEFINE a == Len(Descriptors[d].ins)
             b == Len(Descriptors[d].outs)
             c == Descriptors[d].controls
  <2>2. a \in Nat /\ b \in Nat /\ c \in Nat
    BY <2>1
  <2>3. ins = a + c /\ outs = b /\ num = a + b + c
    OBVIOUS
  <2> HIDE DEF a, b, c, ins, outs, num
  <2>4. QED
    BY <2>2, <2>3
<1> HIDE DEF ins, outs, num
<1>2. WritePortId[1] \in Element /\ WriteLv2Port[1] \in Element
  BY DEF WritePortId, WriteLv2Port, Element, ElementName
<1>3. Times(ins, WritePortId[1]) \in Seq(Element) /\ Times(outs, WritePortId[1]) \in Seq(Element)
        /\ Times(num, WriteLv2Port[1]) \in Seq(Element)
  BY <1>1, <1>2, TimesWritten
<1>4. /\ <<<<"Plugin", pos>>>> \in Seq(Element) /\ WritePluginDescr \in Seq(Element)
      /\ <<<<"in_ports", ins>>>> \in Seq(Element) /\ <<<<"out_ports", outs>>>> \in Seq(Element)
      /\ <<<<"unknown_ports", 0>>>> \in Seq(Element)
  <2>1. ins \in Int /\ outs \in Int /\ 0 \in Int
    BY <1>1
  <2>2. /\ <<<<"Plugin", pos>>>> \in Seq(Element) /\ <<<<"Descriptor", 0>>>> \in Seq(Element)
        /\ <<<<"in_ports", ins>>>> \in Seq(Element) /\ <<<<"out_ports", outs>>>> \in Seq(Element)
        /\ <<<<"unknown_ports", 0>>>> \in Seq(Element)
    BY <2>1, OneWritten DEF ElementName
  <2>3. QED
    BY <2>2 DEF WritePluginDescr
<1>5. <<<<"LV2Plugin", 0>>, <<"LV2Ports", num>>>> \in Seq(Element)
  <2>1. <<"LV2Plugin", 0>> \in Element /\ <<"LV2Ports", num>> \in Element
    BY <1>1 DEF Element, ElementName
  <2>2. \A a, b \in Element : <<a, b>> \in Seq(Element)
    OBVIOUS
  <2>3. QED
    BY <2>1, <2>2
<1>6. WriteLv2Plugin(d) \in Seq(Element)
  BY <1>3, <1>5, BothWritten DEF WriteLv2Plugin, num
<1>7. QED
  BY <1>3, <1>4, <1>6, BothWritten DEF WritePlugin, ins, outs

\* xml_write_channel.
LEMMA ChannelWritten ==
  ASSUME NEW c \in Int, NEW descr, NEW strip, Fitted(strip, descr)
  PROVE  WriteChannel(c, strip, descr) \in Seq(Element)
<1> DEFINE Of(p, pos) == IF p = 0 THEN <<>> ELSE WritePlugin(descr[p], pos)
           seqs == [n \in 1..StripSize |-> Of(strip[n - 1], n - 1)]
           flat == FlattenSeq(seqs)
<1>1. flat \in Seq(Element)
  <2>1. ASSUME NEW n \in 1..StripSize PROVE Of(strip[n - 1], n - 1) \in Seq(Element)
    <3>1. n - 1 \in Slots /\ n - 1 \in Int
      BY StripAssumption DEF Slots
    <3>2. strip[n - 1] \in 0..Len(descr)
      BY <3>1 DEF Fitted
    <3>3. CASE strip[n - 1] = 0
      BY <3>3
    <3>4. CASE strip[n - 1] # 0
      <4>1. descr[strip[n - 1]] \in DOMAIN Descriptors
        BY <3>2, <3>4 DEF Fitted
      <4>2. WritePlugin(descr[strip[n - 1]], n - 1) \in Seq(Element)
        BY <3>1, <4>1, PluginWritten
      <4>3. QED
        BY <3>4, <4>2
    <3>5. QED
      BY <3>3, <3>4
  <2> HIDE DEF Of
  <2>2. StripSize \in Nat
    BY StripAssumption
  <2> DEFINE T == Seq(Element)
  <2>3. \A n \in 1..StripSize : Of(strip[n - 1], n - 1) \in T
    BY <2>1
  <2> HIDE DEF T
  <2>4. seqs \in Seq(T)
    BY <2>2, <2>3
  <2> HIDE DEF seqs
  <2>5. QED
    BY <2>4, FlatElements DEF T
<1>2. flat = FlattenSeq([n \in 1..StripSize |->
               IF strip[n - 1] = 0 THEN <<>> ELSE WritePlugin(descr[strip[n - 1]], n - 1)])
  OBVIOUS
<1> HIDE DEF flat
<1>3. <<<<"Channel", c - 1>>, <<"Plugins", 0>>>> \in Seq(Element)
  <2>1. <<"Channel", c - 1>> \in Element /\ <<"Plugins", 0>> \in Element
    BY DEF Element, ElementName
  <2>2. \A a, b \in Element : <<a, b>> \in Seq(Element)
    OBVIOUS
  <2>3. QED
    BY <2>1, <2>2
<1>4. /\ WritePortId \in Seq(Element) /\ WriteGdkRgba \in Seq(Element) /\ WriteTrack \in Seq(Element)
      /\ <<<<"StereoIn", 2>>>> \in Seq(Element) /\ <<<<"StereoOut", 2>>>> \in Seq(Element)
      /\ <<<<"MidiIn", 1>>>> \in Seq(Element) /\ <<<<"PianoRoll", 1>>>> \in Seq(Element)
  BY OneWritten DEF ElementName, WritePortId, WriteGdkRgba, WriteTrack
<1>5. Times(2, WritePortId[1]) \in Seq(Element)
  BY TimesWritten DEF WritePortId, Element, ElementName
<1> DEFINE ids == Times(2, WritePortId[1])
<1> HIDE DEF ids
<1>6. ids \in Seq(Element)
  BY <1>5 DEF ids
<1>7. <<<<"Channel", c - 1>>, <<"Plugins", 0>>>> \o flat \o WriteGdkRgba \in Seq(Element)
  BY <1>1, <1>3, <1>4, BothWritten
<1> DEFINE head == <<<<"Channel", c - 1>>, <<"Plugins", 0>>>> \o flat \o WriteGdkRgba
<1> HIDE DEF head
<1>8. /\ head \o <<<<"StereoIn", 2>>>> \o ids \o <<<<"MidiIn", 1>>>> \o WritePortId \in Seq(Element)
  BY <1>4, <1>6, <1>7, BothWritten DEF head
<1> DEFINE half == head \o <<<<"StereoIn", 2>>>> \o ids \o <<<<"MidiIn", 1>>>> \o WritePortId
<1> HIDE DEF half
<1>9. half \o <<<<"PianoRoll", 1>>>> \o WritePortId \o <<<<"StereoOut", 2>>>> \o ids \o WriteTrack \in Seq(Element)
  BY <1>4, <1>6, <1>8, BothWritten DEF half
<1>10. WriteChannel(c, strip, descr) =
         half \o <<<<"PianoRoll", 1>>>> \o WritePortId \o <<<<"StereoOut", 2>>>> \o ids \o WriteTrack
  BY <1>2 DEF WriteChannel, half, head, ids
<1>11. QED
  BY <1>9, <1>10

\* project_save leaves a file with something in it.
LEMMA ProjectWritten ==
  ASSUME IInv, StripsInv, Opened
  PROVE  WriteProject(<<Master>> \o order, [c \in DOMAIN channels |-> channels[c].strip], Descr) # <<>>
<1> DEFINE saved == <<Master>> \o order
           strips == [c \in DOMAIN channels |-> channels[c].strip]
           seqs == [n \in DOMAIN saved |-> WriteChannel(saved[n], strips[saved[n]], Descr)]
           flat == FlattenSeq(seqs)
           head == <<<<"Project", 0>>>> \o WriteTransport \o <<<<"Mixer", 0>>>>
<1>1. saved \in Seq(DOMAIN channels) /\ DOMAIN channels \subseteq Int
  <2> DEFINE S == DOMAIN channels
  <2>1. S = 1..Len(channels) /\ Len(channels) \in Nat /\ order \in Seq(2..Len(channels)) /\ Master \in S
    BY KnownChannel, MixerKnown DEF IInv, ChannelsKnown
  <2>2. 2..Len(channels) \subseteq S
    BY <2>1
  <2> HIDE DEF S
  <2>3. order \in Seq(S) /\ <<Master>> \in Seq(S)
    BY <2>1, <2>2
  <2>4. saved \in Seq(S)
    BY <2>3
  <2>5. QED
    BY <2>1, <2>4 DEF S
<1>2. \A c \in DOMAIN channels : Fitted(strips[c], Descr)
  BY FitProject, FitStrip DEF StripsInv
<1> HIDE DEF saved, strips
<1>3. \A n \in DOMAIN saved : WriteChannel(saved[n], strips[saved[n]], Descr) \in Seq(Element)
  <2> TAKE n \in DOMAIN saved
  <2>1. saved[n] \in DOMAIN channels
    BY <1>1
  <2>2. QED
    BY <2>1, <1>1, <1>2, ChannelWritten
<1>4. flat \in Seq(Element)
  <2> DEFINE T == Seq(Element)
  <2>1. \A n \in DOMAIN saved : WriteChannel(saved[n], strips[saved[n]], Descr) \in T
    BY <1>3
  <2>2. DOMAIN saved = 1..Len(saved) /\ Len(saved) \in Nat
    BY <1>1
  <2> HIDE DEF T
  <2>3. seqs \in Seq(T)
    BY <2>1, <2>2
  <2> HIDE DEF seqs
  <2>4. QED
    BY <2>3, FlatElements DEF T
<1>5. head \in Seq(Element) /\ Len(head) > 0
  <2>1. <<<<"Project", 0>>>> \in Seq(Element) /\ <<<<"Transport", 0>>>> \in Seq(Element)
          /\ <<<<"Mixer", 0>>>> \in Seq(Element)
    BY OneWritten DEF ElementName
  <2>2. WritePosition[1] \in Element
    BY DEF WritePosition, Element, ElementName
  <2>3. Times(6, WritePosition[1]) \in Seq(Element)
    BY <2>2, TimesWritten
  <2>4. WriteTransport \in Seq(Element)
    BY <2>1, <2>3, BothWritten DEF WriteTransport
  <2> DEFINE project == <<<<"Project", 0>>>>
             mixer == <<<<"Mixer", 0>>>>
  <2>5. project \in Seq(Element) /\ mixer \in Seq(Element) /\ Len(project) = 1
    BY <2>1
  <2> HIDE DEF project, mixer
  <2>6. project \o WriteTransport \in Seq(Element)
          /\ Len(project \o WriteTransport) = Len(project) + Len(WriteTransport)
    BY <2>4, <2>5, BothWritten
  <2>7. /\ project \o WriteTransport \o mixer \in Seq(Element)
        /\ Len(project \o WriteTransport \o mixer) = Len(project \o WriteTransport) + Len(mixer)
    BY <2>5, <2>6, BothWritten
  <2>8. Len(WriteTransport) \in Nat /\ Len(mixer) \in Nat
    BY <2>4, <2>5
  <2>9. QED
    BY <2>5, <2>6, <2>7, <2>8 DEF project, mixer
<1> HIDE DEF flat, head
<1>6. head \o flat \in Seq(Element) /\ Len(head \o flat) = Len(head) + Len(flat) /\ Len(flat) \in Nat /\ Len(head) \in Nat
  BY <1>4, <1>5, BothWritten
<1>7. Len(head \o flat) # 0
  BY <1>5, <1>6
<1>8. WriteProject(saved, strips, Descr) = head \o flat
  BY DEF WriteProject, flat, head
<1>9. QED
  BY <1>7, <1>8 DEF saved, strips

\* Where nothing of the mixer changes, where the program only goes on, and where nothing
\* is saved or selected.
LEMMA ViewsStay ==
  ASSUME ViewsInv, UNCHANGED <<mixerVars, regions>>
  PROVE  ViewsInv'
<1>1. /\ UNCHANGED <<channels, plugins, regions, shown, selected, paned, units, view>>
  BY DEF mixerVars, editVars, projectVars, connectionsVars
<1>2. Grows
  BY <1>1 DEF Grows
<1>3. QED
  BY <1>1, <1>2, ViewsLater

LEMMA AppStays ==
  ASSUME AppInv, UNCHANGED <<browserVars, backendVars>>, task' \in DOMAIN Tasks, Opened => Opened'
  PROVE  AppInv'
BY DEF AppInv, browserVars, managerVars, backendVars

LEMMA FilesStay ==
  ASSUME FilesInv, UNCHANGED <<recent, disk, selection, complete, dir>>
  PROVE  FilesInv'
BY DEF FilesInv, RecentProjects

\* A project that is forgotten, with all that showed it.
LEMMA ForgetKnown ==
  ASSUME Forget, AppInv, regions' = <<>>, task' \in DOMAIN Tasks, ~Opened'
  PROVE  ViewsInv' /\ AppInv'
<1>1. /\ shown' = {} /\ selected' = {} /\ paned' = {} /\ units' = {}
      /\ view' = [src |-> <<>>, dest |-> <<>>]
      /\ category' = <<>> /\ preferred' = preferred /\ engine' = EngineNew
  BY DEF Forget, ViewNew, BrowserNew
<1>2. ViewsInv'
  <2>1. DOMAIN view' = {"src", "dest"} /\ view'.src = <<>> /\ view'.dest = <<>>
    BY <1>1
  <2> DEFINE none == <<>>
  <2>2. none \in Seq(DOMAIN channels')
    OBVIOUS
  <2>3. regions' = none
    OBVIOUS
  <2> HIDE DEF none
  <2>4. QED
    BY <1>1, <2>1, <2>2, <2>3 DEF ViewsInv, Shows
<1>3. AppInv'
  <2>1. /\ DOMAIN EngineNew = EngineFields /\ EngineNew.backend = "none" /\ EngineNew.active = FALSE
    BY DEF EngineNew, EngineFields
  <2>2. Elements(category') = {}
    BY <1>1 DEF Elements
  <2>3. QED
    BY <1>1, <2>1, <2>2 DEF AppInv
<1>4. QED
  BY <1>2, <1>3

\* engine_setup, and what changes the engine afterwards.
LEMMA EngineKnown ==
  ASSUME NEW e, DOMAIN e = EngineFields
  PROVE  /\ \A backend \in Backends : \A block :
              LET set == EngineSetup(e, backend, block)
              IN DOMAIN set = EngineFields /\ set.backend = backend /\ set.active = TRUE
         /\ \A rate, block : \A new \in {TransportSetBpm(e), SampleRateCb(e, rate, TRUE), BufferSizeCb(e, block)} :
              DOMAIN new = EngineFields /\ new.backend = e.backend /\ new.active = e.active
<1>1. ASSUME NEW backend \in Backends, NEW block
      PROVE  LET set == EngineSetup(e, backend, block)
             IN DOMAIN set = EngineFields /\ set.backend = backend /\ set.active = TRUE
  BY DEF EngineSetup, TransportSetup, TransportSetBpm, UpdateFramesPerTick, JackSetup, SampleRateCb, PaSetup, EngineFields
<1>2. ASSUME NEW rate
      PROVE  LET new == SampleRateCb(e, rate, TRUE)
             IN DOMAIN new = EngineFields /\ new.backend = e.backend /\ new.active = e.active
  BY DEF UpdateFramesPerTick, SampleRateCb, EngineFields
<1>3. ASSUME NEW block
      PROVE  LET new == BufferSizeCb(e, block)
             IN DOMAIN new = EngineFields /\ new.backend = e.backend /\ new.active = e.active
  BY DEF BufferSizeCb, EngineFields
<1>4. LET new == TransportSetBpm(e)
      IN DOMAIN new = EngineFields /\ new.backend = e.backend /\ new.active = e.active
  BY DEF TransportSetBpm, UpdateFramesPerTick, EngineFields
<1>5. QED
  BY <1>1, <1>2, <1>3, <1>4

\* project_save.
LEMMA SavedKnown ==
  ASSUME IInv, StripsInv, FilesInv, Opened, NEW d \in Dirs, NEW writable, ProjectSave(d, writable)
  PROVE  FilesInv'
<1> DEFINE file == [project |-> WriteProject(<<Master>> \o order, [c \in DOMAIN channels |-> channels[c].strip], Descr),
                    regions |-> WriteRegions(Len(regions))]
<1>1. /\ dir' = <<d>> /\ recent' = Append(recent, d)
      /\ selection' = selection /\ complete' = complete
      /\ disk' = (IF ~writable THEN disk ELSE [disk EXCEPT ![d] = file])
  BY DEF ProjectSave, AddToRecentProjects, Counted, startVars
<1>2. file.project # <<>>
  BY ProjectWritten
<1> HIDE DEF file
<1>3. /\ recent' \in Seq(Dirs) /\ Elements(recent) \subseteq Elements(recent') /\ d \in Elements(recent')
  <2>1. recent \in Seq(Dirs)
    BY DEF FilesInv
  <2>2. /\ recent' \in Seq(Dirs) /\ Len(recent') = Len(recent) + 1 /\ Len(recent) \in Nat
        /\ (\A n \in 1..Len(recent) : recent'[n] = recent[n]) /\ recent'[Len(recent) + 1] = d
    BY <1>1, <2>1
  <2>3. DOMAIN recent = 1..Len(recent) /\ DOMAIN recent' = 1..(Len(recent) + 1)
    BY <2>1, <2>2
  <2>4. QED
    BY <2>2, <2>3 DEF Elements
<1>4. DOMAIN disk' = Dirs /\ \A x \in Dirs : disk[x].project # <<>> => disk'[x].project # <<>>
  <2>1. DOMAIN disk = Dirs
    BY DEF FilesInv
  <2>2. CASE disk' = disk
    BY <2>1, <2>2
  <2>3. CASE disk' = [disk EXCEPT ![d] = file]
    <3>1. DOMAIN disk' = Dirs /\ \A x \in Dirs : disk'[x] = IF x = d THEN file ELSE disk[x]
      BY <2>1, <2>3
    <3>2. QED
      BY <3>1, <1>2
  <2>4. QED
    BY <1>1, <2>2, <2>3
<1>5. selection # <<>> => selection[1] \in Elements(recent') /\ disk'[selection[1]].project # <<>>
  <2>1. Elements(recent) \subseteq Dirs
    BY DEF FilesInv, Elements
  <2>2. QED
    BY <1>3, <1>4, <2>1 DEF FilesInv, RecentProjects
<1>6. dir'[1] = d
  BY <1>1
<1>7. QED
  BY <1>1, <1>3, <1>4, <1>5, <1>6 DEF FilesInv, RecentProjects

\* What points into the project, the program around it and its files, in every step.
LEMMA NextKnown ==
  ASSUME IInv, StripsInv, ViewsInv, AppInv, FilesInv, IInv', StripsInv', [Next]_vars
  PROVE  ViewsInv' /\ AppInv' /\ FilesInv'
<1> DEFINE Known == ViewsInv' /\ AppInv' /\ FilesInv'
<1>1. task' = task => task' \in DOMAIN Tasks
  BY DEF AppInv
<1>2. ASSUME Crashes PROVE Known
  <2>1. /\ UNCHANGED <<startVars, sessionVars>>
        /\ channels' = channels /\ plugins' = plugins
        /\ shown' = shown /\ selected' = selected /\ paned' = paned /\ units' = units /\ view' = view
    BY <1>2 DEF Crashes, Crash, projectVars, connectionsVars
  <2>2. /\ regions' = regions /\ task' = task /\ stage' = stage
        /\ UNCHANGED <<recent, disk, selection, complete, dir>> /\ UNCHANGED <<browserVars, backendVars>>
    BY <2>1 DEF startVars, sessionVars, fileVars
  <2>3. ViewsInv'
    BY <2>1, <2>2, ViewsLater DEF Grows
  <2>4. AppInv'
    BY <2>2, <1>1, AppStays DEF Opened
  <2>5. QED
    BY <2>2, <2>3, <2>4, FilesStay
<1>3. ASSUME NEW file, Launch(file) PROVE Known
  <2>1. Forget /\ regions' = <<>> /\ task' = 1 /\ stage' = "task" /\ selection' = <<>> /\ dir' = <<>>
          /\ UNCHANGED <<recent, disk>>
    BY <1>3 DEF Launch, AssistantNew
  <2>2. task' \in DOMAIN Tasks /\ ~Opened'
    BY <2>1 DEF Tasks, Opened
  <2>3. FilesInv'
    BY <2>1 DEF FilesInv
  <2>4. QED
    BY <2>1, <2>2, <2>3, ForgetKnown
<1>4. CASE TaskFunc
  <2>1. /\ stage = "task" /\ stage' = "task done" /\ UNCHANGED <<mixerVars, regions>> /\ task' = task
        /\ UNCHANGED <<recent, disk, selection, complete, dir>>
        /\ category' = category /\ preferred' = preferred
    BY <1>4 DEF TaskFunc, fileVars
  <2>2. category = <<>>
    BY <2>1 DEF AppInv, Opened
  <2>3. Elements(category') = {}
    <3>1. Elements(<<>>) = {}
      BY DEF Elements
    <3>2. category' = <<>>
      BY <2>1, <2>2
    <3>3. QED
      BY <3>1, <3>2
  <2>4. DOMAIN engine' = EngineFields /\ engine'.backend \in Backends \cup {"none"}
          /\ (engine'.active <=> engine'.backend # "none")
    <3>1. CASE engine' = engine
      BY <3>1 DEF AppInv
    <3>2. CASE engine' # engine
      <4>1. PICK block : engine' = EngineSetup(engine, preferred, block)
        BY <3>2, <1>4 DEF TaskFunc
      <4>2. engine'.backend = preferred /\ engine'.active = TRUE /\ DOMAIN engine' = EngineFields
        BY <4>1, EngineKnown DEF AppInv
      <4>3. preferred \in Backends /\ preferred # "none"
        BY DEF AppInv, Backends
      <4>4. QED
        BY <4>2, <4>3
    <3>3. QED
      BY <3>1, <3>2
  <2>5. AppInv'
    BY <1>1, <2>1, <2>2, <2>3, <2>4 DEF AppInv
  <2>6. QED
    BY <2>1, <2>5, ViewsStay, FilesStay
<1>5. ASSUME UNCHANGED <<mixerVars, sessionVars>>, UNCHANGED <<selection, complete>>,
             task' \in DOMAIN Tasks, Opened => Opened'
      PROVE  Known
  <2>1. UNCHANGED <<recent, disk, dir, regions, browserVars, backendVars>>
    BY <1>5 DEF sessionVars, fileVars
  <2>2. QED
    BY <1>5, <2>1, ViewsStay, AppStays, FilesStay
<1>6. CASE TaskCompleted
  <2>1. task' \in DOMAIN Tasks
    <3>1. DOMAIN Tasks = 1..5 /\ Len(Tasks) = 5
      BY DEF Tasks
    <3>2. task \in 1..5
      BY <3>1 DEF AppInv
    <3>3. task' = IF task = Len(Tasks) THEN task ELSE task + 1
      BY <1>6 DEF TaskCompleted
    <3>4. task' \in 1..5
      BY <3>1, <3>2, <3>3
    <3>5. QED
      BY <3>1, <3>4
  <2>2. ~Opened
    BY <1>6 DEF TaskCompleted, Opened
  <2>3. QED
    BY <1>5, <1>6, <2>1, <2>2 DEF TaskCompleted
<1>7. CASE UpdateSplash
  BY <1>1, <1>5, <1>7 DEF UpdateSplash, Opened
<1>8. ASSUME NEW d, SelectionChanged(d) PROVE Known
  <2>1. /\ d \in RecentProjects /\ selection' = <<d>> /\ complete' = TRUE
        /\ UNCHANGED <<mixerVars, stage, task, sessionVars>>
    BY <1>8 DEF SelectionChanged, ProjectRows
  <2>2. UNCHANGED <<recent, disk, dir, regions, browserVars, backendVars>>
    BY <2>1 DEF sessionVars, fileVars
  <2>3. FilesInv'
    <3>1. selection'[1] = d
      BY <2>1
    <3>2. QED
      BY <2>1, <2>2, <3>1 DEF FilesInv, RecentProjects
  <2>4. QED
    BY <1>1, <2>1, <2>2, <2>3, ViewsStay, AppStays DEF Opened
<1>9. CASE CreateNewToggled
  <2>1. /\ (selection' = <<>> \/ selection' = selection) /\ (complete => complete')
        /\ UNCHANGED <<mixerVars, stage, task, sessionVars>>
    BY <1>9 DEF CreateNewToggled
  <2>2. UNCHANGED <<recent, disk, dir, regions, browserVars, backendVars>>
    BY <2>1 DEF sessionVars, fileVars
  <2>3. FilesInv'
    BY <2>1, <2>2 DEF FilesInv, RecentProjects
  <2>4. QED
    BY <1>1, <2>1, <2>2, <2>3, ViewsStay, AppStays DEF Opened
<1>10. ASSUME NEW cancel, OnFinish(cancel) PROVE Known
  BY <1>1, <1>5, <1>10 DEF OnFinish, Assistant, Opened
<1>11. CASE InitMainWindow
  BY <1>1, <1>5, <1>11 DEF InitMainWindow, Opened
<1>12. CASE CreateDefault
  <2>1. /\ UNCHANGED <<plugins, shown, selected, paned, units, view, task, selection, complete, sessionVars>>
        /\ stage' = "setup main window"
    BY <1>12 DEF CreateDefault, connectionsVars
  <2>2. UNCHANGED <<recent, disk, dir, regions, browserVars, backendVars>>
    BY <2>1 DEF sessionVars, fileVars
  <2>3. Grows
    BY <1>12, <2>1, CreateDefaultOpens, ChannelsGrow DEF Grows
  <2>4. ViewsInv'
    BY <2>1, <2>2, <2>3, ViewsLater
  <2>5. QED
    BY <1>1, <2>1, <2>2, <2>4, AppStays, FilesStay DEF Opened
<1>13. CASE TaskFails \/ LoadCrashes \/ PlayCrashes \/ SaveCrashes
  BY <1>2, <1>13 DEF TaskFails, LoadCrashes, PlayCrashes, SaveCrashes
<1>14. CASE SetupMainWindow
  <2>1. /\ shown' = {Master} \cup Elements(order) /\ order' = order /\ Opened'
        /\ units' = AudioUnits(Elements(order'), [c \in DOMAIN channels' |-> channels'[c].strip])
        /\ UNCHANGED <<plugins, selected, paned, view, task, selection, complete, sessionVars>>
    BY <1>14 DEF SetupMainWindow, MainWindowRefresh, Rewired, ConnectionsRefresh, Opened
  <2>2. UNCHANGED <<recent, disk, dir, regions, browserVars, backendVars>>
    BY <2>1 DEF sessionVars, fileVars
  <2>3. Grows
    BY <1>14, <2>1, MainWindowKeeps, ChannelsGrow DEF Grows
  <2>4. /\ {Master} \cup Elements(order') \subseteq DOMAIN channels'
        /\ AudioUnits(Elements(order'), [c \in DOMAIN channels' |-> channels'[c].strip]) \subseteq AllUnits'
    <3>1. ASSUME TRUE PROVE (IInv /\ StripsInv /\ Opened =>
            /\ {Master} \cup Elements(order) \subseteq DOMAIN channels
            /\ AudioUnits(Elements(order), [c \in DOMAIN channels |-> channels[c].strip]) \subseteq AllUnits)'
      BY WidgetsKnown, PTL
    <3>2. QED
      BY <3>1, <2>1
  <2>5. ViewsInv'
    BY <2>1, <2>2, <2>3, <2>4, ViewsLater
  <2>6. QED
    BY <1>1, <2>1, <2>2, <2>5, AppStays, FilesStay
<1>15. ASSUME Counted PROVE UNCHANGED <<stage, task, selection, complete>> /\ (Opened => Opened')
  BY <1>15 DEF Counted, startVars, Opened
<1>16. CASE Edit
  <2>1. /\ Opened /\ MixerEdit /\ Counted /\ UNCHANGED <<dir, regions, disk, recent, browserVars, backendVars>>
    BY <1>16 DEF Edit, Edits, Running, Opened, SameFiles, SameDevices
  <2>2. QED
    BY <1>1, <1>15, <2>1, MixerEditViews, AppStays, FilesStay
<1>17. CASE Step
  <2>1. MixerStep /\ UNCHANGED <<startVars, sessionVars>>
    BY <1>17 DEF Step
  <2>2. UNCHANGED <<stage, task, selection, complete, recent, disk, dir, regions, browserVars, backendVars>>
    BY <2>1 DEF startVars, sessionVars, fileVars
  <2>3. QED
    BY <1>1, <2>1, <2>2, MixerStepViews, AppStays, FilesStay DEF Opened
<1>18. ASSUME NEW c \in categories, Browse(c) PROVE Known
  <2>1. /\ Opened /\ Counted /\ UNCHANGED <<dir, regions, disk, recent, mixerVars, managerVars, backendVars>>
        /\ category' = <<c>>
    BY <1>18 DEF Browse, Edits, Running, Opened, SameFiles, SelectCategory
  <2>2. Elements(category') \subseteq categories'
    <3>1. Elements(<<c>>) = {c}
      BY DEF Elements
    <3>2. QED
      BY <2>1, <3>1 DEF managerVars
  <2>3. AppInv'
    BY <1>1, <1>15, <2>1, <2>2 DEF AppInv, backendVars
  <2>4. QED
    BY <1>15, <2>1, <2>3, ViewsStay, FilesStay
<1>19. ASSUME NEW backend \in Backends, SetAudioBackend(backend) PROVE Known
  <2>1. /\ Counted /\ UNCHANGED <<dir, regions, disk, recent, mixerVars, browserVars, engine>>
        /\ preferred' = backend
    BY <1>19 DEF SetAudioBackend, SameFiles
  <2>2. AppInv'
    BY <1>1, <1>15, <2>1, <1>19 DEF AppInv, browserVars, managerVars
  <2>3. QED
    BY <1>15, <2>1, <2>2, ViewsStay, FilesStay
<1>20. ASSUME NEW e, EngineChange(e), DOMAIN e = EngineFields, e.backend = engine.backend,
              e.active = engine.active
       PROVE  Known
  <2>1. /\ Counted /\ UNCHANGED <<dir, regions, disk, recent, mixerVars, browserVars, preferred>> /\ engine' = e
    BY <1>20 DEF EngineChange, SameFiles
  <2>2. AppInv'
    BY <1>1, <1>15, <1>20, <2>1 DEF AppInv, browserVars, managerVars
  <2>3. QED
    BY <1>15, <2>1, <2>2, ViewsStay, FilesStay
<1>21. ASSUME SetTempo \/ JackChanges PROVE Known
  <2> DEFINE AsBefore(new) == DOMAIN new = EngineFields /\ new.backend = engine.backend /\ new.active = engine.active
  <2>1. DOMAIN engine = EngineFields
    BY DEF AppInv
  <2>2. \A rate, block : \A new \in {TransportSetBpm(engine), SampleRateCb(engine, rate, TRUE), BufferSizeCb(engine, block)} :
          AsBefore(new)
    BY <2>1, EngineKnown
  <2>3. AsBefore(TransportSetBpm(engine)) /\ AsBefore(SampleRateCb(engine, JackRate, TRUE))
          /\ \A block : AsBefore(BufferSizeCb(engine, block))
    BY <2>2
  <2>4. \A new : EngineChange(new) /\ AsBefore(new) => Known
    BY <1>20
  <2> HIDE DEF Known, AsBefore
  <2>5. SetTempo => Known
    BY <2>3, <2>4 DEF SetTempo
  <2>6. EngineChange(SampleRateCb(engine, JackRate, TRUE)) => Known
    BY <2>3, <2>4
  <2>7. \A block : EngineChange(BufferSizeCb(engine, block)) => Known
    BY <2>3, <2>4
  <2>8. QED
    BY <1>21, <2>5, <2>6, <2>7 DEF JackChanges
<1>22. ASSUME NEW t \in DOMAIN channels, AddRegion(t) PROVE Known
  <2>1. /\ Counted /\ UNCHANGED <<dir, disk, recent, mixerVars, browserVars, backendVars>>
        /\ regions' = Append(regions, t)
    BY <1>22 DEF AddRegion, SameDevices, ArrayAppend
  <2>2. UNCHANGED <<channels, plugins, shown, selected, paned, units, view>>
    BY <2>1 DEF mixerVars, editVars, projectVars, connectionsVars
  <2>3. regions' \in Seq(DOMAIN channels')
    BY <1>22, <2>1, <2>2 DEF ViewsInv
  <2>4. ViewsInv'
    BY <2>2, <2>3, ViewsLater DEF Grows
  <2>5. QED
    BY <1>1, <1>15, <2>1, <2>4, AppStays, FilesStay
<1>23. ASSUME NEW d \in Dirs, NEW writable, ProjectSave(d, writable) PROVE Known
  <2>1. /\ Opened /\ Counted /\ UNCHANGED <<mixerVars, regions, browserVars, backendVars>>
    BY <1>23 DEF ProjectSave, Edits, Running, Opened, SameDevices
  <2>2. QED
    BY <1>1, <1>15, <1>23, <2>1, ViewsStay, AppStays, SavedKnown
<1>24. ASSUME NEW writable, Save(writable) PROVE Known
  <2>1. dir # <<>> /\ ProjectSave(dir[1], writable)
    BY <1>24 DEF Save
  <2>2. dir[1] \in Dirs
    BY <2>1 DEF FilesInv, Elements
  <2>3. QED
    BY <1>23, <2>1, <2>2
<1>25. CASE Quit
  <2>1. Forget /\ regions' = <<>> /\ stage' = "off" /\ dir' = <<>>
          /\ UNCHANGED <<task, selection, complete, recent, disk>>
    BY <1>25 DEF Quit
  <2>2. FilesInv'
    BY <2>1 DEF FilesInv, RecentProjects
  <2>3. QED
    BY <1>1, <2>1, <2>2, ForgetKnown DEF Opened
<1>26. CASE Terminated \/ UNCHANGED vars
  BY <1>1, <1>5, <1>26 DEF Terminated, vars, startVars, Opened
<1>27. QED
  BY <1>3, <1>4, <1>6, <1>7, <1>8, <1>9, <1>10, <1>11, <1>12, <1>13, <1>14, <1>16, <1>17, <1>18,
     <1>19, <1>21, <1>22, <1>23, <1>24, <1>25, <1>26 DEF Next, SaveAs

\* The program starts with none of it.
LEMMA InitKnown == Init => ViewsInv /\ AppInv /\ FilesInv
<1> SUFFICES ASSUME Init PROVE ViewsInv /\ AppInv /\ FilesInv
  OBVIOUS
<1> DEFINE none == <<>>
<1>1. \A S : none \in Seq(S) /\ Elements(none) = {}
  BY DEF Elements
<1>2. ViewsInv
  <2>1. /\ shown = {} /\ selected = {} /\ paned = {} /\ units = {} /\ regions = none
        /\ view = [src |-> <<>>, dest |-> <<>>]
    BY DEF Init
  <2> HIDE DEF none
  <2>2. DOMAIN view = {"src", "dest"} /\ view.src = <<>> /\ view.dest = <<>>
    BY <2>1
  <2>3. QED
    BY <1>1, <2>1, <2>2 DEF ViewsInv, Shows
<1>3. AppInv
  <2>1. task = 1 /\ category = none /\ preferred = "jack" /\ engine = EngineNew
    BY DEF Init
  <2>2. DOMAIN EngineNew = EngineFields /\ EngineNew.backend = "none" /\ EngineNew.active = FALSE
    BY DEF EngineNew, EngineFields
  <2>3. 1 \in DOMAIN Tasks
    BY DEF Tasks
  <2>4. QED
    BY <1>1, <2>1, <2>2, <2>3 DEF AppInv, Backends
<1>4. FilesInv
  <2>1. recent = none /\ selection = none /\ dir = none /\ DOMAIN disk = Dirs
    BY DEF Init
  <2>2. QED
    BY <1>1, <2>1 DEF FilesInv
<1>5. QED
  BY <1>2, <1>3, <1>4

\* The state of the whole program is always one of those TypeOK describes: what is shown,
\* selected or written exists, what the assistant offers can be opened, and the engine is
\* active exactly when a backend was set up (project.c, start_assistant.c, mixer.c,
\* audio_unit.c, engine.c).
THEOREM SessionTypeOK == Spec => []TypeOK
<1> DEFINE Inv == IInv /\ StripsInv /\ ViewsInv /\ AppInv /\ FilesInv
<1>1. Init => Inv
  BY InitInv, InitStrips, InitKnown
<1>2. Inv /\ [Next]_vars => Inv'
  <2> SUFFICES ASSUME Inv, [Next]_vars PROVE Inv'
    OBVIOUS
  <2>1. IInv' /\ StripsInv'
    BY NextInv, NextFits
  <2>2. QED
    BY <2>1, NextKnown
<1>3. ASSUME Inv PROVE TypeOK
  <2>1. /\ Elements(order) \subseteq DOMAIN channels /\ Elements(tracks) \subseteq {Chord} \cup DOMAIN channels
    BY <1>3, MixerKnown
  <2>2. shown \subseteq DOMAIN channels /\ Elements(regions) \subseteq DOMAIN channels
          /\ selected \subseteq {Chord} \cup DOMAIN channels /\ paned \subseteq {Chord} \cup DOMAIN channels
    BY <1>3 DEF ViewsInv, Elements
  <2>3. ASSUME NEW c \in DOMAIN channels
        PROVE  /\ channels[c].type \in {"master", "midi", "bus"}
               /\ channels[c].strip \in [Slots -> 0..Len(plugins)]
               /\ \A n \in DOMAIN channels[c].ats :
                    channels[c].ats[n].automatable \in (0..Len(plugins)) \X Nat
    <3>1. ChannelFit(channels[c], Len(plugins))
      BY <1>3 DEF StripsInv, StripsFit
    <3>2. \A at \in TrackOf(Len(plugins)) : at.automatable \in (0..Len(plugins)) \X Nat
      BY DEF TrackOf, Controlled
    <3>3. \A n \in DOMAIN channels[c].ats : channels[c].ats[n] \in TrackOf(Len(plugins))
      BY <3>1 DEF ChannelFit
    <3>4. QED
      BY <3>1, <3>2, <3>3 DEF ChannelFit
  <2>4. Elements(<<view.src, view.dest>>) \subseteq
          {<<>>} \cup ({"channel"} \X DOMAIN channels) \cup ({"plugin"} \X DOMAIN plugins)
    <3>1. Shows(view.src) /\ Shows(view.dest)
      BY <1>3 DEF ViewsInv
    <3>2. Elements(<<view.src, view.dest>>) = {view.src, view.dest}
      BY DEF Elements
    <3>3. QED
      BY <3>1, <3>2 DEF Shows, AllUnits
  <2>5. /\ task \in DOMAIN Tasks /\ Elements(category) \subseteq categories /\ preferred \in Backends
        /\ engine.backend \in Backends \cup {"none"} /\ (engine.active <=> engine.backend # "none")
        /\ selection # <<>> => complete /\ selection[1] \in RecentProjects
        /\ dir # <<>> => dir[1] \in Elements(recent)
    BY <1>3 DEF AppInv, FilesInv
  <2>6. QED
    BY <2>1, <2>2, <2>3, <2>4, <2>5 DEF TypeOK
<1>4. QED
  BY <1>1, <1>2, <1>3, PTL DEF Spec
=============================================================================
