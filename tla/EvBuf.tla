-------------------------------- MODULE EvBuf --------------------------------
(***************************************************************************)
(* The buffer of events that is connected to an event port of a plugin     *)
(* (lv2/lv2_evbuf.c).  The events themselves are left out: a buffer is its *)
(* capacity, the size field of the atom at its head and the type of that   *)
(* atom.  The arithmetic is the code's: unsigned, modulo Word.             *)
(*                                                                         *)
(* An operator whose name ends in Mutant is a mistake one could make in    *)
(* the definition that follows it.                                         *)
(***************************************************************************)
EXTENDS Integers, Sequences

CONSTANT Word  \* size_t counts modulo Word

AtomSize == 8        \* sizeof (LV2_Atom)
SequenceBody == 8    \* sizeof (LV2_Atom_Sequence_Body)
EventSize == 16      \* sizeof (LV2_Atom_Event)

EvbufType == [capacity : Nat, size : Nat, type : {"Sequence", "Chunk"}]

lv2_evbuf_pad_size(size) == 8 * ((size + 7) \div 8)

\* An input is an empty sequence, an output a chunk for the plugin to fill.
lv2_evbuf_reset(evbuf, input) ==
  IF input THEN [evbuf EXCEPT !.size = SequenceBody, !.type = "Sequence"]
  ELSE [evbuf EXCEPT !.size = evbuf.capacity, !.type = "Chunk"]

lv2_evbuf_new(capacity) ==
  lv2_evbuf_reset([capacity |-> capacity, size |-> 0, type |-> "Chunk"], TRUE)

lv2_evbuf_get_size(evbuf) ==
  IF evbuf.type = "Sequence" THEN evbuf.size - SequenceBody ELSE 0

\* Offsets into the contents: where the first event is, and where the next goes.
lv2_evbuf_begin(evbuf) == 0
lv2_evbuf_end(evbuf) == lv2_evbuf_pad_size(lv2_evbuf_get_size(evbuf))
lv2_evbuf_is_valid(evbuf, offset) == offset < lv2_evbuf_get_size(evbuf)

\* The header of the event is left out of what has to fit.
lv2_evbuf_fitsMutant(evbuf, size) ==
  (evbuf.capacity - AtomSize - evbuf.size) % Word >= size

\* The test before a write: the space left, unsigned, and the unpadded size.
lv2_evbuf_fits(evbuf, size) ==
  (evbuf.capacity - AtomSize - evbuf.size) % Word >= EventSize + size

\* The event is written at offset: the buffer, and the last byte it touched.
lv2_evbuf_write(evbuf, offset, size) ==
  IF ~lv2_evbuf_fits(evbuf, size)
  THEN [evbuf |-> evbuf, offset |-> offset, end |-> 0, written |-> FALSE]
  ELSE LET padded == lv2_evbuf_pad_size(EventSize + size)
       IN  [evbuf |-> [evbuf EXCEPT !.size = @ + padded],
            offset |-> offset + padded,
            end |-> offset + EventSize + size,
            written |-> TRUE]

\* Several events, one after the other; the iterator is shared.
WriteAll(evbuf, sizes) ==
  LET After[n \in 0..Len(sizes)] ==
        IF n = 0 THEN [evbuf |-> evbuf, offset |-> lv2_evbuf_begin(evbuf), end |-> 0, written |-> TRUE]
        ELSE LET before == After[n - 1]
                 now == lv2_evbuf_write(before.evbuf, before.offset, sizes[n])
             IN  [now EXCEPT !.end = IF now.written THEN now.end ELSE before.end]
  IN  After[Len(sizes)]

\* The contents are capacity bytes long.
InBounds(evbuf, end) == end <= evbuf.capacity

\* Whole capacities leave room for the padding of whatever fits.
WholeCapacity(capacity) ==
  capacity \in Nat /\ capacity % 8 = 0 /\ 16 <= capacity /\ capacity < Word
=============================================================================
