------------------------------- MODULE Arrays -------------------------------
(***************************************************************************)
(* The unordered-array helpers of src/utils/arrays.c.  A C array and its   *)
(* element count are one TLA+ sequence: positions 0 .. size - 1 of the     *)
(* array are positions 1 .. Len of the sequence.  None of the helpers      *)
(* looks at the capacity of the array; whoever owns the array must.        *)
(***************************************************************************)
EXTENDS Naturals, Sequences

\* The elements between the start of the array and its size.
Elements(array) == {array[n] : n \in DOMAIN array}

\* No element is stored twice.
Distinct(array) == \A m, n \in DOMAIN array : array[m] = array[n] => m = n

ArrayContains(array, element) == element \in Elements(array)

\* The first position that holds element, 0 when there is none.
ArrayIndexOf(array, element) ==
  IF ArrayContains(array, element)
  THEN CHOOSE n \in DOMAIN array :
         /\ array[n] = element
         /\ \A m \in 1..(n - 1) : array[m] # element
  ELSE 0

\* The later elements move down by one.
ArrayRemoveAt(array, pos) ==
  [n \in 1..(Len(array) - 1) |-> IF n < pos THEN array[n] ELSE array[n + 1]]

\* Deletes the first occurrence of element and nothing else.
ArrayDelete(array, element) ==
  IF ArrayContains(array, element)
  THEN ArrayRemoveAt(array, ArrayIndexOf(array, element))
  ELSE array

ArrayAppend(array, element) == Append(array, element)

\* pos is a position of the C array, from 0 to its size.
ArrayInsert(array, pos, element) ==
  [n \in 1..(Len(array) + 1) |->
     IF n <= pos THEN array[n]
     ELSE IF n = pos + 1 THEN element
     ELSE array[n - 1]]

\* The elements that are in S, in their order: what a loop that skips the others meets.
Picked(array, S) ==
  LET picked[n \in 0..Len(array)] ==
        IF n = 0 THEN <<>>
        ELSE IF array[n] \in S THEN Append(picked[n - 1], array[n]) ELSE picked[n - 1]
  IN picked[Len(array)]
=============================================================================
