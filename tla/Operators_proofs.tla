--------------------------- MODULE Operators_proofs ---------------------------
(***************************************************************************)
(* Facts about the pure operators, on which the proofs about components    *)
(* rest: what a recursive function is, what the array helpers of           *)
(* src/utils/arrays.c return for every array and every element, which      *)
(* default chords musical_scale_new gets right for every root (Ionian,     *)
(* harmonic minor and melodic minor), that symap.c finds every URI that it *)
(* was given, and that the arithmetic of positions (audio/position.c) is   *)
(* that of the ticks they stand for, under every time signature.           *)
(***************************************************************************)
EXTENDS Arrays, Scales, Symap, Positions, WellFoundedInduction, TLAPS

\* A nonempty set of natural numbers has a least element.
LEMMA LeastNatural ==
  ASSUME NEW T \in SUBSET Nat, T # {}
  PROVE  \E least \in T : \A n \in T : least <= n
<1> DEFINE R == OpToRel(<, Nat)
<1>1. IsWellFoundedOn(R, Nat)
  BY NatLessThanWellFounded
<1>2. PICK least \in T : \A n \in T : ~(<<n, least>> \in R)
  <2> HIDE DEF R
  <2> QED BY <1>1, WFMin
<1>3. \A n \in T : ~(n < least)
  BY <1>2 DEF OpToRel
<1> QED
  BY <1>3

\* What does not go wrong at first and nowhere goes wrong for the first time, never does.
LEMMA NeverFails ==
  ASSUME NEW N \in Nat, NEW T, T \subseteq 0..N, 0 \notin T, \A n \in 1..N : n \in T => n - 1 \in T
  PROVE  \A n \in 0..N : n \notin T
<1>1. ASSUME T # {} PROVE FALSE
  <2>1. T \in SUBSET Nat
    OBVIOUS
  <2>2. PICK least \in T : \A n \in T : least <= n
    BY <1>1, <2>1, LeastNatural
  <2>3. least \in 1..N /\ ~(least <= least - 1)
    BY <2>2
  <2> QED
    BY <2>2, <2>3
<1> QED
  BY <1>1

(***************************************************************************)
(* A function that is defined by recursion over 0..N, as TLA+ writes it:   *)
(* its value is a choice among the functions that satisfy the equation, so *)
(* what has to be known is that there is one and that it is the only one.  *)
(***************************************************************************)
\* f starts with first, and G says how it goes on.
GoesOn(f, N, first, G) == f[0] = first /\ \A n \in 1..N : f[n] = G[<<n, f[n - 1]>>]

\* What f and g have in common up to a place they have in common at the next.
Alike(f, g, N) == f[0] = g[0] /\ \A n \in 1..N : f[n - 1] = g[n - 1] => f[n] = g[n]

\* A function on 0..N that is defined by its first value and a step exists.
LEMMA RecursionExists ==
  ASSUME NEW S, NEW first \in S, NEW N \in Nat, NEW G \in [(1..N) \X S -> S]
  PROVE  \E f \in [0..N -> S] : GoesOn(f, N, first, G)
<1> DEFINE Defined(k) ==
             \E f \in [0..k -> S] : /\ f[0] = first
                                    /\ \A n \in 1..k : f[n] = G[<<n, f[n - 1]>>]
<1>1. Defined(0)
  <2>1. [n \in 0..0 |-> first] \in [0..0 -> S] /\ [n \in 0..0 |-> first][0] = first
    OBVIOUS
  <2>2. 1..0 = {}
    OBVIOUS
  <2> QED BY <2>1, <2>2
<1>2. ASSUME NEW k \in 1..N, Defined(k - 1)
      PROVE  Defined(k)
  <2>1. PICK f \in [0..(k - 1) -> S] :
          f[0] = first /\ \A n \in 1..(k - 1) : f[n] = G[<<n, f[n - 1]>>]
    BY <1>2
  <2> DEFINE g == [n \in 0..k |-> IF n = k THEN G[<<k, f[k - 1]>>] ELSE f[n]]
  <2>2. k \in Nat /\ k # 0 /\ k - 1 \in 0..(k - 1) /\ 0 \in 0..(k - 1)
    OBVIOUS
  <2>3. f[k - 1] \in S
    BY <2>2
  <2>4. G[<<k, f[k - 1]>>] \in S
    BY <2>3
  <2>5. \A n \in 0..k : n # k => n \in 0..(k - 1)
    BY <2>2
  <2>6. g \in [0..k -> S]
    BY <2>4, <2>5
  <2>7. g[0] = first
    BY <2>1, <2>2
  <2>8. ASSUME NEW n \in 1..k PROVE g[n] = G[<<n, g[n - 1]>>]
    <3>1. n \in 0..k /\ n - 1 \in 0..k /\ n - 1 # k
      BY <2>2
    <3>2. g[n - 1] = f[n - 1]
      BY <3>1
    <3>3. CASE n = k
      BY <3>1, <3>2, <3>3
    <3>4. CASE n # k
      <4>1. n \in 1..(k - 1) /\ g[n] = f[n]
        BY <3>1, <3>4, <2>2
      <4> QED BY <4>1, <3>2, <2>1
    <3> QED BY <3>3, <3>4
  <2> HIDE DEF g
  <2> QED BY <2>6, <2>7, <2>8
<1> HIDE DEF Defined
<1>3. Defined(N)
  <2> DEFINE T == {k \in 0..N : ~Defined(k)}
  <2>1. ASSUME T # {} PROVE FALSE
    <3>1. T \in SUBSET Nat
      OBVIOUS
    <3>2. PICK least \in T : \A k \in T : least <= k
      BY <2>1, <3>1, LeastNatural
    <3>3. least # 0 /\ least \in 0..N /\ ~Defined(least)
      BY <1>1, <3>2
    <3>4. least - 1 \in 0..N /\ least \in 1..N /\ ~(least <= least - 1)
      BY <3>3
    <3>5. Defined(least - 1)
      BY <3>2, <3>4
    <3> QED BY <3>3, <3>4, <3>5, <1>2
  <2> QED BY <2>1
<1> QED
  BY <1>3 DEF Defined, GoesOn

\* There is only one: two functions that start and go on alike are alike.
LEMMA RecursionUnique ==
  ASSUME NEW N \in Nat, NEW f, NEW g, Alike(f, g, N)
  PROVE  \A n \in 0..N : f[n] = g[n]
<1> DEFINE T == {n \in 0..N : f[n] # g[n]}
<1>1. ASSUME T # {} PROVE FALSE
  <2>1. T \in SUBSET Nat
    OBVIOUS
  <2>2. PICK least \in T : \A n \in T : least <= n
    BY <1>1, <2>1, LeastNatural
  <2>3. least # 0 /\ least \in 0..N /\ f[least] # g[least]
    BY <2>2 DEF Alike
  <2>4. least - 1 \in 0..N /\ least \in 1..N /\ ~(least <= least - 1)
    BY <2>3
  <2>5. f[least - 1] = g[least - 1]
    BY <2>2, <2>4
  <2> QED BY <2>3, <2>4, <2>5 DEF Alike
<1> QED
  BY <1>1
-----------------------------------------------------------------------------
(***************************************************************************)
(* Arrays.                                                                 *)
(***************************************************************************)
\* array_index_of finds the first occurrence when there is one.
LEMMA IndexOfFirst ==
  ASSUME NEW S, NEW array \in Seq(S), NEW element, ArrayContains(array, element)
  PROVE  /\ ArrayIndexOf(array, element) \in 1..Len(array)
         /\ array[ArrayIndexOf(array, element)] = element
         /\ \A m \in 1..(ArrayIndexOf(array, element) - 1) : array[m] # element
<1> DEFINE Places == {n \in 1..Len(array) : array[n] = element}
<1>1. DOMAIN array = 1..Len(array)
  OBVIOUS
<1>2. Places # {} /\ Places \in SUBSET Nat
  BY <1>1 DEF ArrayContains, Elements
<1>3. PICK p \in Places : \A n \in Places : p <= n
  BY <1>2, LeastNatural
<1>4. /\ p \in DOMAIN array /\ array[p] = element
      /\ \A m \in 1..(p - 1) : array[m] # element
  BY <1>1, <1>3
<1> DEFINE First(n) == /\ array[n] = element
                       /\ \A m \in 1..(n - 1) : array[m] # element
<1>5. \E n \in DOMAIN array : First(n)
  BY <1>4
<1>6. ArrayIndexOf(array, element) = CHOOSE n \in DOMAIN array : First(n)
  BY DEF ArrayIndexOf
<1>7. /\ ArrayIndexOf(array, element) \in DOMAIN array
      /\ First(ArrayIndexOf(array, element))
  <2> HIDE DEF First
  <2> QED BY <1>5, <1>6
<1> QED
  BY <1>1, <1>7

\* array_delete returns an array over the same set, with no new element.
LEMMA DeleteShrinks ==
  ASSUME NEW S, NEW array \in Seq(S), NEW element
  PROVE  /\ ArrayDelete(array, element) \in Seq(S)
         /\ Elements(ArrayDelete(array, element)) \subseteq Elements(array)
<1>1. CASE ~ArrayContains(array, element)
  BY <1>1 DEF ArrayDelete
<1>2. CASE ArrayContains(array, element)
  <2> DEFINE p == ArrayIndexOf(array, element)
             rest == ArrayRemoveAt(array, p)
  <2>1. p \in 1..Len(array)
    BY <1>2, IndexOfFirst
  <2> HIDE DEF p
  <2>2. Len(array) - 1 \in Nat /\ Len(array) \in Nat
    BY <2>1
  <2>3. \A n \in 1..(Len(array) - 1) : rest[n] = IF n < p THEN array[n] ELSE array[n + 1]
    BY DEF ArrayRemoveAt
  <2>4. \A n \in 1..(Len(array) - 1) : rest[n] \in S /\ rest[n] \in Elements(array)
    BY <2>2, <2>3 DEF Elements
  <2>5. rest = [n \in 1..(Len(array) - 1) |-> rest[n]]
    BY DEF ArrayRemoveAt
  <2> HIDE DEF rest
  <2>6. rest \in Seq(S) /\ DOMAIN rest = 1..(Len(array) - 1)
    BY <2>2, <2>4, <2>5
  <2>7. Elements(rest) \subseteq Elements(array)
    BY <2>4, <2>6 DEF Elements
  <2>8. ArrayDelete(array, element) = rest
    BY <1>2 DEF ArrayDelete, rest, p
  <2> QED
    BY <2>6, <2>7, <2>8
<1> QED
  BY <1>1, <1>2

\* array_append adds exactly its element.
LEMMA AppendAdds ==
  ASSUME NEW S, NEW array \in Seq(S), NEW element \in S
  PROVE  /\ ArrayAppend(array, element) \in Seq(S)
         /\ Elements(ArrayAppend(array, element)) = Elements(array) \cup {element}
<1>1. /\ Append(array, element) \in Seq(S)
      /\ Len(Append(array, element)) = Len(array) + 1
      /\ Append(array, element)[Len(array) + 1] = element
      /\ \A n \in 1..Len(array) : Append(array, element)[n] = array[n]
  OBVIOUS
<1>2. DOMAIN Append(array, element) = 1..(Len(array) + 1) /\ DOMAIN array = 1..Len(array)
  BY <1>1
<1>3. Len(array) \in Nat
  OBVIOUS
<1>4. 1..(Len(array) + 1) = 1..Len(array) \cup {Len(array) + 1}
  BY <1>3
<1> QED
  BY <1>1, <1>2, <1>4 DEF ArrayAppend, Elements

\* array_delete on an array without duplicates removes exactly its element.
LEMMA DeleteRemoves ==
  ASSUME NEW S, NEW array \in Seq(S), NEW element, Distinct(array)
  PROVE  /\ Distinct(ArrayDelete(array, element))
         /\ Elements(ArrayDelete(array, element)) = Elements(array) \ {element}
<1>1. CASE ~ArrayContains(array, element)
  BY <1>1 DEF ArrayDelete, ArrayContains
<1>2. CASE ArrayContains(array, element)
  <2> DEFINE p == ArrayIndexOf(array, element)
             rest == ArrayRemoveAt(array, p)
             last == Len(array)
  <2>1. p \in 1..Len(array) /\ array[p] = element
    BY <1>2, IndexOfFirst
  <2>2. rest = [n \in 1..(last - 1) |-> IF n < p THEN array[n] ELSE array[n + 1]]
    BY DEF ArrayRemoveAt
  <2>3. ArrayDelete(array, element) = rest
    BY <1>2 DEF ArrayDelete
  <2>4. DOMAIN array = 1..last /\ last \in Nat
    OBVIOUS
  <2> HIDE DEF p, rest, last
  <2>5. last - 1 \in Nat
    BY <2>1, <2>4 DEF last
  <2>6. \A m, n \in 1..last : array[m] = array[n] => m = n
    BY <2>4 DEF Distinct
  <2>7. /\ DOMAIN rest = 1..(last - 1)
        /\ \A n \in 1..(last - 1) : n < p => rest[n] = array[n]
        /\ \A n \in 1..(last - 1) : ~(n < p) => rest[n] = array[n + 1]
    BY <2>2
  <2>8. Distinct(rest)
    <3> SUFFICES ASSUME NEW m \in 1..(last - 1), NEW n \in 1..(last - 1), rest[m] = rest[n]
                 PROVE  m = n
      BY <2>7 DEF Distinct
    <3>1. /\ m \in Nat /\ n \in Nat /\ m \in 1..last /\ n \in 1..last
          /\ m + 1 \in 1..last /\ n + 1 \in 1..last /\ p \in Nat
      BY <2>1, <2>5, <2>4 DEF last
    <3>2. CASE m < p /\ n < p
      BY <2>6, <2>7, <3>1, <3>2
    <3>3. CASE ~(m < p) /\ n < p
      <4>1. array[m + 1] = array[n]
        BY <2>7, <3>3
      <4>2. m + 1 = n
        BY <4>1, <2>6, <3>1
      <4> QED BY <4>2, <3>1, <3>3
    <3>4. CASE m < p /\ ~(n < p)
      <4>1. array[n + 1] = array[m]
        BY <2>7, <3>4
      <4>2. n + 1 = m
        BY <4>1, <2>6, <3>1
      <4> QED BY <4>2, <3>1, <3>4
    <3>5. CASE ~(m < p) /\ ~(n < p)
      <4>1. array[n + 1] = array[m + 1]
        BY <2>7, <3>5
      <4>2. n + 1 = m + 1
        BY <4>1, <2>6, <3>1
      <4> QED BY <4>2, <3>1
    <3> QED BY <3>2, <3>3, <3>4, <3>5
  <2>9. Elements(rest) \subseteq Elements(array) \ {element}
    <3> SUFFICES ASSUME NEW n \in 1..(last - 1)
                 PROVE  rest[n] \in Elements(array) /\ rest[n] # element
      BY <2>7 DEF Elements
    <3>1. n \in Nat /\ n \in 1..last /\ n + 1 \in 1..last /\ p \in Nat /\ p \in 1..last
      BY <2>1, <2>4, <2>5 DEF last
    <3>2. CASE n < p
      BY <2>1, <2>4, <2>6, <2>7, <3>1, <3>2 DEF Elements
    <3>3. CASE ~(n < p)
      <4>1. rest[n] = array[n + 1] /\ n + 1 # p
        BY <2>7, <3>1, <3>3
      <4> QED BY <4>1, <2>1, <2>4, <2>6, <3>1 DEF Elements
    <3> QED BY <3>2, <3>3
  <2>10. Elements(array) \ {element} \subseteq Elements(rest)
    <3> SUFFICES ASSUME NEW n \in 1..last, array[n] # element
                 PROVE  array[n] \in Elements(rest)
      BY <2>4 DEF Elements
    <3>1. n \in Nat /\ p \in Nat /\ p \in 1..last /\ n # p
      BY <2>1, <2>4 DEF last
    <3>2. CASE n < p
      <4>1. n \in 1..(last - 1)
        BY <3>1, <3>2, <2>4
      <4> QED BY <4>1, <3>2, <2>7 DEF Elements
    <3>3. CASE ~(n < p)
      <4>1. n - 1 \in 1..(last - 1) /\ ~(n - 1 < p) /\ (n - 1) + 1 = n
        BY <3>1, <3>3, <2>4
      <4>2. rest[n - 1] = array[(n - 1) + 1]
        BY <4>1, <2>7
      <4> QED BY <4>1, <4>2, <2>7 DEF Elements
    <3> QED BY <3>2, <3>3
  <2> QED
    BY <2>3, <2>8, <2>9, <2>10
<1> QED
  BY <1>1, <1>2

\* array_delete moves no element up, and down by at most one position.
LEMMA DeleteMoves ==
  ASSUME NEW S, NEW array \in Seq(S), NEW element,
         NEW n \in DOMAIN ArrayDelete(array, element)
  PROVE  \E m \in DOMAIN array : /\ m = n \/ m = n + 1
                                 /\ ArrayDelete(array, element)[n] = array[m]
<1>1. CASE ~ArrayContains(array, element)
  BY <1>1 DEF ArrayDelete
<1>2. CASE ArrayContains(array, element)
  <2> DEFINE p == ArrayIndexOf(array, element)
             rest == ArrayRemoveAt(array, p)
  <2>1. ArrayDelete(array, element) = rest
    BY <1>2 DEF ArrayDelete
  <2>2. p \in 1..Len(array) /\ Len(array) \in Nat /\ DOMAIN array = 1..Len(array)
    BY <1>2, IndexOfFirst
  <2>3. /\ DOMAIN rest = 1..(Len(array) - 1)
        /\ n \in DOMAIN rest
        /\ rest[n] = IF n < p THEN array[n] ELSE array[n + 1]
    BY <2>1 DEF ArrayRemoveAt
  <2> HIDE DEF p, rest
  <2>4. n \in DOMAIN array /\ n + 1 \in DOMAIN array
    BY <2>2, <2>3
  <2> QED
    BY <2>1, <2>3, <2>4
<1> QED
  BY <1>1, <1>2

\* array_append keeps an array without duplicates when its element is new.
LEMMA AppendDistinct ==
  ASSUME NEW S, NEW array \in Seq(S), NEW element \in S,
         Distinct(array), element \notin Elements(array)
  PROVE  Distinct(ArrayAppend(array, element))
<1> DEFINE longer == Append(array, element)
<1>1. /\ DOMAIN longer = 1..(Len(array) + 1) /\ Len(array) \in Nat
      /\ longer[Len(array) + 1] = element
      /\ \A n \in 1..Len(array) : longer[n] = array[n]
      /\ DOMAIN array = 1..Len(array)
  OBVIOUS
<1>2. \A n \in 1..Len(array) : longer[n] # element
  BY <1>1 DEF Elements
<1>3. \A n \in 1..(Len(array) + 1) : n \in 1..Len(array) \/ n = Len(array) + 1
  BY <1>1
<1> HIDE DEF longer
<1>4. \A m, n \in DOMAIN longer : longer[m] = longer[n] => m = n
  BY <1>1, <1>2, <1>3 DEF Distinct
<1> QED
  BY <1>4 DEF Distinct, ArrayAppend, longer

\* array_delete takes back an array_append of a new element.
LEMMA DeleteLast ==
  ASSUME NEW S, NEW array \in Seq(S), NEW element \in S, element \notin Elements(array)
  PROVE  ArrayDelete(ArrayAppend(array, element), element) = array
<1> DEFINE longer == Append(array, element)
           p == ArrayIndexOf(longer, element)
<1>1. /\ longer \in Seq(S) /\ Len(array) \in Nat /\ Len(longer) = Len(array) + 1
      /\ longer[Len(array) + 1] = element
      /\ \A n \in 1..Len(array) : longer[n] = array[n]
      /\ DOMAIN array = 1..Len(array) /\ DOMAIN longer = 1..(Len(array) + 1)
  OBVIOUS
<1> HIDE DEF longer
<1>2. ArrayContains(longer, element)
  BY <1>1 DEF ArrayContains, Elements
<1>3. p \in 1..(Len(array) + 1) /\ longer[p] = element
  BY <1>1, <1>2, IndexOfFirst
<1>4. \A n \in 1..Len(array) : longer[n] # element
  BY <1>1 DEF Elements
<1> HIDE DEF p
<1>5. p = Len(array) + 1
  BY <1>1, <1>3, <1>4
<1>6. ArrayRemoveAt(longer, p) = [n \in 1..Len(array) |-> array[n]]
  <2>1. Len(longer) - 1 = Len(array)
    BY <1>1
  <2>2. \A n \in 1..Len(array) : (IF n < p THEN longer[n] ELSE longer[n + 1]) = array[n]
    BY <1>1, <1>5
  <2> QED BY <2>1, <2>2 DEF ArrayRemoveAt
<1>7. array = [n \in 1..Len(array) |-> array[n]]
  BY <1>1
<1> QED
  BY <1>2, <1>6, <1>7 DEF ArrayDelete, ArrayAppend, longer, p
-----------------------------------------------------------------------------
(***************************************************************************)
(* Scales.                                                                 *)
(***************************************************************************)
Diatonic == {Ionian, HarmonicMinor, MelodicMinor}

\* The upper notes of the four types that the tables use.
LEMMA UpperNotes ==
  /\ Upper("MAJ") = {4, 7} /\ Upper("MIN") = {3, 7}
  /\ Upper("DIM") = {3, 6} /\ Upper("AUG") = {4, 8}
BY DEF Upper

\* Every chord of the tables is a triad of notes of its scale.
THEOREM BasicTriads == \A scale \in Diatonic : TriadsOfScale(scale)
<1>1. TriadsOfScale(Ionian)
  BY UpperNotes DEF TriadsOfScale, Ionian, DefaultChord
<1>2. TriadsOfScale(HarmonicMinor)
  BY UpperNotes DEF TriadsOfScale, HarmonicMinor, DefaultChord
<1>3. TriadsOfScale(MelodicMinor)
  BY UpperNotes DEF TriadsOfScale, MelodicMinor, DefaultChord
<1> QED
  BY <1>1, <1>2, <1>3 DEF Diatonic

\* The roots of the chords lie within the octave of the scale, and no upper note is
\* more than eight semitones above its root.
LEMMA Degrees ==
  ASSUME NEW scale \in Diatonic, NEW i \in DOMAIN scale.chords
  PROVE  /\ scale.chords[i].above \in 0..11
         /\ Upper(scale.chords[i].type) \subseteq 3..8
         /\ \A n \in Upper(scale.chords[i].type) : scale.chords[i].above + n <= 17
<1>1. CASE scale = Ionian
  BY <1>1, UpperNotes DEF Ionian, DefaultChord
<1>2. CASE scale = HarmonicMinor
  BY <1>2, UpperNotes DEF HarmonicMinor, DefaultChord
<1>3. CASE scale = MelodicMinor
  BY <1>3, UpperNotes DEF MelodicMinor, DefaultChord
<1> QED
  BY <1>1, <1>2, <1>3 DEF Diatonic

\* With a root up to F# every chord of these scales lies inside its array: none of
\* its notes reaches the inversion.  Nothing in the code keeps to such a root.
THEOREM ChordsFit ==
  ASSUME NEW scale \in Diatonic, NEW root \in 0..6,
         NEW i \in DOMAIN MusicalScale(scale, root).default_chords
  PROVE  MusicalScale(scale, root).default_chords[i].inversion = {}
<1> DEFINE above == scale.chords[i].above
           type == scale.chords[i].type
           written == {root + above, 12 + (root + above)} \cup {12 + (root + above) + n : n \in Upper(type)}
<1>1. i \in DOMAIN scale.chords
  BY DEF MusicalScale
<1>2. /\ above \in 0..11 /\ Upper(type) \subseteq 3..8
      /\ \A n \in Upper(type) : above + n <= 17
  BY <1>1, Degrees
<1>3. \A n \in written : n < 36
  BY <1>2
<1>4. written \subseteq Nat
  BY <1>2
<1>5. MusicalScale(scale, root).default_chords[i] = chord_new(root + above, root + above, type)
  BY <1>1 DEF MusicalScale
<1> HIDE DEF above, type
<1>6. chord_new(root + above, root + above, type).inversion = {n - 36 : n \in {k \in written : k >= 36}}
  BY DEF chord_new
<1>7. \A k \in written : ~(k >= 36)
  BY <1>3, <1>4
<1>8. {n - 36 : n \in {k \in written : k >= 36}} = {}
  BY <1>7
<1> QED
  BY <1>5, <1>6, <1>8

\* Every note of every default chord, whatever the root, is a note of the scale on
\* that root: above is counted from the root, and an octave changes no note.
THEOREM NotesOfScale ==
  ASSUME NEW scale \in Diatonic, NEW root \in Nat,
         NEW i \in DOMAIN MusicalScale(scale, root).default_chords,
         NEW n \in MusicalScale(scale, root).default_chords[i].notes
  PROVE  scale.notes[((n - root) % 12) + 1] = 1
<1> DEFINE above == scale.chords[i].above
           type == scale.chords[i].type
<1>1. i \in DOMAIN scale.chords
  BY DEF MusicalScale
<1>2. above \in 0..11 /\ Upper(type) \subseteq 3..8
  BY <1>1, Degrees
<1>3. \A k \in {0} \cup Upper(type) : scale.notes[((above + k) % 12) + 1] = 1
  BY <1>1, BasicTriads DEF TriadsOfScale
<1>4. MusicalScale(scale, root).default_chords[i] = chord_new(root + above, root + above, type)
  BY <1>1 DEF MusicalScale
<1> HIDE DEF above, type
<1>5. \/ n = root + above \/ n = 12 + (root + above)
      \/ \E k \in Upper(type) : n = 12 + (root + above) + k
  BY <1>4 DEF chord_new
<1>6. CASE n = root + above
  <2>1. n - root = above + 0
    BY <1>6, <1>2
  <2> QED
    BY <2>1, <1>3
<1>7. CASE n = 12 + (root + above)
  <2>1. (n - root) % 12 = (above + 0) % 12
    BY <1>7, <1>2
  <2> QED
    BY <2>1, <1>3
<1>8. CASE \E k \in Upper(type) : n = 12 + (root + above) + k
  <2>1. PICK k \in Upper(type) : n = 12 + (root + above) + k
    BY <1>8
  <2>2. k \in 3..8
    BY <1>2
  <2>3. (n - root) % 12 = (above + k) % 12
    BY <2>1, <2>2, <1>2
  <2>4. scale.notes[((above + k) % 12) + 1] = 1
    BY <2>1, <1>3
  <2> QED
    BY <2>3, <2>4
<1> QED
  BY <1>5, <1>6, <1>7, <1>8
-----------------------------------------------------------------------------
(***************************************************************************)
(* The map of URIs.                                                        *)
(***************************************************************************)
\* The index lists every id once, in the order of the symbols.
GoodMap(map) ==
  /\ map.symbols \in Seq(Nat) /\ map.index \in Seq(1..SymapSize(map))
  /\ Sorted(map)
  /\ \A id \in 1..SymapSize(map) : \E n \in 1..SymapSize(map) : map.index[n] = id

\* What a search has to tell.
Answers(map, sym, found) ==
  /\ found.at \in 0..SymapSize(map)
  /\ found.exact => found.at < SymapSize(map) /\ SymbolAt(map, found.at) = sym
  /\ ~found.exact => \A n \in 0..(SymapSize(map) - 1) :
                       IF n < found.at THEN SymbolAt(map, n) < sym ELSE SymbolAt(map, n) > sym

\* The parts of an index, how long they are, and what is known when one is searched.
Parts(map) == (0..SymapSize(map)) \X (0..(SymapSize(map) - 1))
Long(part) == part[2] + 1 - part[1]
Outside(map, sym, part) ==
  /\ \A n \in 0..(part[1] - 1) : SymbolAt(map, n) < sym
  /\ \A n \in (part[2] + 1)..(SymapSize(map) - 1) : SymbolAt(map, n) > sym

\* One round of the search.
Round(map, sym, f, part) ==
  LET lo == part[1]
      up == part[2]
      mid == lo + ((up - lo) \div 2)
  IN  IF up < lo THEN [at |-> lo, exact |-> FALSE]
      ELSE IF SymbolAt(map, mid) = sym THEN [at |-> mid, exact |-> TRUE]
      ELSE IF SymbolAt(map, mid) < sym THEN f[<<mid + 1, up>>]
      ELSE IF mid = 0 THEN [at |-> 0, exact |-> FALSE]
      ELSE f[<<lo, mid - 1>>]

\* The middle lies between.
LEMMA Middle ==
  ASSUME NEW lo \in Nat, NEW up \in Nat, ~(up < lo)
  PROVE  lo + ((up - lo) \div 2) \in lo..up
OBVIOUS

\* A round goes on with parts that are shorter.
LEMMA RoundsAlike ==
  ASSUME NEW map, GoodMap(map), NEW sym, NEW part \in Parts(map), NEW f, NEW g,
         \A other \in Parts(map) : Long(other) < Long(part) => f[other] = g[other]
  PROVE  Round(map, sym, f, part) = Round(map, sym, g, part)
<1> DEFINE lo == part[1]
           up == part[2]
           mid == lo + ((up - lo) \div 2)
<1>1. SymapSize(map) \in Nat
  BY DEF GoodMap, SymapSize
<1>2. lo \in 0..SymapSize(map) /\ up \in 0..(SymapSize(map) - 1)
  BY DEF Parts
<1>3. CASE up < lo
  BY <1>3 DEF Round
<1>4. CASE ~(up < lo)
  <2>1. mid \in lo..up
    <3> HIDE DEF lo, up
    <3> QED
      BY <1>1, <1>2, <1>4, Middle
  <2> HIDE DEF lo, up, mid
  <2>2. f[<<mid + 1, up>>] = g[<<mid + 1, up>>]
    <3>1. <<mid + 1, up>> \in Parts(map)
      BY <1>1, <1>2, <2>1 DEF Parts
    <3>2. Long(<<mid + 1, up>>) < Long(part)
      BY <1>1, <1>2, <2>1 DEF Long, lo, up
    <3> QED
      BY <3>1, <3>2
  <2>3. ASSUME mid # 0 PROVE f[<<lo, mid - 1>>] = g[<<lo, mid - 1>>]
    <3>1. <<lo, mid - 1>> \in Parts(map)
      BY <1>1, <1>2, <2>1, <2>3 DEF Parts
    <3>2. Long(<<lo, mid - 1>>) < Long(part)
      BY <1>1, <1>2, <2>1 DEF Long, lo, up
    <3> QED
      BY <3>1, <3>2
  <2> QED
    BY <2>2, <2>3 DEF Round, lo, up, mid
<1> QED
  BY <1>3, <1>4

\* So the search ends.
LEMMA RoundsEnd ==
  ASSUME NEW map, GoodMap(map), SymapSize(map) > 0, NEW sym
  PROVE  \E f : f = [part \in Parts(map) |-> Round(map, sym, f, part)]
<1> DEFINE Upto(k) == \E f : /\ f = [part \in Parts(map) |-> f[part]]
                             /\ \A part \in Parts(map) :
                                  Long(part) <= k => f[part] = Round(map, sym, f, part)
           size == SymapSize(map)
<1>1. size \in Nat
  BY DEF GoodMap, SymapSize
<1>2. \A part \in Parts(map) : Long(part) \in Int /\ Long(part) <= size
  BY <1>1 DEF Parts, Long
<1>3. Upto(0)
  <2> DEFINE f == [part \in Parts(map) |-> [at |-> part[1], exact |-> FALSE]]
  <2>1. ASSUME NEW part \in Parts(map), Long(part) <= 0
        PROVE  f[part] = Round(map, sym, f, part)
    <3>1. part[2] < part[1]
      BY <1>1, <2>1 DEF Long, Parts
    <3> QED
      BY <3>1 DEF Round
  <2>2. f = [part \in Parts(map) |-> f[part]]
    OBVIOUS
  <2> HIDE DEF f
  <2> QED
    BY <2>1, <2>2
<1>4. ASSUME NEW k \in 1..size, Upto(k - 1)
      PROVE  Upto(k)
  <2>1. PICK f : /\ f = [part \in Parts(map) |-> f[part]]
                 /\ \A part \in Parts(map) :
                      Long(part) <= k - 1 => f[part] = Round(map, sym, f, part)
    BY <1>4
  <2> DEFINE g == [part \in Parts(map) |-> IF Long(part) <= k - 1 THEN f[part]
                                           ELSE Round(map, sym, f, part)]
  <2>2. \A part \in Parts(map) : Long(part) <= k - 1 => g[part] = f[part]
    OBVIOUS
  <2>3. ASSUME NEW part \in Parts(map), Long(part) <= k
        PROVE  g[part] = Round(map, sym, g, part)
    <3>1. g[part] = Round(map, sym, f, part)
      BY <2>1
    <3>2. \A other \in Parts(map) : Long(other) < Long(part) => f[other] = g[other]
      <4>1. \A other \in Parts(map) : Long(other) < Long(part) => Long(other) <= k - 1
        BY <1>1, <1>2, <2>3
      <4> HIDE DEF g
      <4> QED
        BY <2>2, <4>1
    <3> HIDE DEF g
    <3> QED
      BY <3>1, <3>2, RoundsAlike
  <2>4. g = [part \in Parts(map) |-> g[part]]
    OBVIOUS
  <2> HIDE DEF g
  <2> QED
    BY <2>3, <2>4
<1> HIDE DEF Upto
<1>5. Upto(size)
  <2> DEFINE T == {k \in 0..size : ~Upto(k)}
  <2>1. ASSUME T # {} PROVE FALSE
    <3>1. T \in SUBSET Nat
      OBVIOUS
    <3>2. PICK least \in T : \A k \in T : least <= k
      BY <2>1, <3>1, LeastNatural
    <3>3. least # 0 /\ least \in 0..size /\ ~Upto(least)
      BY <1>3, <3>2
    <3> HIDE DEF size
    <3>4. least - 1 \in 0..size /\ least \in 1..size /\ ~(least <= least - 1)
      BY <1>1, <3>3
    <3>5. Upto(least - 1)
      BY <3>2, <3>4
    <3> QED
      BY <1>4, <3>3, <3>4, <3>5
  <2> QED
    BY <1>1, <2>1
<1>6. PICK f : /\ f = [part \in Parts(map) |-> f[part]]
               /\ \A part \in Parts(map) :
                    Long(part) <= size => f[part] = Round(map, sym, f, part)
  BY <1>5 DEF Upto
<1>7. f = [part \in Parts(map) |-> Round(map, sym, f, part)]
  BY <1>2, <1>6
<1> QED
  BY <1>7

\* The symbols of an index are in order.
LEMMA IndexInOrder ==
  ASSUME NEW map, GoodMap(map), NEW m \in 0..(SymapSize(map) - 1),
         NEW n \in 0..(SymapSize(map) - 1)
  PROVE  /\ SymbolAt(map, m) \in Nat
         /\ m < n => SymbolAt(map, m) < SymbolAt(map, n)
<1>1. SymapSize(map) \in Nat /\ Len(map.index) = SymapSize(map)
  BY DEF GoodMap, Sorted, SymapSize
<1>2. m + 1 \in 1..SymapSize(map) /\ n + 1 \in 1..SymapSize(map)
  BY <1>1
<1>3. map.index[m + 1] \in 1..SymapSize(map)
  <2> DEFINE index == map.index
             size == SymapSize(map)
  <2>1. index \in Seq(1..size) /\ Len(index) = size
    BY <1>1 DEF GoodMap
  <2> HIDE DEF index, size
  <2>2. \A n0 \in 1..size : index[n0] \in 1..size
    BY <2>1
  <2> QED
    BY <1>2, <2>2 DEF index, size
<1>4. SymbolAt(map, m) \in Nat
  <2> DEFINE symbols == map.symbols
  <2>1. symbols \in Seq(Nat)
    BY DEF GoodMap
  <2>2. map.index[m + 1] \in 1..Len(symbols)
    BY <1>3 DEF SymapSize
  <2> HIDE DEF symbols
  <2>3. symbols[map.index[m + 1]] \in Nat
    BY <2>1, <2>2
  <2> QED
    BY <2>3 DEF SymbolAt, symbols
<1>5. ASSUME m < n PROVE SymbolAt(map, m) < SymbolAt(map, n)
  BY <1>2, <1>5 DEF GoodMap, Sorted, SymbolAt
<1> QED
  BY <1>4, <1>5

\* What every part answers, whatever the length of the part.
LEMMA RoundsAnswer ==
  ASSUME NEW map, GoodMap(map), SymapSize(map) > 0, NEW sym \in Nat, NEW f,
         \A part \in Parts(map) : f[part] = Round(map, sym, f, part),
         NEW start \in Parts(map), Outside(map, sym, start)
  PROVE  Answers(map, sym, f[start])
<1> DEFINE size == SymapSize(map)
           Right(part) == Outside(map, sym, part) => Answers(map, sym, f[part])
           Wrong == {part \in Parts(map) : ~Right(part)}
<1>1. size \in Nat
  BY DEF GoodMap, SymapSize
<1>2. \A part \in Parts(map) : Long(part) \in Int
  BY <1>1 DEF Parts, Long
<1>3. ASSUME NEW part \in Parts(map),
             \A other \in Parts(map) : Long(other) < Long(part) => Right(other)
      PROVE  Right(part)
  <2> DEFINE lo == part[1]
             up == part[2]
             mid == lo + ((up - lo) \div 2)
  <2>1. lo \in 0..size /\ up \in 0..(size - 1)
    BY DEF Parts
  <2>2. SUFFICES ASSUME Outside(map, sym, part) PROVE Answers(map, sym, f[part])
    OBVIOUS
  <2>3. f[part] = Round(map, sym, f, part)
    OBVIOUS
  <2>4. CASE up < lo
    <3>1. f[part] = [at |-> lo, exact |-> FALSE]
      BY <2>3, <2>4 DEF Round
    <3>2. ASSUME NEW n \in 0..(size - 1)
          PROVE  IF n < lo THEN SymbolAt(map, n) < sym ELSE SymbolAt(map, n) > sym
      BY <1>1, <2>1, <2>2, <2>4 DEF Outside
    <3> QED
      BY <2>1, <3>1, <3>2 DEF Answers
  <2>5. CASE ~(up < lo)
    <3>1. mid \in lo..up
      <4> HIDE DEF lo, up
      <4> QED
        BY <1>1, <2>1, <2>5, Middle
    <3>2. f[part] = IF SymbolAt(map, mid) = sym THEN [at |-> mid, exact |-> TRUE]
                    ELSE IF SymbolAt(map, mid) < sym THEN f[<<mid + 1, up>>]
                    ELSE IF mid = 0 THEN [at |-> 0, exact |-> FALSE]
                    ELSE f[<<lo, mid - 1>>]
      BY <2>3, <2>5 DEF Round
    <3>3. mid \in 0..(size - 1)
      <4> HIDE DEF lo, up, mid, size
      <4> QED
        BY <1>1, <2>1, <3>1
    <3>4. SymbolAt(map, mid) \in Nat
      BY <3>3, IndexInOrder
    <3>5. CASE SymbolAt(map, mid) = sym
      <4>1. f[part] = [at |-> mid, exact |-> TRUE]
        BY <3>2, <3>5
      <4> HIDE DEF mid
      <4> QED
        BY <1>1, <3>3, <3>5, <4>1 DEF Answers
    <3>6. CASE SymbolAt(map, mid) < sym
      <4> DEFINE rest == <<mid + 1, up>>
      <4> HIDE DEF lo, mid, size
      <4>1. f[part] = f[rest]
        BY <3>2, <3>4, <3>6
      <4>2. rest \in Parts(map)
        BY <1>1, <2>1, <3>1, <3>3 DEF Parts, size
      <4>3. Long(rest) < Long(part)
        <5>1. Long(rest) = up + 1 - (mid + 1) /\ Long(part) = up + 1 - lo
          BY DEF Long, lo
        <5> HIDE DEF up
        <5> QED
          BY <1>1, <2>1, <3>1, <5>1
      <4>4. Outside(map, sym, rest)
        <5>1. rest[1] = mid + 1 /\ rest[2] = part[2] /\ mid + 1 - 1 = mid
          BY <3>3
        <5>2. ASSUME NEW n \in 0..mid PROVE SymbolAt(map, n) < sym
          <6>1. n \in 0..(size - 1) /\ (n < mid \/ n = mid)
            BY <1>1, <3>3
          <6> QED
            BY <3>3, <3>4, <3>6, <6>1, IndexInOrder DEF size
        <5>3. \A n \in (part[2] + 1)..(SymapSize(map) - 1) : SymbolAt(map, n) > sym
          BY <2>2 DEF Outside
        <5>4. \A n \in 0..(rest[1] - 1) : SymbolAt(map, n) < sym
          BY <3>3, <5>1, <5>2
        <5>5. \A n \in (rest[2] + 1)..(SymapSize(map) - 1) : SymbolAt(map, n) > sym
          BY <5>1, <5>3
        <5> HIDE DEF rest
        <5> QED
          BY <5>4, <5>5 DEF Outside
      <4> HIDE DEF rest
      <4> QED
        BY <1>3, <4>1, <4>2, <4>3, <4>4
    <3>7. CASE ~(SymbolAt(map, mid) = sym) /\ ~(SymbolAt(map, mid) < sym)
      <4> HIDE DEF lo, up, mid, size
      <4>1. SymbolAt(map, mid) > sym
        BY <3>4, <3>7
      <4>2. \A n \in mid..(size - 1) : SymbolAt(map, n) > sym
        <5> TAKE n \in mid..(size - 1)
        <5>1. n \in 0..(size - 1) /\ (mid < n \/ n = mid)
          BY <1>1, <3>3
        <5> QED
          BY <3>3, <3>4, <4>1, <5>1, IndexInOrder DEF size
      <4>3. CASE mid = 0
        <5>1. f[part] = [at |-> 0, exact |-> FALSE]
          BY <3>2, <3>7, <4>3
        <5> QED
          BY <1>1, <4>2, <4>3, <5>1 DEF Answers, size
      <4>4. CASE mid # 0
        <5> DEFINE rest == <<lo, mid - 1>>
        <5>1. f[part] = f[rest]
          BY <3>2, <3>7, <4>4
        <5>2. rest \in Parts(map)
          BY <1>1, <2>1, <3>1, <3>3, <4>4 DEF Parts, size
        <5>3. Long(rest) < Long(part)
          <6>1. Long(rest) = mid - 1 + 1 - lo /\ Long(part) = up + 1 - lo
            BY DEF Long, lo, up
          <6> QED
            BY <1>1, <2>1, <3>1, <6>1
        <5>4. Outside(map, sym, rest)
          <6>1. rest[1] = part[1] /\ rest[2] = mid - 1
            BY DEF lo
          <6>2. mid - 1 + 1 = mid
            BY <3>3
          <6> QED
            BY <2>2, <4>2, <6>1, <6>2 DEF Outside, size
        <5> HIDE DEF rest
        <5> QED
          BY <1>3, <5>1, <5>2, <5>3, <5>4
      <4> QED
        BY <4>3, <4>4
    <3> QED
      BY <3>5, <3>6, <3>7
  <2> QED
    BY <2>4, <2>5
<1> HIDE DEF Right
<1>4. \A part \in Parts(map) : Long(part) + size \in Nat
  BY <1>1 DEF Parts, Long
<1>5. ASSUME Wrong # {} PROVE FALSE
  <2> DEFINE T == {Long(part) + size : part \in Wrong}
  <2>1. T \in SUBSET Nat /\ T # {}
    BY <1>4, <1>5
  <2>2. PICK least \in T : \A k \in T : least <= k
    <3> HIDE DEF T
    <3> QED
      BY <2>1, LeastNatural
  <2>3. PICK part \in Wrong : least = Long(part) + size
    BY <2>2
  <2>4. ASSUME NEW other \in Parts(map), Long(other) < Long(part)
        PROVE  Right(other)
    <3>1. ~(least <= Long(other) + size)
      <4> HIDE DEF size
      <4> QED
        BY <1>1, <1>2, <2>3, <2>4
    <3>2. Long(other) + size \notin T
      BY <2>2, <3>1
    <3> QED
      BY <3>2
  <2> QED
    BY <1>3, <2>3, <2>4
<1>6. Right(start)
  BY <1>5
<1> QED
  BY <1>6 DEF Right

\* symap_search answers what it has to.
LEMMA SearchAnswers ==
  ASSUME NEW map, GoodMap(map), NEW sym \in Nat
  PROVE  Answers(map, sym, symap_search(map, sym))
<1> DEFINE size == SymapSize(map)
           last == size - 1
           found == symap_search(map, sym)
<1>1. size \in Nat
  BY DEF GoodMap, SymapSize
<1>2. CASE size = 0
  <2>1. found = [at |-> 0, exact |-> FALSE]
    BY <1>2 DEF symap_search
  <2> HIDE DEF found
  <2>2. Answers(map, sym, found)
    BY <1>2, <2>1 DEF Answers
  <2> QED
    BY <2>2 DEF found
<1>3. CASE size > 0 /\ SymbolAt(map, last) < sym
  <2>1. found = [at |-> size, exact |-> FALSE]
    BY <1>3 DEF symap_search
  <2>2. ASSUME NEW n \in 0..(size - 1)
        PROVE  SymbolAt(map, n) < sym
    <3>1. last \in 0..(size - 1) /\ (n < last \/ n = last)
      BY <1>1, <1>3
    <3> QED
      BY <1>3, <3>1, IndexInOrder
  <2> HIDE DEF found
  <2>3. Answers(map, sym, found)
    BY <1>1, <2>1, <2>2 DEF Answers
  <2> QED
    BY <2>3 DEF found
<1>4. CASE size > 0 /\ ~(SymbolAt(map, last) < sym)
  <2> DEFINE Half == CHOOSE f : f = [part \in Parts(map) |-> Round(map, sym, f, part)]
             all == <<0, last>>
  <2>1. found = Half[all]
    BY <1>4 DEF symap_search, Round, Parts
  <2>2. Half = [part \in Parts(map) |-> Round(map, sym, Half, part)]
    BY <1>4, RoundsEnd
  <2> HIDE DEF Half
  <2>3. \A part \in Parts(map) : Half[part] = Round(map, sym, Half, part)
    BY <2>2
  <2>4. all \in Parts(map)
    BY <1>1, <1>4 DEF Parts
  <2>5. Outside(map, sym, all)
    <3>1. 0..(all[1] - 1) = {} /\ (all[2] + 1)..(size - 1) = {}
      BY <1>1
    <3> QED
      BY <3>1 DEF Outside
  <2> HIDE DEF all
  <2>6. Answers(map, sym, Half[all])
    BY <1>4, <2>3, <2>4, <2>5, RoundsAnswer
  <2> QED
    BY <2>1, <2>6
<1> QED
  BY <1>1, <1>2, <1>3, <1>4

\* A symbol that was mapped is found under its id.
LEMMA FoundAgain ==
  ASSUME NEW map, GoodMap(map), NEW id \in 1..SymapSize(map)
  PROVE  symap_map(map, map.symbols[id]) = [map |-> map, id |-> id]
<1> DEFINE sym == map.symbols[id]
           found == symap_search(map, sym)
<1>1. SymapSize(map) \in Nat /\ sym \in Nat
  <2> DEFINE symbols == map.symbols
  <2>1. symbols \in Seq(Nat) /\ id \in 1..Len(symbols)
    BY DEF GoodMap, SymapSize
  <2> HIDE DEF symbols
  <2>2. Len(symbols) \in Nat /\ symbols[id] \in Nat
    BY <2>1
  <2> QED
    BY <2>2 DEF symbols, SymapSize
<1>2. Answers(map, sym, found)
  BY <1>1, SearchAnswers
<1>3. PICK n \in 1..SymapSize(map) : map.index[n] = id
  BY DEF GoodMap
<1>4. n - 1 \in 0..(SymapSize(map) - 1) /\ SymbolAt(map, n - 1) = sym
  BY <1>1, <1>3 DEF SymbolAt
<1> HIDE DEF found, sym
<1>5. found.exact
  <2>1. ASSUME ~found.exact PROVE FALSE
    <3>1. IF n - 1 < found.at THEN SymbolAt(map, n - 1) < sym ELSE SymbolAt(map, n - 1) > sym
      BY <1>2, <1>4, <2>1 DEF Answers
    <3> QED
      BY <1>1, <1>4, <3>1
  <2> QED
    BY <2>1
<1>6. found.at \in 0..(SymapSize(map) - 1) /\ SymbolAt(map, found.at) = sym
  BY <1>1, <1>2, <1>5 DEF Answers
<1>7. found.at = n - 1
  <2>1. ~(found.at < n - 1)
    BY <1>1, <1>4, <1>6, IndexInOrder
  <2>2. ~(n - 1 < found.at)
    BY <1>1, <1>4, <1>6, IndexInOrder
  <2> QED
    BY <1>1, <1>4, <1>6, <2>1, <2>2
<1>8. map.index[found.at + 1] = id
  BY <1>3, <1>7
<1> QED
  BY <1>5, <1>8 DEF symap_map, found, sym

\* The index that has made room is the old one around the new id.
LEMMA Inserted ==
  ASSUME NEW size \in Nat, NEW index \in Seq(1..size), Len(index) = size,
         NEW at \in 0..size
  PROVE  /\ InsertedAt(index, at, size + 1) \in Seq(1..(size + 1))
         /\ Len(InsertedAt(index, at, size + 1)) = size + 1
         /\ \A n \in 1..at : InsertedAt(index, at, size + 1)[n] = index[n]
         /\ InsertedAt(index, at, size + 1)[at + 1] = size + 1
         /\ \A n \in (at + 2)..(size + 1) : InsertedAt(index, at, size + 1)[n] = index[n - 1]
<1> DEFINE new == InsertedAt(index, at, size + 1)
<1>1. new = [n \in 1..(size + 1) |-> IF n <= at THEN index[n]
                                     ELSE IF n = at + 1 THEN size + 1 ELSE index[n - 1]]
  BY DEF InsertedAt
<1>2. \A n \in 1..(size + 1) : new[n] = IF n <= at THEN index[n]
                                        ELSE IF n = at + 1 THEN size + 1 ELSE index[n - 1]
  BY <1>1
<1>3. DOMAIN new = 1..(size + 1)
  BY <1>1
<1> HIDE DEF new
<1>4. ASSUME NEW n \in 1..(size + 1) PROVE new[n] \in 1..(size + 1)
  <2>1. CASE n <= at
    BY <1>2, <2>1
  <2>2. CASE n = at + 1
    BY <1>2, <2>2
  <2>3. CASE ~(n <= at) /\ n # at + 1
    <3>1. n - 1 \in 1..size
      BY <2>3
    <3> QED
      BY <1>2, <2>3, <3>1
  <2> QED
    BY <2>1, <2>2, <2>3
<1>5. new \in Seq(1..(size + 1)) /\ Len(new) = size + 1
  <2>1. new \in [1..(size + 1) -> 1..(size + 1)]
    BY <1>1, <1>3, <1>4
  <2>2. \A N \in Nat : \A T : \A s \in [1..N -> T] : s \in Seq(T) /\ Len(s) = N
    OBVIOUS
  <2> QED
    BY <2>1, <2>2
<1>6. \A n \in 1..at : new[n] = index[n]
  BY <1>2
<1>7. new[at + 1] = size + 1
  BY <1>2
<1>8. \A n \in (at + 2)..(size + 1) : new[n] = index[n - 1]
  BY <1>2
<1> QED
  BY <1>5, <1>6, <1>7, <1>8 DEF new

\* Mapping keeps the index in order, with every id in it.
LEMMA MapKeepsOrder ==
  ASSUME NEW map, GoodMap(map), NEW sym \in Nat
  PROVE  GoodMap(symap_map(map, sym).map)
<1> DEFINE size == SymapSize(map)
           found == symap_search(map, sym)
           at == found.at
           symbols == Append(map.symbols, sym)
           index == InsertedAt(map.index, at, size + 1)
           new == [symbols |-> symbols, index |-> index]
<1>1. size \in Nat /\ map.symbols \in Seq(Nat) /\ Len(map.symbols) = size
  BY DEF GoodMap, SymapSize
<1>2. Answers(map, sym, found)
  BY SearchAnswers
<1>3. CASE found.exact
  <2>1. symap_map(map, sym).map = map
    BY <1>3 DEF symap_map
  <2> QED
    BY <2>1
<1>4. CASE ~found.exact
  <2>1. symap_map(map, sym).map = new
    BY <1>4 DEF symap_map
  <2>2. new.symbols = symbols /\ new.index = index
    OBVIOUS
  <2>3. at \in 0..size
    BY <1>2 DEF Answers
  <2>4. \A n \in 0..(size - 1) : IF n < at THEN SymbolAt(map, n) < sym ELSE SymbolAt(map, n) > sym
    BY <1>2, <1>4 DEF Answers
  <2>5. map.index \in Seq(1..size) /\ Len(map.index) = size
    BY DEF GoodMap, Sorted
  <2>6. /\ symbols \in Seq(Nat) /\ Len(symbols) = size + 1 /\ symbols[size + 1] = sym
        /\ \A n \in 1..size : symbols[n] = map.symbols[n]
    <3> DEFINE old == map.symbols
    <3>1. old \in Seq(Nat) /\ Len(old) = size
      BY <1>1
    <3> HIDE DEF old, size
    <3>2. /\ Append(old, sym) \in Seq(Nat) /\ Len(Append(old, sym)) = size + 1
          /\ Append(old, sym)[size + 1] = sym
          /\ \A n \in 1..size : Append(old, sym)[n] = old[n]
      BY <1>1, <3>1
    <3> QED
      BY <3>2 DEF old
  <2>7. /\ index \in Seq(1..(size + 1)) /\ Len(index) = size + 1
        /\ \A n \in 1..at : index[n] = map.index[n]
        /\ index[at + 1] = size + 1
        /\ \A n \in (at + 2)..(size + 1) : index[n] = map.index[n - 1]
    <3> HIDE DEF size, at
    <3> QED
      BY <1>1, <2>3, <2>5, Inserted
  <2>8. \A n \in 1..size : map.index[n] \in 1..size
    <3> DEFINE old == map.index
    <3>1. old \in Seq(1..size) /\ Len(old) = size
      BY <2>5
    <3> HIDE DEF old, size
    <3>2. \A n \in 1..size : old[n] \in 1..size
      BY <3>1
    <3> QED
      BY <3>2 DEF old
  <2> HIDE DEF size, at, symbols, index, found
  <2>9. \A n \in 1..at : symbols[index[n]] = SymbolAt(map, n - 1)
    <3> TAKE n \in 1..at
    <3>1. n \in 1..size /\ n - 1 + 1 = n
      BY <1>1, <2>3
    <3>2. index[n] = map.index[n] /\ map.index[n] \in 1..size
      BY <2>7, <2>8, <3>1
    <3>3. symbols[index[n]] = map.symbols[map.index[n]]
      BY <2>6, <3>2
    <3> QED
      BY <3>1, <3>3 DEF SymbolAt
  <2>10. symbols[index[at + 1]] = sym
    BY <2>6, <2>7
  <2>11. \A n \in (at + 2)..(size + 1) : symbols[index[n]] = SymbolAt(map, n - 2)
    <3> TAKE n \in (at + 2)..(size + 1)
    <3>1. n - 1 \in 1..size /\ n - 2 + 1 = n - 1
      BY <1>1, <2>3
    <3>2. index[n] = map.index[n - 1] /\ map.index[n - 1] \in 1..size
      BY <2>7, <2>8, <3>1
    <3>3. symbols[index[n]] = map.symbols[map.index[n - 1]]
      BY <2>6, <3>2
    <3> QED
      BY <3>1, <3>3 DEF SymbolAt
  <2>12. ASSUME NEW m \in 1..(size + 1), NEW n \in 1..(size + 1), m < n
         PROVE  symbols[index[m]] < symbols[index[n]]
    <3>1. CASE n <= at
      <4>1. m \in 1..at /\ n \in 1..at
        BY <2>3, <2>12, <3>1
      <4>2. m - 1 \in 0..(size - 1) /\ n - 1 \in 0..(size - 1) /\ m - 1 < n - 1
        BY <1>1, <2>3, <2>12, <3>1
      <4>3. SymbolAt(map, m - 1) < SymbolAt(map, n - 1)
        BY <4>2, IndexInOrder DEF size
      <4> QED
        BY <2>9, <4>1, <4>3
    <3>2. CASE n = at + 1
      <4>1. m \in 1..at
        BY <2>3, <2>12, <3>2
      <4>2. m - 1 \in 0..(size - 1) /\ m - 1 < at
        BY <1>1, <2>3, <4>1
      <4>3. SymbolAt(map, m - 1) < sym
        BY <2>4, <4>2
      <4> QED
        BY <2>9, <2>10, <3>2, <4>1, <4>3
    <3>3. CASE m = at + 1
      <4>1. n \in (at + 2)..(size + 1)
        BY <2>3, <2>12, <3>3
      <4>2. n - 2 \in 0..(size - 1) /\ ~(n - 2 < at)
        BY <1>1, <2>3, <4>1
      <4>3. SymbolAt(map, n - 2) \in Nat /\ SymbolAt(map, n - 2) > sym
        BY <2>4, <4>2, IndexInOrder DEF size
      <4> QED
        BY <2>10, <2>11, <3>3, <4>1, <4>3
    <3>4. CASE m <= at /\ n > at + 1
      <4>1. m \in 1..at /\ n \in (at + 2)..(size + 1)
        BY <1>1, <2>3, <2>12, <3>4
      <4>2. m - 1 \in 0..(size - 1) /\ n - 2 \in 0..(size - 1) /\ m - 1 < n - 2
        BY <1>1, <2>3, <4>1
      <4>3. SymbolAt(map, m - 1) < SymbolAt(map, n - 2)
        BY <4>2, IndexInOrder DEF size
      <4> QED
        BY <2>9, <2>11, <4>1, <4>3
    <3>5. CASE m > at + 1
      <4>1. m \in (at + 2)..(size + 1) /\ n \in (at + 2)..(size + 1)
        BY <1>1, <2>3, <2>12, <3>5
      <4>2. m - 2 \in 0..(size - 1) /\ n - 2 \in 0..(size - 1) /\ m - 2 < n - 2
        BY <1>1, <2>3, <2>12, <4>1
      <4>3. SymbolAt(map, m - 2) < SymbolAt(map, n - 2)
        BY <4>2, IndexInOrder DEF size
      <4> QED
        BY <2>11, <4>1, <4>3
    <3> QED
      BY <1>1, <2>3, <2>12, <3>1, <3>2, <3>3, <3>4, <3>5
  <2>13. ASSUME NEW id \in 1..(size + 1)
         PROVE  \E n \in 1..(size + 1) : index[n] = id
    <3>1. CASE id = size + 1
      BY <1>1, <2>3, <2>7, <3>1
    <3>2. CASE id # size + 1
      <4>1. id \in 1..size
        BY <1>1, <3>2
      <4>2. PICK n \in 1..size : map.index[n] = id
        BY <4>1 DEF GoodMap, size
      <4>3. CASE n <= at
        <5>1. n \in 1..at /\ n \in 1..(size + 1)
          BY <1>1, <2>3, <4>3
        <5> QED
          BY <2>7, <4>2, <5>1
      <4>4. CASE ~(n <= at)
        <5>1. n + 1 \in (at + 2)..(size + 1) /\ n + 1 \in 1..(size + 1) /\ n + 1 - 1 = n
          BY <1>1, <2>3, <4>4
        <5>2. index[n + 1] = map.index[n + 1 - 1]
          BY <2>7, <5>1
        <5> QED
          BY <4>2, <5>1, <5>2
      <4> QED
        BY <4>3, <4>4
    <3> QED
      BY <3>1, <3>2
  <2>14. SymapSize(new) = size + 1
    BY <2>2, <2>6 DEF SymapSize
  <2> HIDE DEF new
  <2>15. Sorted(new)
    BY <2>2, <2>7, <2>12, <2>14 DEF Sorted
  <2>16. GoodMap(new)
    BY <2>2, <2>6, <2>7, <2>13, <2>14, <2>15 DEF GoodMap
  <2> QED
    BY <2>1, <2>16
<1> QED
  BY <1>3, <1>4
-----------------------------------------------------------------------------
\* The elements of an array that are in S are picked, once each and in their order.
LEMMA PickedElements ==
  ASSUME NEW T, NEW array \in Seq(T), NEW S
  PROVE  /\ Picked(array, S) \in Seq(T)
         /\ Elements(Picked(array, S)) = Elements(array) \cap S
         /\ Distinct(array) => Distinct(Picked(array, S))
<1> DEFINE N == Len(array)
           Q == Seq(T)
           After(n, before) == IF array[n] \in S THEN Append(before, array[n]) ELSE before
           G == [p \in (1..N) \X Q |-> After(p[1], p[2])]
           none == <<>>
           Rec(f) == f = [n \in 0..N |-> IF n = 0 THEN none ELSE After(n, f[n - 1])]
<1>1. N \in Nat /\ none \in Q /\ (\A n \in 1..N : array[n] \in T) /\ DOMAIN array = 1..N
  OBVIOUS
<1>2. \A n \in 1..N, before \in Q : After(n, before) \in Q
  BY <1>1
<1> HIDE DEF After, Rec
<1>3. G \in [(1..N) \X Q -> Q]
  BY <1>2
<1>4. \A n \in 1..N, before \in Q : G[<<n, before>>] = After(n, before)
  OBVIOUS
<1> HIDE DEF G, N, Q, none
<1>5. PICK f \in [0..N -> Q] : GoesOn(f, N, none, G)
  BY <1>1, <1>3, RecursionExists
<1>6. \A n \in 1..N : n \in 0..N /\ n # 0 /\ n - 1 \in 0..N
  BY <1>1
<1>7. \A n \in 1..N : f[n] = After(n, f[n - 1])
  BY <1>4, <1>5, <1>6 DEF GoesOn
<1>8. \A n \in 0..N : f[n] = IF n = 0 THEN none ELSE After(n, f[n - 1])
  BY <1>1, <1>5, <1>7 DEF GoesOn
<1>9. Rec(f)
  <2>1. f = [n \in 0..N |-> f[n]]
    OBVIOUS
  <2>2. QED
    BY <2>1, <1>8 DEF Rec
<1> DEFINE picked == CHOOSE g : Rec(g)
<1>10. Rec(picked)
  BY <1>9
<1>11. Picked(array, S) = picked[N]
  BY DEF Picked, picked, N, After, none, Rec
<1> HIDE DEF picked
<1>12. \A n \in 0..N : picked[n] = IF n = 0 THEN none ELSE After(n, picked[n - 1])
  BY <1>10 DEF Rec
<1>13. Alike(picked, f, N)
  BY <1>1, <1>5, <1>6, <1>7, <1>12 DEF Alike, GoesOn
<1>14. picked[N] = f[N] /\ f[N] \in Q
  BY <1>1, <1>13, RecursionUnique
<1> DEFINE Seen(n) == {array[m] : m \in 1..n}
           Right(n) == /\ Elements(f[n]) = Seen(n) \cap S
                       /\ Distinct(array) => Distinct(f[n])
           Wrong == {n \in 0..N : ~Right(n)}
<1>15. Right(0)
  <2>1. Elements(<<>>) = {} /\ Distinct(<<>>) /\ 1..0 = {}
    BY DEF Elements, Distinct
  <2>2. f[0] = <<>>
    BY <1>5 DEF GoesOn, none
  <2>3. QED
    BY <2>1, <2>2
<1>16. ASSUME NEW n \in 1..N, Right(n - 1)
       PROVE  Right(n)
  <2>1. /\ n \in 0..N /\ n - 1 \in 0..N /\ 1..n = 1..(n - 1) \cup {n} /\ n \notin 1..(n - 1)
        /\ 1..(n - 1) \subseteq 1..N
    BY <1>1
  <2>2. f[n - 1] \in Seq(T) /\ array[n] \in T /\ f[n] = After(n, f[n - 1])
    BY <1>1, <1>5, <1>7, <2>1 DEF Q
  <2>3. Seen(n) = Seen(n - 1) \cup {array[n]}
    BY <2>1
  <2>4. CASE array[n] \notin S
    BY <1>16, <2>2, <2>3, <2>4 DEF After
  <2>5. CASE array[n] \in S
    <3>1. f[n] = ArrayAppend(f[n - 1], array[n])
      BY <2>2, <2>5 DEF After, ArrayAppend
    <3>2. Elements(f[n]) = Elements(f[n - 1]) \cup {array[n]}
      <4>1. Elements(ArrayAppend(f[n - 1], array[n])) = Elements(f[n - 1]) \cup {array[n]}
        <5>1. \A before \in Seq(T), e \in T :
                Elements(ArrayAppend(before, e)) = Elements(before) \cup {e}
          BY AppendAdds
        <5>2. QED
          BY <5>1, <2>2
      <4>2. QED
        BY <4>1, <3>1
    <3>3. ASSUME Distinct(array) PROVE array[n] \notin Elements(f[n - 1])
      <4>1. array[n] \notin Seen(n - 1)
        BY <3>3, <2>1, <1>1 DEF Distinct
      <4>2. QED
        BY <4>1, <1>16
    <3>4. ASSUME Distinct(array) PROVE Distinct(f[n])
      <4>1. Distinct(ArrayAppend(f[n - 1], array[n]))
        BY <3>3, <3>4, <1>16, <2>2, AppendDistinct
      <4>2. QED
        BY <4>1, <3>1
    <3>5. QED
      BY <3>2, <3>4, <2>3, <2>5, <1>16
  <2>6. QED
    BY <2>4, <2>5
<1> HIDE DEF Right
<1>17. \A n \in 1..N : n \in Wrong => n - 1 \in Wrong
  BY <1>6, <1>16
<1>18. 0 \notin Wrong /\ Wrong \subseteq 0..N
  BY <1>15
<1> HIDE DEF Wrong
<1>19. \A n \in 0..N : n \notin Wrong
  BY <1>1, <1>17, <1>18, NeverFails
<1>20. Right(N)
  BY <1>1, <1>19 DEF Wrong
<1>21. Seen(N) = Elements(array)
  BY <1>1 DEF Elements
<1>22. QED
  BY <1>11, <1>14, <1>20, <1>21 DEF Right, Q

\* What is in one array behind another.
LEMMA JoinedElements ==
  ASSUME NEW T, NEW a \in Seq(T), NEW b \in Seq(T)
  PROVE  /\ a \o b \in Seq(T) /\ Len(a \o b) = Len(a) + Len(b)
         /\ Elements(a \o b) = Elements(a) \cup Elements(b)
         /\ Distinct(a) /\ Distinct(b) /\ Elements(a) \cap Elements(b) = {} => Distinct(a \o b)
<1> DEFINE c == a \o b
<1>1. /\ c \in Seq(T) /\ Len(c) = Len(a) + Len(b)
      /\ Len(a) \in Nat /\ Len(b) \in Nat
      /\ DOMAIN a = 1..Len(a) /\ DOMAIN b = 1..Len(b) /\ DOMAIN c = 1..(Len(a) + Len(b))
      /\ \A n \in 1..Len(a) : c[n] = a[n]
      /\ \A n \in 1..Len(b) : c[Len(a) + n] = b[n]
  OBVIOUS
<1> HIDE DEF c
<1> DEFINE InA(n) == n \in 1..Len(a)
<1>2. ASSUME NEW n \in DOMAIN c, ~InA(n)
      PROVE  n - Len(a) \in 1..Len(b) /\ c[n] = b[n - Len(a)]
  <2>1. n - Len(a) \in 1..Len(b) /\ Len(a) + (n - Len(a)) = n
    BY <1>1, <1>2
  <2>2. QED
    BY <2>1, <1>1
<1>3. \A n \in 1..Len(a) : n \in DOMAIN c
  BY <1>1
<1>4. \A n \in 1..Len(b) : Len(a) + n \in DOMAIN c
  BY <1>1
<1>5. Elements(c) = Elements(a) \cup Elements(b)
  <2>1. ASSUME NEW n \in DOMAIN c PROVE c[n] \in Elements(a) \cup Elements(b)
    <3>1. CASE InA(n)
      BY <3>1, <1>1 DEF Elements
    <3>2. CASE ~InA(n)
      BY <3>2, <1>1, <1>2 DEF Elements
    <3>3. QED
      BY <3>1, <3>2
  <2>2. \A n \in DOMAIN a : a[n] \in Elements(c)
    BY <1>1, <1>3 DEF Elements
  <2>3. \A n \in DOMAIN b : b[n] \in Elements(c)
    <3>1. \A n \in 1..Len(b) : c[Len(a) + n] \in Elements(c)
      BY <1>4 DEF Elements
    <3>2. QED
      BY <3>1, <1>1
  <2>4. QED
    BY <2>1, <2>2, <2>3 DEF Elements
<1>6. ASSUME Distinct(a), Distinct(b), Elements(a) \cap Elements(b) = {}
      PROVE  Distinct(c)
  <2> SUFFICES ASSUME NEW m \in DOMAIN c, NEW n \in DOMAIN c, c[m] = c[n]
               PROVE  m = n
    BY DEF Distinct
  <2>1. CASE InA(m) /\ InA(n)
    BY <2>1, <1>1, <1>6 DEF Distinct
  <2>2. CASE InA(m) /\ ~InA(n)
    BY <2>2, <1>1, <1>2, <1>6 DEF Elements
  <2>3. CASE ~InA(m) /\ InA(n)
    BY <2>3, <1>1, <1>2, <1>6 DEF Elements
  <2>4. CASE ~InA(m) /\ ~InA(n)
    <3>1. b[m - Len(a)] = b[n - Len(a)]
      BY <2>4, <1>2
    <3>2. m - Len(a) = n - Len(a)
      BY <2>4, <3>1, <1>1, <1>2, <1>6 DEF Distinct
    <3>3. QED
      BY <3>2, <1>1
  <2>5. QED
    BY <2>1, <2>2, <2>3, <2>4
<1>7. QED
  BY <1>1, <1>5, <1>6 DEF c

-----------------------------------------------------------------------------
\* A position that is written down, and one that fits a time signature.
Placed(p) == p \in [bars : Nat \ {0}, beats : Nat \ {0}, sixteenths : Nat \ {0}, ticks : Nat]
Fitting(sig, p) ==
  /\ Placed(p)
  /\ p.beats <= sig.top /\ p.sixteenths <= SixteenthsPerBeat(sig) /\ p.ticks < TicksPerSixteenth

SixteenthsBefore(sig, p) == (BeatsBefore(sig, p) * SixteenthsPerBeat(sig)) + p.sixteenths - 1

\* What / and % of a number give.
LEMMA DivMod ==
  ASSUME NEW n \in Int, NEW d \in Nat \ {0}
  PROVE  /\ n \div d \in Int /\ n % d \in 0..(d - 1)
         /\ n = (d * (n \div d)) + (n % d)
OBVIOUS

LEMMA Products ==
  ASSUME NEW a \in Int, NEW b \in Int, NEW c \in Int
  PROVE  (a + b) * c = (a * c) + (b * c) /\ (a * b) * c = a * (b * c) /\ a * b = b * a /\ a * b \in Int
OBVIOUS

\* A number of whole units and a rest is below zero only if there are.
LEMMA Signs ==
  ASSUME NEW a \in Int, NEW d \in Nat \ {0}, NEW r \in 0..(d - 1)
  PROVE  ((a * d) + r < 0 <=> a < 0) /\ (a >= 0 => (a * d) + r \in Nat)
<1>1. CASE a < 0
  <2>1. a + 1 <= 0 /\ (a + 1) * d <= 0 /\ (a + 1) * d = (a * d) + d
    BY <1>1
  <2>2. QED
    BY <1>1, <2>1
<1>2. CASE a >= 0
  <2>1. a * d \in Nat
    BY <1>2
  <2>2. QED
    BY <1>2, <2>1
<1>3. QED
  BY <1>1, <1>2

\* A beat is a whole number of sixteenths, whatever note it is.
LEMMA SignatureParts ==
  ASSUME NEW sig \in Signatures
  PROVE  /\ sig.top \in Nat \ {0} /\ SixteenthsPerBeat(sig) \in Nat \ {0}
         /\ TicksPerSixteenth \in Nat \ {0}
         /\ TicksPerBeat(sig) = SixteenthsPerBeat(sig) * TicksPerSixteenth
<1>1. sig.top \in Nat \ {0} /\ sig.unit \in {2, 4, 8, 16}
  BY DEF Signatures, Units
<1>2. TicksPerSixteenth \in Nat \ {0}
  BY PositionsAssumption
<1> DEFINE T == TicksPerSixteenth
           u == sig.unit
<1>3. SixteenthsPerBeat(sig) = 16 \div u /\ TicksPerBeat(sig) = (16 * T) \div u
  BY DEF SixteenthsPerBeat, TicksPerBeat
<1> HIDE DEF T, u
<1>4. T \in Nat /\ u \in {2, 4, 8, 16}
  BY <1>1, <1>2 DEF T, u
<1>5. 16 \div u \in Nat \ {0} /\ (16 * T) \div u = (16 \div u) * T
  <2>1. CASE u = 2
    BY <1>4, <2>1
  <2>2. CASE u = 4
    BY <1>4, <2>2
  <2>3. CASE u = 8
    BY <1>4, <2>3
  <2>4. CASE u = 16
    BY <1>4, <2>4
  <2>5. QED
    BY <1>4, <2>1, <2>2, <2>3, <2>4
<1>6. QED
  BY <1>1, <1>2, <1>3, <1>5 DEF T

\* position_to_ticks counts sixteenths and ticks.
LEMMA TicksCount ==
  ASSUME NEW sig \in Signatures, NEW p, p.bars \in Int, p.beats \in Int, p.sixteenths \in Int, p.ticks \in Int
  PROVE  /\ BeatsBefore(sig, p) \in Int /\ SixteenthsBefore(sig, p) \in Int
         /\ Ticks(sig, p) = (SixteenthsBefore(sig, p) * TicksPerSixteenth) + p.ticks
<1> DEFINE S == SixteenthsPerBeat(sig)
           T == TicksPerSixteenth
           b == p.bars - 1
           e == p.beats - 1
           x == p.sixteenths - 1
           top == sig.top
<1>1. S \in Int /\ T \in Int /\ top \in Int /\ TicksPerBeat(sig) = S * T
  BY SignatureParts
<1>2. b \in Int /\ e \in Int /\ x \in Int
  OBVIOUS
<1>3. BeatsBefore(sig, p) = (b * top) + e
  BY <1>1 DEF BeatsBefore
<1>4. Ticks(sig, p) = (b * ((S * T) * top)) + (e * (S * T)) + (x * T) + p.ticks
  BY <1>1 DEF Ticks, TicksPerBar
<1>5. SixteenthsBefore(sig, p) = (((b * top) + e) * S) + x
  <2>1. SixteenthsBefore(sig, p) = (((b * top) + e) * S) + p.sixteenths - 1
    BY <1>3 DEF SixteenthsBefore
  <2>2. ((b * top) + e) * S \in Int
    BY <1>1, <1>2
  <2>3. QED
    BY <2>1, <2>2
<1> HIDE DEF S, T, b, e, x, top
<1>6. ((((b * top) + e) * S) + x) * T = (b * ((S * T) * top)) + (e * (S * T)) + (x * T)
  <2>1. ((((b * top) + e) * S) + x) * T = ((((b * top) + e) * S) * T) + (x * T)
    BY <1>1, <1>2, Products
  <2>2. (((b * top) + e) * S) * T = ((b * top) + e) * (S * T)
    BY <1>1, <1>2, Products
  <2>3. ((b * top) + e) * (S * T) = ((b * top) * (S * T)) + (e * (S * T))
    BY <1>1, <1>2, Products
  <2>4. (b * top) * (S * T) = b * ((S * T) * top)
    BY <1>1, <1>2, Products
  <2>5. QED
    BY <2>1, <2>2, <2>3, <2>4
<1>7. QED
  BY <1>1, <1>2, <1>3, <1>4, <1>5, <1>6 DEF T

\* position_set_beat carries into bars.
LEMMA SetBeatKeeps ==
  ASSUME NEW sig \in Signatures, NEW p, Placed(p), NEW beat \in Int,
         ((p.bars - 1) * sig.top) + beat - 1 >= 0
  PROVE  LET q == SetBeat(sig, p, beat)
         IN  /\ Placed(q) /\ q.beats <= sig.top /\ q.sixteenths = p.sixteenths /\ q.ticks = p.ticks
             /\ BeatsBefore(sig, q) = ((p.bars - 1) * sig.top) + beat - 1
<1> DEFINE q == SetBeat(sig, p, beat)
           top == sig.top
           b == p.bars - 1
           carry == (beat - 1) \div top
           rest == (beat - 1) % top
<1>1. top \in Nat \ {0} /\ b \in Int /\ b + 1 = p.bars /\ (b * top) + beat - 1 >= 0
  BY SignatureParts DEF Placed
<1>2. carry \in Int /\ rest \in 0..(top - 1) /\ beat - 1 = (top * carry) + rest
  <2> DEFINE x == beat - 1
  <2>1. x \in Int /\ top \in Nat \ {0}
    BY <1>1
  <2>2. carry = x \div top /\ rest = x % top
    OBVIOUS
  <2> HIDE DEF x, carry, rest, top
  <2>3. x \div top \in Int /\ x % top \in 0..(top - 1) /\ x = (top * (x \div top)) + (x % top)
    BY <2>1, DivMod
  <2>4. QED
    BY <2>2, <2>3 DEF x
<1>3. q = IF p.bars + carry < 1 THEN [p EXCEPT !.bars = 1, !.beats = 1]
          ELSE [p EXCEPT !.bars = @ + carry, !.beats = rest + 1]
  BY DEF SetBeat
<1> HIDE DEF q, top, b, carry, rest
<1>4. (b + carry) * top = (b * top) + (top * carry) /\ b * top \in Int /\ top * carry \in Int
  BY <1>1, <1>2, Products
<1>5. ((b + carry) * top) + rest = (b * top) + beat - 1
  BY <1>1, <1>2, <1>4
<1>6. b + carry >= 0
  <2>1. ((b + carry) * top) + rest >= 0
    BY <1>1, <1>5
  <2>2. b + carry \in Int
    BY <1>1, <1>2
  <2>3. QED
    BY <1>1, <1>2, <2>1, <2>2, Signs
<1>7. q = [p EXCEPT !.bars = @ + carry, !.beats = rest + 1]
  BY <1>1, <1>2, <1>3, <1>6 DEF Placed
<1>8. /\ q.bars = b + carry + 1 /\ q.beats = rest + 1 /\ q.sixteenths = p.sixteenths /\ q.ticks = p.ticks
      /\ q \in [bars : Nat \ {0}, beats : Nat \ {0}, sixteenths : Nat \ {0}, ticks : Nat]
  <2>1. /\ p.bars + carry = b + carry + 1 /\ b + carry + 1 \in Nat \ {0}
        /\ rest + 1 \in Nat \ {0}
    BY <1>1, <1>2, <1>6 DEF Placed
  <2>2. p \in [bars : Nat \ {0}, beats : Nat \ {0}, sixteenths : Nat \ {0}, ticks : Nat]
    BY DEF Placed
  <2>3. q = [p EXCEPT !.bars = b + carry + 1, !.beats = rest + 1]
    BY <1>7, <2>1
  <2>4. QED
    BY <2>1, <2>2, <2>3
<1>9. BeatsBefore(sig, q) = (b * top) + beat - 1
  BY <1>1, <1>2, <1>5, <1>8 DEF BeatsBefore, top
<1>10. q.beats <= top
  BY <1>1, <1>2, <1>8
<1>11. QED
  BY <1>8, <1>9, <1>10 DEF q, top, b, Placed

\* position_set_sixteenth carries into beats.
LEMMA SetSixteenthKeeps ==
  ASSUME NEW sig \in Signatures, NEW p, Placed(p), NEW sixteenth \in Int,
         (BeatsBefore(sig, p) * SixteenthsPerBeat(sig)) + sixteenth - 1 >= 0
  PROVE  LET q == SetSixteenth(sig, p, sixteenth)
         IN  /\ Placed(q) /\ q.sixteenths <= SixteenthsPerBeat(sig) /\ q.ticks = p.ticks
             /\ p.beats <= sig.top => q.beats <= sig.top
             /\ SixteenthsBefore(sig, q) = (BeatsBefore(sig, p) * SixteenthsPerBeat(sig)) + sixteenth - 1
<1> DEFINE q == SetSixteenth(sig, p, sixteenth)
           S == SixteenthsPerBeat(sig)
           a == BeatsBefore(sig, p)
           carry == (sixteenth - 1) \div S
           rest == (sixteenth - 1) % S
           r == SetBeat(sig, p, p.beats + carry)
<1>1. S \in Nat \ {0} /\ sig.top \in Nat \ {0}
  BY SignatureParts
<1>2. a \in Int /\ a = ((p.bars - 1) * sig.top) + p.beats - 1 /\ (p.bars - 1) * sig.top \in Int /\ p.beats \in Int
  BY <1>1 DEF BeatsBefore, Placed
<1>3. carry \in Int /\ rest \in 0..(S - 1) /\ sixteenth - 1 = (S * carry) + rest
  <2> DEFINE x == sixteenth - 1
  <2>1. x \in Int /\ S \in Nat \ {0}
    BY <1>1
  <2>2. carry = x \div S /\ rest = x % S
    OBVIOUS
  <2> HIDE DEF x, carry, rest, S
  <2>3. x \div S \in Int /\ x % S \in 0..(S - 1) /\ x = (S * (x \div S)) + (x % S)
    BY <2>1, DivMod
  <2>4. QED
    BY <2>2, <2>3 DEF x
<1>4. q = IF carry = 0 THEN [p EXCEPT !.sixteenths = sixteenth]
          ELSE IF a + carry < 0 THEN [p EXCEPT !.bars = 1, !.beats = 1, !.sixteenths = 1]
          ELSE [r EXCEPT !.sixteenths = rest + 1]
  BY DEF SetSixteenth
<1>5. (a * S) + sixteenth - 1 >= 0
  OBVIOUS
<1>6. a + carry >= 0 =>
        /\ Placed(r) /\ r.beats <= sig.top /\ r.ticks = p.ticks
        /\ BeatsBefore(sig, r) = a + carry
  <2>1. p.beats + carry \in Int
    BY <1>2, <1>3
  <2>2. ((p.bars - 1) * sig.top) + (p.beats + carry) - 1 = a + carry
    BY <1>2, <1>3
  <2> HIDE DEF r, a, carry
  <2>3. QED
    BY <2>1, <2>2, SetBeatKeeps DEF r
<1> HIDE DEF q, S, a, carry, rest, r
<1>7. (a + carry) * S = (a * S) + (S * carry) /\ a * S \in Int /\ S * carry \in Int
  BY <1>1, <1>2, <1>3, Products
<1>8. ((a + carry) * S) + rest = (a * S) + sixteenth - 1
  BY <1>1, <1>3, <1>7
<1>9. a + carry >= 0
  <2>1. ((a + carry) * S) + rest >= 0 /\ a + carry \in Int
    BY <1>2, <1>3, <1>5, <1>8
  <2>2. QED
    BY <1>1, <1>3, <2>1, Signs
<1>10. CASE carry = 0
  <2>1. S * carry = 0
    BY <1>1, <1>10
  <2>2. sixteenth - 1 = rest
    BY <1>3, <2>1
  <2>3. q = [p EXCEPT !.sixteenths = sixteenth] /\ sixteenth \in 1..S
    BY <1>1, <1>3, <1>4, <1>10, <2>2
  <2>4. /\ q \in [bars : Nat \ {0}, beats : Nat \ {0}, sixteenths : Nat \ {0}, ticks : Nat]
        /\ q.bars = p.bars /\ q.beats = p.beats /\ q.sixteenths = sixteenth /\ q.ticks = p.ticks
    BY <1>1, <2>3 DEF Placed
  <2>5. SixteenthsBefore(sig, q) = (a * S) + sixteenth - 1
    BY <2>4 DEF SixteenthsBefore, BeatsBefore, a, S
  <2>6. QED
    BY <1>1, <2>3, <2>4, <2>5 DEF q, S, a, Placed
<1>11. CASE carry # 0
  <2>1. q = [r EXCEPT !.sixteenths = rest + 1]
    BY <1>2, <1>3, <1>4, <1>9, <1>11
  <2>2. /\ q \in [bars : Nat \ {0}, beats : Nat \ {0}, sixteenths : Nat \ {0}, ticks : Nat]
        /\ q.bars = r.bars /\ q.beats = r.beats /\ q.sixteenths = rest + 1 /\ q.ticks = r.ticks
    BY <1>1, <1>3, <1>6, <1>9, <2>1 DEF Placed
  <2>3. BeatsBefore(sig, q) = a + carry
    BY <1>6, <1>9, <2>2 DEF BeatsBefore
  <2>4. SixteenthsBefore(sig, q) = ((a + carry) * S) + rest
    <3>1. SixteenthsBefore(sig, q) = ((a + carry) * S) + (rest + 1) - 1
      BY <2>2, <2>3 DEF SixteenthsBefore, S
    <3>2. (a + carry) * S \in Int
      BY <1>1, <1>2, <1>3
    <3>3. QED
      BY <1>1, <1>3, <3>1, <3>2
  <2>5. q.sixteenths <= S
    BY <1>1, <1>3, <2>2
  <2>6. QED
    BY <1>6, <1>8, <1>9, <2>2, <2>4, <2>5 DEF q, S, a, Placed
<1>12. QED
  BY <1>10, <1>11

\* position_set_tick carries into sixteenths, and stops at the start.
LEMMA SetTickKeeps ==
  ASSUME NEW sig \in Signatures, NEW p, Placed(p), NEW tick \in Int
  PROVE  LET q == SetTick(sig, p, tick)
             total == (SixteenthsBefore(sig, p) * TicksPerSixteenth) + tick
         IN  /\ total < 0 => q = position_init
             /\ total >= 0 =>
                  /\ Placed(q) /\ q.ticks < TicksPerSixteenth /\ Ticks(sig, q) = total
                  /\ p.beats <= sig.top => q.beats <= sig.top
                  /\ p.sixteenths <= SixteenthsPerBeat(sig) => q.sixteenths <= SixteenthsPerBeat(sig)
<1> DEFINE q == SetTick(sig, p, tick)
           T == TicksPerSixteenth
           S == SixteenthsPerBeat(sig)
           a == SixteenthsBefore(sig, p)
           carry == tick \div T
           rest == tick % T
           r == SetSixteenth(sig, p, p.sixteenths + carry)
<1>1. T \in Nat \ {0} /\ S \in Nat \ {0} /\ sig.top \in Nat \ {0}
  BY SignatureParts
<1>2. /\ BeatsBefore(sig, p) * S \in Int /\ p.sixteenths \in Int
      /\ a = (BeatsBefore(sig, p) * S) + p.sixteenths - 1 /\ a \in Int
  <2>1. p.bars \in Int /\ p.beats \in Int /\ p.sixteenths \in Int /\ p.ticks \in Int
    BY DEF Placed
  <2>2. BeatsBefore(sig, p) \in Int /\ a \in Int
    BY <2>1, TicksCount
  <2>3. a = (BeatsBefore(sig, p) * S) + p.sixteenths - 1
    BY DEF SixteenthsBefore
  <2> HIDE DEF a, S
  <2>4. QED
    BY <1>1, <2>1, <2>2, <2>3
<1>3. carry \in Int /\ rest \in 0..(T - 1) /\ tick = (T * carry) + rest
  BY <1>1, DivMod
<1>4. q = IF carry = 0 THEN [p EXCEPT !.ticks = tick]
          ELSE IF a + carry < 0 THEN position_init
          ELSE [r EXCEPT !.ticks = rest]
  BY DEF SetTick, SixteenthsBefore
<1>5. a + carry >= 0 =>
        /\ Placed(r) /\ r.sixteenths <= S /\ r.ticks = p.ticks
        /\ p.beats <= sig.top => r.beats <= sig.top
        /\ SixteenthsBefore(sig, r) = a + carry
  <2>1. p.sixteenths + carry \in Int
    BY <1>2, <1>3
  <2>2. (BeatsBefore(sig, p) * S) + (p.sixteenths + carry) - 1 = a + carry
    BY <1>2, <1>3
  <2> HIDE DEF r, a, carry
  <2>3. QED
    BY <2>1, <2>2, SetSixteenthKeeps DEF r
<1> HIDE DEF q, T, S, a, carry, rest, r
<1>6. (a + carry) * T = (a * T) + (T * carry) /\ a * T \in Int /\ T * carry \in Int
  BY <1>1, <1>2, <1>3, Products
<1>7. ((a + carry) * T) + rest = (a * T) + tick
  BY <1>1, <1>3, <1>6
<1>8. (a * T) + tick < 0 <=> a + carry < 0
  <2>1. a + carry \in Int
    BY <1>2, <1>3
  <2>2. QED
    BY <1>1, <1>3, <1>7, <2>1, Signs
<1>9. CASE carry = 0
  <2>1. tick = rest
    <3>1. T * carry = 0
      BY <1>1, <1>9
    <3>2. QED
      BY <1>3, <3>1
  <2>2. a >= 0
    <3>1. BeatsBefore(sig, p) >= 0
      <4>1. p.bars - 1 \in Nat /\ p.beats - 1 \in Nat
        BY DEF Placed
      <4>2. (p.bars - 1) * sig.top \in Nat
        BY <1>1, <4>1
      <4>3. QED
        BY <4>1, <4>2 DEF BeatsBefore, Placed
    <3>2. BeatsBefore(sig, p) * S >= 0
      <4>1. BeatsBefore(sig, p) \in Int
        BY TicksCount DEF Placed
      <4>2. QED
        BY <1>1, <3>1, <4>1
    <3>3. QED
      BY <1>2, <3>2 DEF Placed
  <2>3. ~((a * T) + tick < 0) /\ (a * T) + tick \in Int
    BY <1>2, <1>3, <1>6, <1>8, <1>9, <2>2
  <2>4. q = [p EXCEPT !.ticks = rest] /\ rest \in Nat
    BY <1>1, <1>3, <1>4, <1>9, <2>1
  <2>5. /\ q \in [bars : Nat \ {0}, beats : Nat \ {0}, sixteenths : Nat \ {0}, ticks : Nat]
        /\ q.bars = p.bars /\ q.beats = p.beats /\ q.sixteenths = p.sixteenths /\ q.ticks = rest
    BY <2>4 DEF Placed
  <2>6. SixteenthsBefore(sig, q) = a
    BY <2>5 DEF SixteenthsBefore, BeatsBefore, a
  <2>7. Ticks(sig, q) = (a * T) + tick
    BY <2>1, <2>5, <2>6, TicksCount DEF T
  <2>8. q.ticks < T
    BY <1>1, <1>3, <2>5
  <2>9. Placed(q)
    BY <2>5 DEF Placed
  <2>10. QED
    BY <2>3, <2>5, <2>7, <2>8, <2>9 DEF q, T, a
<1>10. CASE carry # 0
  <2>1. CASE a + carry < 0
    <3>1. q = position_init
      BY <1>4, <1>10, <2>1
    <3>2. (a * T) + tick < 0 /\ (a * T) + tick \in Int
      BY <1>3, <1>6, <1>8, <2>1
    <3>3. QED
      BY <3>1, <3>2 DEF q, T, a
  <2>2. CASE ~(a + carry < 0)
    <3>1. a + carry >= 0
      BY <1>2, <1>3, <2>2
    <3>2. q = [r EXCEPT !.ticks = rest] /\ rest \in Nat
      BY <1>1, <1>3, <1>4, <1>10, <2>2
    <3>3. /\ q \in [bars : Nat \ {0}, beats : Nat \ {0}, sixteenths : Nat \ {0}, ticks : Nat]
          /\ q.bars = r.bars /\ q.beats = r.beats /\ q.sixteenths = r.sixteenths /\ q.ticks = rest
      BY <1>5, <3>1, <3>2 DEF Placed
    <3>4. SixteenthsBefore(sig, q) = a + carry
      BY <1>5, <3>1, <3>3 DEF SixteenthsBefore, BeatsBefore
    <3>5. Ticks(sig, q) = (a * T) + tick
      BY <1>7, <3>3, <3>4, TicksCount DEF T
    <3>6. q.ticks < T
      BY <1>1, <1>3, <3>3
    <3>7. ~((a * T) + tick < 0)
      BY <1>8, <2>2
    <3>8. Placed(q)
      BY <3>3 DEF Placed
    <3>9. QED
      BY <1>5, <3>1, <3>3, <3>5, <3>6, <3>7, <3>8 DEF q, T, a, S
  <2>3. QED
    BY <2>1, <2>2
<1>11. QED
  BY <1>9, <1>10

\* The start of the song fits every signature.
LEMMA StartFits ==
  ASSUME NEW sig \in Signatures
  PROVE  Fitting(sig, position_init) /\ Ticks(sig, position_init) = 0
<1>1. sig.top \in Nat \ {0} /\ SixteenthsPerBeat(sig) \in Nat \ {0} /\ TicksPerSixteenth \in Nat \ {0}
  BY SignatureParts
<1>2. /\ position_init \in [bars : Nat \ {0}, beats : Nat \ {0}, sixteenths : Nat \ {0}, ticks : Nat]
      /\ position_init.bars = 1 /\ position_init.beats = 1 /\ position_init.sixteenths = 1
      /\ position_init.ticks = 0
  BY DEF position_init, Bar, Pos
<1>3. SixteenthsBefore(sig, position_init) = 0
  BY <1>1, <1>2 DEF SixteenthsBefore, BeatsBefore
<1>4. Ticks(sig, position_init) = 0
  BY <1>1, <1>2, <1>3, TicksCount
<1>5. QED
  BY <1>1, <1>2, <1>4 DEF Fitting, Placed

\* Adding ticks to a position, forwards or backwards, through any number of
\* sixteenths, beats and bars, gives the position that is so many ticks later, in its
\* normal form, and never one before the start (position_add_ticks of position.c, on
\* which moves of regions and points rest).
THEOREM AddTicksAdds ==
  \A sig \in Signatures : \A p, n : Fitting(sig, p) /\ n \in Int =>
    LET later == Ticks(sig, p) + n
        q == AddTicks(sig, p, n)
    IN  Fitting(sig, q) /\ Ticks(sig, q) = IF later < 0 THEN 0 ELSE later
<1> SUFFICES ASSUME NEW sig \in Signatures, NEW p, NEW n, Fitting(sig, p), n \in Int
             PROVE  LET later == Ticks(sig, p) + n
                        q == AddTicks(sig, p, n)
                    IN  Fitting(sig, q) /\ Ticks(sig, q) = IF later < 0 THEN 0 ELSE later
  OBVIOUS
<1> DEFINE tick == p.ticks + n
           q == SetTick(sig, p, tick)
           total == (SixteenthsBefore(sig, p) * TicksPerSixteenth) + tick
           later == Ticks(sig, p) + n
<1>1. Placed(p) /\ tick \in Int /\ p.beats <= sig.top /\ p.sixteenths <= SixteenthsPerBeat(sig)
  BY DEF Fitting, Placed
<1>2. total = later /\ total \in Int
  <2>1. p.bars \in Int /\ p.beats \in Int /\ p.sixteenths \in Int /\ p.ticks \in Int
    BY DEF Fitting, Placed
  <2> DEFINE whole == SixteenthsBefore(sig, p) * TicksPerSixteenth
  <2>2. Ticks(sig, p) = whole + p.ticks /\ SixteenthsBefore(sig, p) \in Int
    BY <2>1, TicksCount
  <2>3. whole \in Int
    BY <2>2, SignatureParts
  <2> HIDE DEF whole
  <2>4. whole + tick = later /\ whole + tick \in Int
    BY <2>1, <2>2, <2>3
  <2>5. QED
    BY <2>4 DEF whole
<1>3. AddTicks(sig, p, n) = q
  BY DEF AddTicks
<1>4. /\ total < 0 => q = position_init
      /\ total >= 0 =>
           /\ Placed(q) /\ q.ticks < TicksPerSixteenth /\ Ticks(sig, q) = total
           /\ p.beats <= sig.top => q.beats <= sig.top
           /\ p.sixteenths <= SixteenthsPerBeat(sig) => q.sixteenths <= SixteenthsPerBeat(sig)
  <2> HIDE DEF tick
  <2>1. QED
    BY <1>1, SetTickKeeps
<1> HIDE DEF q, total, later, tick
<1>5. CASE total < 0
  BY <1>2, <1>3, <1>4, <1>5, StartFits DEF q, later
<1>6. CASE total >= 0
  <2>1. Fitting(sig, q)
    BY <1>1, <1>4, <1>6 DEF Fitting
  <2>2. ~(later < 0)
    BY <1>2, <1>6
  <2>3. QED
    BY <1>2, <1>3, <1>4, <1>6, <2>1, <2>2 DEF q, later
<1>7. QED
  BY <1>2, <1>5, <1>6

\* Setting a position from another one brings the parts into the time signature that
\* holds now, and leaves the time where it was (position_set_to_pos of position.c, which
\* snapping runs on positions of an earlier signature).
THEOREM SetToPosNormalises ==
  \A sig \in Signatures : \A p : Placed(p) =>
    Fitting(sig, SetToPos(sig, p)) /\ Ticks(sig, SetToPos(sig, p)) = Ticks(sig, p)
<1> SUFFICES ASSUME NEW sig \in Signatures, NEW p, Placed(p)
             PROVE  /\ Fitting(sig, SetToPos(sig, p))
                    /\ Ticks(sig, SetToPos(sig, p)) = Ticks(sig, p)
  OBVIOUS
<1> DEFINE bar == SetBar(position_init, p.bars)
           beat == SetBeat(sig, bar, p.beats)
           sixteenth == SetSixteenth(sig, beat, p.sixteenths)
           tick == SetTick(sig, sixteenth, p.ticks)
           S == SixteenthsPerBeat(sig)
           total == (SixteenthsBefore(sig, sixteenth) * TicksPerSixteenth) + p.ticks
<1>1. /\ p.bars \in Nat \ {0} /\ p.beats \in Nat \ {0}
      /\ p.sixteenths \in Nat \ {0} /\ p.ticks \in Nat
  BY DEF Placed
<1>2. sig.top \in Nat \ {0} /\ S \in Nat \ {0} /\ TicksPerSixteenth \in Nat \ {0}
  BY SignatureParts
<1>3. Placed(bar) /\ bar.bars = p.bars
  BY <1>1 DEF SetBar, position_init, Bar, Pos, Placed
<1>4. SetToPos(sig, p) = tick
  BY DEF SetToPos
<1> HIDE DEF bar, beat, sixteenth, tick, S, total
<1>5. BeatsBefore(sig, p) = ((p.bars - 1) * sig.top) + p.beats - 1 /\ BeatsBefore(sig, p) \in Nat
  <2>1. p.bars - 1 \in Nat /\ p.beats - 1 \in Nat
    BY <1>1
  <2>2. (p.bars - 1) * sig.top \in Nat
    BY <1>2, <2>1
  <2>3. QED
    BY <1>1, <2>1, <2>2 DEF BeatsBefore
<1>6. Placed(beat) /\ beat.beats <= sig.top /\ BeatsBefore(sig, beat) = BeatsBefore(sig, p)
  <2>1. ((bar.bars - 1) * sig.top) + p.beats - 1 = BeatsBefore(sig, p)
    BY <1>3, <1>5
  <2>2. p.beats \in Int /\ ((bar.bars - 1) * sig.top) + p.beats - 1 >= 0
    BY <1>1, <1>5, <2>1
  <2>3. QED
    BY <1>3, <2>1, <2>2, SetBeatKeeps DEF beat
<1>7. SixteenthsBefore(sig, p) = (BeatsBefore(sig, p) * S) + p.sixteenths - 1 /\ SixteenthsBefore(sig, p) \in Nat
  <2>1. SixteenthsBefore(sig, p) = (BeatsBefore(sig, p) * S) + p.sixteenths - 1
    BY DEF SixteenthsBefore, S
  <2>2. BeatsBefore(sig, p) * S \in Nat
    BY <1>2, <1>5
  <2>3. QED
    BY <1>1, <2>1, <2>2
<1>8. /\ Placed(sixteenth) /\ sixteenth.sixteenths <= S /\ sixteenth.beats <= sig.top
      /\ SixteenthsBefore(sig, sixteenth) = SixteenthsBefore(sig, p)
  <2>1. p.sixteenths \in Int /\ (BeatsBefore(sig, beat) * SixteenthsPerBeat(sig)) + p.sixteenths - 1 >= 0
    BY <1>1, <1>6, <1>7 DEF S
  <2>2. /\ Placed(sixteenth) /\ sixteenth.sixteenths <= SixteenthsPerBeat(sig)
        /\ beat.beats <= sig.top => sixteenth.beats <= sig.top
        /\ SixteenthsBefore(sig, sixteenth) =
             (BeatsBefore(sig, beat) * SixteenthsPerBeat(sig)) + p.sixteenths - 1
    BY <1>6, <2>1, SetSixteenthKeeps DEF sixteenth
  <2>3. QED
    BY <1>6, <1>7, <2>2 DEF S
<1>9. total = Ticks(sig, p) /\ total \in Nat
  <2>1. Ticks(sig, p) = (SixteenthsBefore(sig, p) * TicksPerSixteenth) + p.ticks
    BY <1>1, TicksCount
  <2>2. SixteenthsBefore(sig, p) * TicksPerSixteenth \in Nat
    BY <1>2, <1>7
  <2>3. total = (SixteenthsBefore(sig, p) * TicksPerSixteenth) + p.ticks
    BY <1>8 DEF total
  <2>4. QED
    BY <1>1, <2>1, <2>2, <2>3
<1>10. total >= 0 =>
         /\ Placed(tick) /\ tick.ticks < TicksPerSixteenth /\ Ticks(sig, tick) = total
         /\ sixteenth.beats <= sig.top => tick.beats <= sig.top
         /\ sixteenth.sixteenths <= SixteenthsPerBeat(sig) => tick.sixteenths <= SixteenthsPerBeat(sig)
  <2>1. p.ticks \in Int
    BY <1>1
  <2>2. QED
    BY <1>8, <2>1, SetTickKeeps DEF tick, total
<1>11. QED
  BY <1>4, <1>8, <1>9, <1>10 DEF Fitting, S

\* Of two numbers, each of so many wholes and a rest below the whole, the one with fewer
\* wholes is less.
LEMMA PartsOrder ==
  ASSUME NEW d \in Nat \ {0}, NEW a \in Int, NEW b \in Int, NEW r \in 0..(d - 1), NEW s \in 0..(d - 1)
  PROVE  (a * d) + r < (b * d) + s <=> a < b \/ (a = b /\ r < s)
<1>1. ASSUME NEW m \in Int, NEW n \in Int, NEW t \in 0..(d - 1), NEW u \in 0..(d - 1), m < n
      PROVE  (m * d) + t < (n * d) + u
  <2>1. n - m - 1 \in Nat /\ (n - m - 1) * d \in Nat
    BY <1>1
  <2>2. (n - m - 1) * d = (n * d) - (m * d) - d /\ n * d \in Int /\ m * d \in Int
    OBVIOUS
  <2>3. QED
    BY <2>1, <2>2
<1>2. a * d \in Int /\ b * d \in Int
  OBVIOUS
<1>3. CASE a < b
  BY <1>1, <1>3
<1>4. CASE b < a
  <2>1. (b * d) + s < (a * d) + r
    BY <1>1, <1>4
  <2>2. QED
    BY <1>2, <1>4, <2>1
<1>5. CASE a = b
  BY <1>2, <1>5
<1>6. QED
  BY <1>3, <1>4, <1>5

\* The time of a position that fits is a number of ticks.
LEMMA TicksInt ==
  ASSUME NEW sig \in Signatures, NEW p, Fitting(sig, p)
  PROVE  Ticks(sig, p) \in Int
<1>1. p.bars \in Int /\ p.beats \in Int /\ p.sixteenths \in Int /\ p.ticks \in Int
  BY DEF Fitting, Placed
<1>2. SixteenthsBefore(sig, p) \in Int /\ TicksPerSixteenth \in Int
  BY <1>1, TicksCount, SignatureParts
<1>3. SixteenthsBefore(sig, p) * TicksPerSixteenth \in Int
  BY <1>2
<1>4. QED
  BY <1>1, <1>3, TicksCount

\* What position_compare reads, part by part, is the order of the time the positions
\* stand for, as long as both fit the time signature.
THEOREM BeforeIsEarlier ==
  \A sig \in Signatures : \A p, q : Fitting(sig, p) /\ Fitting(sig, q) =>
    /\ Before(p, q) <=> Ticks(sig, p) < Ticks(sig, q)
    /\ p = q <=> Ticks(sig, p) = Ticks(sig, q)
<1> DEFINE S(sig) == SixteenthsPerBeat(sig)
           T == TicksPerSixteenth
<1>1. ASSUME NEW sig \in Signatures, NEW p, Fitting(sig, p)
      PROVE  /\ p \in [bars : Nat \ {0}, beats : Nat \ {0}, sixteenths : Nat \ {0}, ticks : Nat]
             /\ p.beats - 1 \in 0..(sig.top - 1) /\ p.sixteenths - 1 \in 0..(S(sig) - 1)
             /\ p.ticks \in 0..(T - 1)
             /\ BeatsBefore(sig, p) = ((p.bars - 1) * sig.top) + (p.beats - 1)
             /\ SixteenthsBefore(sig, p) = (BeatsBefore(sig, p) * S(sig)) + (p.sixteenths - 1)
             /\ Ticks(sig, p) = (SixteenthsBefore(sig, p) * T) + p.ticks
             /\ BeatsBefore(sig, p) \in Int /\ SixteenthsBefore(sig, p) \in Int
  <2>1. /\ p \in [bars : Nat \ {0}, beats : Nat \ {0}, sixteenths : Nat \ {0}, ticks : Nat]
        /\ p.beats <= sig.top /\ p.sixteenths <= S(sig) /\ p.ticks < T
    BY <1>1 DEF Fitting, Placed
  <2>2. sig.top \in Nat \ {0} /\ S(sig) \in Nat \ {0} /\ T \in Nat \ {0}
    BY SignatureParts
  <2>3. /\ Ticks(sig, p) = (SixteenthsBefore(sig, p) * T) + p.ticks
        /\ BeatsBefore(sig, p) \in Int /\ SixteenthsBefore(sig, p) \in Int
    <3>1. p.bars \in Int /\ p.beats \in Int /\ p.sixteenths \in Int /\ p.ticks \in Int
      BY <2>1
    <3>2. QED
      BY <3>1, TicksCount
  <2>4. BeatsBefore(sig, p) = ((p.bars - 1) * sig.top) + p.beats - 1
    BY DEF BeatsBefore
  <2>5. SixteenthsBefore(sig, p) = (BeatsBefore(sig, p) * S(sig)) + p.sixteenths - 1
    BY DEF SixteenthsBefore
  <2> HIDE DEF S, T
  <2>6. (p.bars - 1) * sig.top \in Int /\ BeatsBefore(sig, p) * S(sig) \in Int
    BY <2>1, <2>2, <2>3
  <2>7. BeatsBefore(sig, p) = ((p.bars - 1) * sig.top) + (p.beats - 1)
    BY <2>1, <2>4, <2>6
  <2>8. SixteenthsBefore(sig, p) = (BeatsBefore(sig, p) * S(sig)) + (p.sixteenths - 1)
    BY <2>1, <2>5, <2>6
  <2>9. /\ p.beats - 1 \in 0..(sig.top - 1) /\ p.sixteenths - 1 \in 0..(S(sig) - 1)
        /\ p.ticks \in 0..(T - 1)
    BY <2>1, <2>2
  <2>10. QED
    BY <2>1, <2>3, <2>7, <2>8, <2>9
<1>2. ASSUME NEW sig \in Signatures, NEW p, NEW q, Fitting(sig, p), Fitting(sig, q)
      PROVE  Ticks(sig, p) < Ticks(sig, q) <=> Before(p, q)
  <2>1. sig.top \in Nat \ {0} /\ S(sig) \in Nat \ {0} /\ T \in Nat \ {0}
    BY SignatureParts
  <2> HIDE DEF S, T
  <2>a. /\ p.bars - 1 \in Int /\ p.beats - 1 \in 0..(sig.top - 1)
        /\ p.sixteenths - 1 \in 0..(S(sig) - 1) /\ p.ticks \in 0..(T - 1)
        /\ BeatsBefore(sig, p) = ((p.bars - 1) * sig.top) + (p.beats - 1)
        /\ SixteenthsBefore(sig, p) = (BeatsBefore(sig, p) * S(sig)) + (p.sixteenths - 1)
        /\ Ticks(sig, p) = (SixteenthsBefore(sig, p) * T) + p.ticks
        /\ BeatsBefore(sig, p) \in Int /\ SixteenthsBefore(sig, p) \in Int
    BY <1>1, <1>2
  <2>b. /\ q.bars - 1 \in Int /\ q.beats - 1 \in 0..(sig.top - 1)
        /\ q.sixteenths - 1 \in 0..(S(sig) - 1) /\ q.ticks \in 0..(T - 1)
        /\ BeatsBefore(sig, q) = ((q.bars - 1) * sig.top) + (q.beats - 1)
        /\ SixteenthsBefore(sig, q) = (BeatsBefore(sig, q) * S(sig)) + (q.sixteenths - 1)
        /\ Ticks(sig, q) = (SixteenthsBefore(sig, q) * T) + q.ticks
        /\ BeatsBefore(sig, q) \in Int /\ SixteenthsBefore(sig, q) \in Int
    BY <1>1, <1>2
  <2>2. Ticks(sig, p) < Ticks(sig, q) <=>
          \/ SixteenthsBefore(sig, p) < SixteenthsBefore(sig, q)
          \/ SixteenthsBefore(sig, p) = SixteenthsBefore(sig, q) /\ p.ticks < q.ticks
    <3> DEFINE a == SixteenthsBefore(sig, p)
               b == SixteenthsBefore(sig, q)
               r == p.ticks
               s == q.ticks
               d == T
    <3>1. a \in Int /\ b \in Int /\ r \in 0..(d - 1) /\ s \in 0..(d - 1) /\ d \in Nat \ {0}
      BY <2>1, <2>a, <2>b
    <3> HIDE DEF a, b, r, s, d
    <3>2. (a * d) + r < (b * d) + s <=> a < b \/ (a = b /\ r < s)
      BY <3>1, PartsOrder
    <3>3. QED
      BY <3>2, <2>a, <2>b DEF a, b, r, s, d
  <2>3. SixteenthsBefore(sig, p) < SixteenthsBefore(sig, q) <=>
          \/ BeatsBefore(sig, p) < BeatsBefore(sig, q)
          \/ BeatsBefore(sig, p) = BeatsBefore(sig, q) /\ p.sixteenths - 1 < q.sixteenths - 1
    <3> DEFINE a == BeatsBefore(sig, p)
               b == BeatsBefore(sig, q)
               r == p.sixteenths - 1
               s == q.sixteenths - 1
               d == S(sig)
    <3>1. a \in Int /\ b \in Int /\ r \in 0..(d - 1) /\ s \in 0..(d - 1) /\ d \in Nat \ {0}
      BY <2>1, <2>a, <2>b
    <3> HIDE DEF a, b, r, s, d
    <3>2. (a * d) + r < (b * d) + s <=> a < b \/ (a = b /\ r < s)
      BY <3>1, PartsOrder
    <3>3. QED
      BY <3>2, <2>a, <2>b DEF a, b, r, s, d
  <2>4. SixteenthsBefore(sig, q) < SixteenthsBefore(sig, p) <=>
          \/ BeatsBefore(sig, q) < BeatsBefore(sig, p)
          \/ BeatsBefore(sig, q) = BeatsBefore(sig, p) /\ q.sixteenths - 1 < p.sixteenths - 1
    <3> DEFINE a == BeatsBefore(sig, q)
               b == BeatsBefore(sig, p)
               r == q.sixteenths - 1
               s == p.sixteenths - 1
               d == S(sig)
    <3>1. a \in Int /\ b \in Int /\ r \in 0..(d - 1) /\ s \in 0..(d - 1) /\ d \in Nat \ {0}
      BY <2>1, <2>a, <2>b
    <3> HIDE DEF a, b, r, s, d
    <3>2. (a * d) + r < (b * d) + s <=> a < b \/ (a = b /\ r < s)
      BY <3>1, PartsOrder
    <3>3. QED
      BY <3>2, <2>a, <2>b DEF a, b, r, s, d
  <2>5. BeatsBefore(sig, p) < BeatsBefore(sig, q) <=>
          \/ p.bars - 1 < q.bars - 1
          \/ p.bars - 1 = q.bars - 1 /\ p.beats - 1 < q.beats - 1
    <3> DEFINE a == p.bars - 1
               b == q.bars - 1
               r == p.beats - 1
               s == q.beats - 1
               d == sig.top
    <3>1. a \in Int /\ b \in Int /\ r \in 0..(d - 1) /\ s \in 0..(d - 1) /\ d \in Nat \ {0}
      BY <2>1, <2>a, <2>b
    <3> HIDE DEF a, b, r, s, d
    <3>2. (a * d) + r < (b * d) + s <=> a < b \/ (a = b /\ r < s)
      BY <3>1, PartsOrder
    <3>3. QED
      BY <3>2, <2>a, <2>b DEF a, b, r, s, d
  <2>6. BeatsBefore(sig, q) < BeatsBefore(sig, p) <=>
          \/ q.bars - 1 < p.bars - 1
          \/ q.bars - 1 = p.bars - 1 /\ q.beats - 1 < p.beats - 1
    <3> DEFINE a == q.bars - 1
               b == p.bars - 1
               r == q.beats - 1
               s == p.beats - 1
               d == sig.top
    <3>1. a \in Int /\ b \in Int /\ r \in 0..(d - 1) /\ s \in 0..(d - 1) /\ d \in Nat \ {0}
      BY <2>1, <2>a, <2>b
    <3> HIDE DEF a, b, r, s, d
    <3>2. (a * d) + r < (b * d) + s <=> a < b \/ (a = b /\ r < s)
      BY <3>1, PartsOrder
    <3>3. QED
      BY <3>2, <2>a, <2>b DEF a, b, r, s, d
  <2>7. [p EXCEPT !.ticks = 0] = [q EXCEPT !.ticks = 0] <=>
          p.bars = q.bars /\ p.beats = q.beats /\ p.sixteenths = q.sixteenths
    BY <1>1, <1>2
  <2>8. /\ p.bars \in Int /\ p.beats \in Int /\ p.sixteenths \in Int /\ p.ticks \in Int
        /\ q.bars \in Int /\ q.beats \in Int /\ q.sixteenths \in Int /\ q.ticks \in Int
        /\ BeatsBefore(sig, p) \in Int /\ SixteenthsBefore(sig, p) \in Int
        /\ BeatsBefore(sig, q) \in Int /\ SixteenthsBefore(sig, q) \in Int
    BY <1>1, <1>2
  <2>9. Before(p, q) <=>
          \/ p.bars < q.bars
          \/ p.bars = q.bars /\ p.beats < q.beats
          \/ p.bars = q.bars /\ p.beats = q.beats /\ p.sixteenths < q.sixteenths
          \/ p.bars = q.bars /\ p.beats = q.beats /\ p.sixteenths = q.sixteenths /\ p.ticks < q.ticks
    BY <2>7 DEF Before
  <2>10. BeatsBefore(sig, p) = BeatsBefore(sig, q) <=> p.bars = q.bars /\ p.beats = q.beats
    BY <2>5, <2>6, <2>8
  <2>11. SixteenthsBefore(sig, p) = SixteenthsBefore(sig, q) <=>
           p.bars = q.bars /\ p.beats = q.beats /\ p.sixteenths = q.sixteenths
    BY <2>3, <2>4, <2>8, <2>10
  <2>12. QED
    BY <2>2, <2>3, <2>5, <2>8, <2>9, <2>10, <2>11
<1>3. ASSUME NEW sig \in Signatures, NEW p, NEW q, Fitting(sig, p), Fitting(sig, q)
      PROVE  Ticks(sig, p) = Ticks(sig, q) <=> p = q
  <2>1. Ticks(sig, p) \in Int /\ Ticks(sig, q) \in Int
    BY <1>3, TicksInt
  <2>2. ASSUME Ticks(sig, p) = Ticks(sig, q) PROVE p = q
    <3>1. ~Before(p, q) /\ ~Before(q, p)
      BY <1>2, <1>3, <2>1, <2>2
    <3>2. /\ p \in [bars : Nat \ {0}, beats : Nat \ {0}, sixteenths : Nat \ {0}, ticks : Nat]
          /\ q \in [bars : Nat \ {0}, beats : Nat \ {0}, sixteenths : Nat \ {0}, ticks : Nat]
      BY <1>1, <1>3
    <3>3. p.bars = q.bars /\ p.beats = q.beats /\ p.sixteenths = q.sixteenths
      BY <3>1, <3>2 DEF Before
    <3>4. [p EXCEPT !.ticks = 0] = [q EXCEPT !.ticks = 0] /\ [q EXCEPT !.ticks = 0] = [p EXCEPT !.ticks = 0]
      BY <3>2, <3>3
    <3>5. p.ticks = q.ticks
      BY <3>1, <3>2, <3>4 DEF Before
    <3>6. QED
      BY <3>2, <3>3, <3>5
  <2>3. QED
    BY <2>2
<1>4. QED
  BY <1>2, <1>3

\* Two positions moved by the same number of ticks never change places: at most the
\* start of the song holds both (position_add_ticks of position.c; move_items_x of
\* timeline_arranger.c moves every selected point by one difference).
THEOREM AddTicksKeepsOrder ==
  \A sig \in Signatures : \A p, q, n : Fitting(sig, p) /\ Fitting(sig, q) /\ n \in Int /\ Before(p, q) =>
    NotAfter(AddTicks(sig, p, n), AddTicks(sig, q, n))
<1> SUFFICES ASSUME NEW sig \in Signatures, NEW p, NEW q, NEW n,
                    Fitting(sig, p), Fitting(sig, q), n \in Int, Before(p, q)
             PROVE  NotAfter(AddTicks(sig, p, n), AddTicks(sig, q, n))
  OBVIOUS
<1> DEFINE a == AddTicks(sig, p, n)
           b == AddTicks(sig, q, n)
<1>1. Fitting(sig, a) /\ Ticks(sig, a) = IF Ticks(sig, p) + n < 0 THEN 0 ELSE Ticks(sig, p) + n
  BY AddTicksAdds
<1>2. Fitting(sig, b) /\ Ticks(sig, b) = IF Ticks(sig, q) + n < 0 THEN 0 ELSE Ticks(sig, q) + n
  BY AddTicksAdds
<1>3. Ticks(sig, p) < Ticks(sig, q)
  BY BeforeIsEarlier
<1>4. Ticks(sig, p) \in Int /\ Ticks(sig, q) \in Int
  BY TicksInt
<1> HIDE DEF a, b
<1>5. Ticks(sig, a) < Ticks(sig, b) \/ Ticks(sig, a) = Ticks(sig, b)
  BY <1>1, <1>2, <1>3, <1>4
<1>6. Before(a, b) \/ a = b
  BY <1>1, <1>2, <1>5, BeforeIsEarlier
<1>7. QED
  BY <1>6 DEF NotAfter, a, b

\* A region whose start and end are both set from the old start, moved by a difference
\* and by that and the length, has the length it had, unless the start would come before
\* the start of the song (move_items_x of timeline_arranger.c; the old start may be of an
\* earlier time signature).
THEOREM MovedRegionKeepsLength ==
  \A sig \in Signatures : \A p, diff, length :
    LET from == SetToPos(sig, p)
        start == SetToPos(sig, AddTicks(sig, from, diff))
        end == SetToPos(sig, AddTicks(sig, from, diff + length))
    IN  Placed(p) /\ diff \in Int /\ length \in Nat /\ Ticks(sig, p) + diff >= 0 =>
          Ticks(sig, end) - Ticks(sig, start) = length
<1> SUFFICES ASSUME NEW sig \in Signatures, NEW p, NEW diff, NEW length,
                    Placed(p), diff \in Int, length \in Nat, Ticks(sig, p) + diff >= 0
             PROVE  Ticks(sig, SetToPos(sig, AddTicks(sig, SetToPos(sig, p), diff + length)))
                      - Ticks(sig, SetToPos(sig, AddTicks(sig, SetToPos(sig, p), diff))) = length
  OBVIOUS
<1> DEFINE from == SetToPos(sig, p)
           t == Ticks(sig, from)
<1>1. Fitting(sig, from) /\ t = Ticks(sig, p)
  BY SetToPosNormalises
<1>2. t \in Int
  BY <1>1, TicksInt
<1>3. ASSUME NEW n \in Int, t + n >= 0
      PROVE  Ticks(sig, SetToPos(sig, AddTicks(sig, from, n))) = t + n
  <2>1. /\ Fitting(sig, AddTicks(sig, from, n))
        /\ Ticks(sig, AddTicks(sig, from, n)) = IF t + n < 0 THEN 0 ELSE t + n
    BY <1>1, AddTicksAdds
  <2>2. Placed(AddTicks(sig, from, n))
    BY <2>1 DEF Fitting
  <2>3. Ticks(sig, SetToPos(sig, AddTicks(sig, from, n))) = Ticks(sig, AddTicks(sig, from, n))
    BY <2>2, SetToPosNormalises
  <2> HIDE DEF from, t
  <2>4. ~(t + n < 0)
    BY <1>2, <1>3
  <2>5. QED
    BY <2>1, <2>3, <2>4
<1> HIDE DEF t, from
<1>4. diff + length \in Int /\ t + diff >= 0 /\ t + (diff + length) >= 0
  BY <1>1, <1>2
<1>5. Ticks(sig, SetToPos(sig, AddTicks(sig, from, diff + length))) = t + (diff + length)
  BY <1>3, <1>4
<1>6. Ticks(sig, SetToPos(sig, AddTicks(sig, from, diff))) = t + diff
  BY <1>3, <1>4
<1>7. (t + (diff + length)) - (t + diff) = length
  BY <1>2
<1>8. QED
  BY <1>5, <1>6, <1>7 DEF from
=============================================================================
