-------------------------------- MODULE Symap --------------------------------
(***************************************************************************)
(* The map between URIs and integer ids that a host shares with a plugin   *)
(* (lv2/symap.c): symbols in the order they were mapped, and an index      *)
(* that lists their ids in the order of the symbols.  A symbol is a number *)
(* here, strcmp the order of the numbers.                                  *)
(*                                                                         *)
(* An operator whose name ends in Mutant is a mistake one could make in    *)
(* the definition that follows it.                                         *)
(***************************************************************************)
EXTENDS Naturals, Sequences

SymapType(S) == [symbols : Seq(S), index : Seq(Nat)]

symap_new == [symbols |-> <<>>, index |-> <<>>]

SymapSize(map) == Len(map.symbols)

\* The symbol whose id is at a place of the index, places counted from 0.
SymbolAt(map, n) == map.symbols[map.index[n + 1]]

\* The binary search compares the lower half only up to its middle.
symap_searchMutant(map, sym) ==
  LET last == SymapSize(map) - 1
      Half[part \in (0..SymapSize(map)) \X (0..last)] ==
        LET lo == part[1]
            up == part[2]
            mid == lo + ((up - lo) \div 2)
        IN  IF up < lo THEN [at |-> lo, exact |-> FALSE]
            ELSE IF SymbolAt(map, mid) = sym THEN [at |-> mid, exact |-> TRUE]
            ELSE IF SymbolAt(map, mid) < sym THEN [at |-> mid, exact |-> FALSE]
            ELSE IF mid = 0 THEN [at |-> 0, exact |-> FALSE]
            ELSE Half[<<lo, mid - 1>>]
  IN  IF SymapSize(map) = 0 THEN [at |-> 0, exact |-> FALSE]
      ELSE Half[<<0, last>>]

\* Where the index holds sym, or where sym has to be inserted.  Half searches
\* between two places, both included.
symap_search(map, sym) ==
  LET last == SymapSize(map) - 1
      Half[part \in (0..SymapSize(map)) \X (0..last)] ==
        LET lo == part[1]
            up == part[2]
            mid == lo + ((up - lo) \div 2)
        IN  IF up < lo THEN [at |-> lo, exact |-> FALSE]
            ELSE IF SymbolAt(map, mid) = sym THEN [at |-> mid, exact |-> TRUE]
            ELSE IF SymbolAt(map, mid) < sym THEN Half[<<mid + 1, up>>]
            ELSE IF mid = 0 THEN [at |-> 0, exact |-> FALSE]
            ELSE Half[<<lo, mid - 1>>]
  IN  IF SymapSize(map) = 0 THEN [at |-> 0, exact |-> FALSE]
      ELSE IF SymbolAt(map, last) < sym THEN [at |-> SymapSize(map), exact |-> FALSE]
      ELSE Half[<<0, last>>]

\* The index makes room for a new id.
InsertedAt(index, at, id) ==
  [n \in 1..id |-> IF n <= at THEN index[n] ELSE IF n = at + 1 THEN id ELSE index[n - 1]]

\* The map behind symap_map, and the id it returns: a symbol that is new takes
\* the next id.
symap_map(map, sym) ==
  LET found == symap_search(map, sym)
      id == SymapSize(map) + 1
  IN  IF found.exact THEN [map |-> map, id |-> map.index[found.at + 1]]
      ELSE [map |-> [symbols |-> Append(map.symbols, sym),
                     index |-> InsertedAt(map.index, found.at, id)],
            id |-> id]

\* <<>> stands for NULL.
symap_unmap(map, id) == IF id \in 1..SymapSize(map) THEN <<map.symbols[id]>> ELSE <<>>

\* The index lists every id once, in the order of the symbols.
Sorted(map) ==
  /\ Len(map.index) = SymapSize(map)
  /\ \A m, n \in 1..SymapSize(map) :
       m < n => map.symbols[map.index[m]] < map.symbols[map.index[n]]
=============================================================================
