---- MODULE BloomFilter ----
(* fc::bloom_filter and bloom_parameters (include/fc/bloom_filter.hpp): insertion, and union,
   intersection and difference of filters of one shape. The hash is any function of the element and
   the salt. *)
EXTENDS Naturals, FiniteSets

CONSTANTS Filters, Items,
          BitsPerChar,  \* bits_per_char: 8
          Seeds,        \* random_seed of bloom_parameters
          Hash,         \* hash_ap() of a seed, a salt and an element
          Hashes,       \* optimal_parameters.number_of_hashes
          Estimates,    \* the sizes compute_optimal_parameters() estimates
          Limits        \* minimum_size and maximum_size it may be given

ASSUME BfAssumption == /\ BitsPerChar \in Nat \ {0} /\ Hashes \in Nat \ {0}
                       /\ Estimates \subseteq Nat \ {0}
                       /\ \A l \in Limits : l[1] \in Nat \ {0} /\ l[2] \in Nat /\ l[1] <= l[2]
                       /\ \A s \in Seeds, k \in 1..Hashes, e \in Items : Hash[<<s, k, e>>] \in Nat

VARIABLES shape,    \* table_size_, raw_table_size_, random_seed_ of a filter
          bits,     \* the bits of bit_table_ that are set
          must      \* the elements that the operations so far have put into a filter

bfVars == <<shape, bits, must>>

\* compute_optimal_parameters(): rounded up to bytes, then kept within the limits.
OptimalSize(estimate, limits) ==
  LET rest == estimate % BitsPerChar
      whole == IF rest # 0 THEN estimate + BitsPerChar - rest ELSE estimate
  IN IF whole < limits[1] THEN limits[1] ELSE IF whole > limits[2] THEN limits[2] ELSE whole

Shapes == {[size |-> OptimalSize(e, l), bytes |-> OptimalSize(e, l) \div BitsPerChar, seed |-> s] :
             e \in Estimates, l \in Limits, s \in Seeds}

BfInit == /\ shape \in [Filters -> Shapes]
          /\ bits = [f \in Filters |-> {}] /\ must = [f \in Filters |-> {}]

\* compute_indices() for every salt.
Indices(sh, e) == {Hash[<<sh.seed, k, e>>] % sh.size : k \in 1..Hashes}

MayContain(f, e) == Indices(shape[f], e) \subseteq bits[f]

BfInsert(f, e) == /\ bits' = [bits EXCEPT ![f] = @ \cup Indices(shape[f], e)]
                  /\ must' = [must EXCEPT ![f] = @ \cup {e}] /\ UNCHANGED shape

BfClear(f) == /\ bits' = [bits EXCEPT ![f] = {}] /\ must' = [must EXCEPT ![f] = {}]
              /\ UNCHANGED shape

\* operator=: everything is copied.
BfAssign(f, g) == /\ f # g
                  /\ shape' = [shape EXCEPT ![f] = shape[g]] /\ bits' = [bits EXCEPT ![f] = bits[g]]
                  /\ must' = [must EXCEPT ![f] = must[g]]

\* Fault: filters of one size are taken for filters of one shape.
SameSize(f, g) == shape[f].size = shape[g].size

\* operator&=, |= and ^= do nothing to filters of different shapes.
SameShape(f, g) == shape[f] = shape[g]

Combine(f, g, bit_table, elements) ==
  /\ IF SameShape(f, g)
     THEN bits' = [bits EXCEPT ![f] = bit_table] /\ must' = [must EXCEPT ![f] = elements]
     ELSE UNCHANGED <<bits, must>>
  /\ UNCHANGED shape

BfUnion(f, g) == Combine(f, g, bits[f] \cup bits[g], must[f] \cup must[g])
BfIntersection(f, g) == Combine(f, g, bits[f] \cap bits[g], must[f] \cap must[g])

\* What is left of an exclusive or is no filter of anything.
BfDifference(f, g) == Combine(f, g, (bits[f] \ bits[g]) \cup (bits[g] \ bits[f]), {})

BfNext == \E f \in Filters :
    \/ \E e \in Items : BfInsert(f, e)
    \/ BfClear(f)
    \/ \E g \in Filters : BfAssign(f, g) \/ BfUnion(f, g) \/ BfIntersection(f, g) \/ BfDifference(f, g)

BfSpec == BfInit /\ [][BfNext]_bfVars
----
(* Properties. *)

\* A filter never denies an element put into it, or into what it was united with or copied from.
NoFalseNegative == \A f \in Filters : \A e \in must[f] : MayContain(f, e)

\* Every bit lies in a byte of the table, if the limits, applied after rounding, are whole bytes.
BitsInTable ==
  (\A l \in Limits : l[1] % BitsPerChar = 0 /\ l[2] % BitsPerChar = 0)
  => \A f \in Filters : \A b \in bits[f] : b \div BitsPerChar < shape[f].bytes

\* A filter finds what it should, within its table.
FiltersAreSound == NoFalseNegative /\ BitsInTable
====
