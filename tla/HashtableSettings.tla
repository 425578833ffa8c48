-------------------------- MODULE HashtableSettings --------------------------
(***************************************************************************)
(* The resizing policy shared by dense_hashtable and sparse_hashtable:     *)
(* class sh_hashtable_settings of internal/hashtable-common.h.  A          *)
(* settings value is a record; the operators below are the class's         *)
(* methods.  The two load factors, floats in the code, are whole           *)
(* percentages here: x * factor, truncated to size_type, becomes an        *)
(* integer division by 100.                                                *)
(***************************************************************************)
EXTENDS Integers, FiniteSets, FiniteSetsExt

CONSTANTS
  SizeMax,                     \* the largest size_type value
  HT_MIN_BUCKETS,              \* no table is ever smaller than this
  HT_DEFAULT_STARTING_BUCKETS  \* and a default-constructed one has this size

\* A power of two has no odd divisor but one.
IsPowerOfTwo(n) == n > 0 /\ \A d \in 2 .. n : n % d = 0 => d % 2 = 0

ASSUME SizesAssumption ==
  /\ SizeMax \in Nat
  /\ HT_MIN_BUCKETS \in 4 .. SizeMax /\ IsPowerOfTwo(HT_MIN_BUCKETS)
  /\ HT_DEFAULT_STARTING_BUCKETS \in HT_MIN_BUCKETS .. SizeMax
  /\ IsPowerOfTwo(HT_DEFAULT_STARTING_BUCKETS)

\* The sizes a table can have: HT_MIN_BUCKETS doubled until size_type is full.
BucketCounts == {n \in HT_MIN_BUCKETS .. SizeMax : IsPowerOfTwo(n)}

(* A pair of load factors: shrink below the first, grow above the second.  *)
Percent == 0 .. 100

Settings ==
  [ enlarge_threshold : Nat,
    shrink_threshold  : Nat,
    enlarge_factor    : Percent,
    shrink_factor     : Percent,
    consider_shrink   : BOOLEAN,
    use_empty         : BOOLEAN,
    use_deleted       : BOOLEAN ]

-----------------------------------------------------------------------------

\* A load of x buckets at which the table grows, and below which it shrinks.
enlarge_size(s, x) == (x * s.enlarge_factor) \div 100
shrink_size(s, x)  == (x * s.shrink_factor) \div 100

reset_thresholds(s, num_buckets) ==
  [s EXCEPT !.enlarge_threshold = enlarge_size(s, num_buckets),
            !.shrink_threshold  = shrink_size(s, num_buckets),
            !.consider_shrink   = FALSE]

\* The shrink factor is cut to half the grow factor, the one just passed in:
\* "otherwise we thrash hashtable size".
set_resizing_parameters(s, shrink, grow) ==
  [s EXCEPT !.shrink_factor  = IF 2 * shrink > grow THEN grow \div 2 ELSE shrink,
            !.enlarge_factor = grow]

new_settings(occupancy, empty) ==
  [ enlarge_threshold |-> 0, shrink_threshold |-> 0,
    enlarge_factor |-> occupancy, shrink_factor |-> empty,
    consider_shrink |-> FALSE, use_empty |-> FALSE, use_deleted |-> FALSE ]

(***************************************************************************)
(* min_buckets doubles a size from HT_MIN_BUCKETS until it is at least     *)
(* what is wanted and its load of num_elts is under the grow factor, and   *)
(* throws length_error when the next doubling would overflow size_type.    *)
(***************************************************************************)
\* Mutant: any bucket that is left is room.
roomy_sizes_to_the_brim(s, num_elts, wanted) ==
  {n \in BucketCounts : wanted <= n /\ num_elts < n}

roomy_sizes(s, num_elts, wanted) ==
  {n \in BucketCounts : wanted <= n /\ num_elts < enlarge_size(s, n)}

min_buckets_overflows(s, num_elts, wanted) == roomy_sizes(s, num_elts, wanted) = {}

min_buckets(s, num_elts, wanted) == Min(roomy_sizes(s, num_elts, wanted))

=============================================================================
