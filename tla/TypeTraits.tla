------------------------------ MODULE TypeTraits ------------------------------
(***************************************************************************)
(* sparsehash/type_traits.h: what the tables find out about their value    *)
(* types at compile time, with nothing but partial specialization.  A type *)
(* is a record: its form ("int", "pointer", "pair", "array", ...), its     *)
(* qualifiers and the types it is made of.                                 *)
(***************************************************************************)
EXTENDS Naturals, Sequences

CONSTANT Types  \* the types looked at, and all they are made of

IntegralForms == {"bool", "char", "wchar_t", "short", "int", "long"}
FloatingForms == {"float", "double"}

\* "struct" has the copy constructor and the destructor the compiler makes,
\* "class" has its own, "number" has its own and a conversion to int.
ClassForms == {"struct", "class", "number", "pair"}

\* Qualifying a type changes none of these.
is_integral(T)       == T.form \in IntegralForms
is_floating_point(T) == T.form \in FloatingForms
is_pointer(T)        == T.form = "pointer"
is_reference(T)      == T.form = "reference"
is_class_or_union(T) == T.form \in ClassForms

add_reference(T) ==
  IF is_reference(T) THEN T ELSE [form |-> "reference", cv |-> {}, of |-> <<T>>]

\* Whether the compiler converts what a reference refers to, to an int.
is_convertible_to_int(R) ==
  LET T == R.of[1]
  IN  is_integral(T) \/ is_floating_point(T) \/ T.form \in {"enum", "number"}

\* What is left over and converts to int is an enum.
\* Mutant: classes with a conversion to int are not sorted out first.
is_enum_careless(T) ==
  /\ ~ (T.form = "void" \/ is_integral(T) \/ is_floating_point(T) \/ is_reference(T))
  /\ is_convertible_to_int(add_reference(T))

is_enum(T) ==
  /\ ~ (\/ T.form = "void" \/ is_integral(T) \/ is_floating_point(T)
        \/ is_reference(T) \/ is_class_or_union(T))
  /\ is_convertible_to_int(add_reference(T))

is_pod(T) == is_integral(T) \/ is_floating_point(T) \/ is_enum(T) \/ is_pointer(T)

\* Pairs and arrays are as trivial as what they are made of, unless they are
\* volatile: no specialization matches then.
has_trivial_copy[T \in Types] ==
  IF T.form \in {"pair", "array"} /\ "volatile" \notin T.cv
  THEN \A i \in DOMAIN T.of : has_trivial_copy[T.of[i]]
  ELSE is_pod(T)

has_trivial_destructor[T \in Types] ==
  IF T.form \in {"pair", "array"} /\ "volatile" \notin T.cv
  THEN \A i \in DOMAIN T.of : has_trivial_destructor[T.of[i]]
  ELSE is_pod(T)

\* What the compiler knows and these traits only guess: bytes may be copied
\* for the object, and nothing has to be done when it goes.
TrulyTrivial[T \in Types] ==
  T.form \notin {"class", "number"} /\ \A i \in DOMAIN T.of : TrulyTrivial[T.of[i]]

=============================================================================
