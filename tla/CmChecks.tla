------------------------------ MODULE CmChecks ------------------------------
(***************************************************************************)
(* The comparisons of cmocka: the check functions that are queued with     *)
(* expect_*() and run by check_expected(), and the assert_*() functions    *)
(* that share them.  A check is a kind and its data, a sequence: the value *)
(* itself, the bounds of the range, the members of the set, the bytes of   *)
(* the string or of the memory, or the width of a return code.  A checked  *)
(* value is a sequence as well: one number, or the bytes pointed to.       *)
(***************************************************************************)
EXTENDS Integers, FiniteSets, SequencesExt

Kinds == {"value", "not_value", "in_set", "not_in_set", "in_range",
          "not_in_range", "string", "not_string", "memory", "not_memory",
          "any", "return_code"}

NUL == 0

-----------------------------------------------------------------------------
values_equal(left, right) == left = right

\* The loop over the set inverts the answer at the first match and stops.
value_in_set(value, set, invert) ==
  IF \E i \in DOMAIN set : set[i] = value THEN ~ invert ELSE invert

\* Numbers are what a signed variable of up to 64 bits holds, and are cast to
\* LargestIntegralType before they are compared.  The type is unsigned: equal
\* numbers stay equal, and a negative number comes after all that are not.
AtMost(a, b) == IF (a < 0) = (b < 0) THEN a <= b ELSE b < 0

integer_in_range(value, minimum, maximum) ==
  AtMost(minimum, value) /\ AtMost(value, maximum)

integer_not_in_range(value, minimum, maximum) ==
  ~ AtMost(minimum, value) \/ ~ AtMost(value, maximum)

\* What strcmp() sees of an array: the bytes before the first NUL.
CString(bytes) ==
  LET end == CHOOSE n \in DOMAIN bytes :
               bytes[n] = NUL /\ \A m \in 1 .. n - 1 : bytes[m] # NUL
  IN  SubSeq(bytes, 1, end - 1)

string_equal(left, right) == CString(left) = CString(right)

memory_equal(a, b, size) == {i \in 1 .. size : a[i] # b[i]} = {}

memory_not_equal(a, b, size) == Cardinality({i \in 1 .. size : a[i] = b[i]}) # size

-----------------------------------------------------------------------------
\* One operator per family of check functions, chosen by the kind queued.

ValueCheck(c, v) ==
  \/ c.kind = "value" /\ values_equal(v[1], c.data[1])
  \/ c.kind = "not_value" /\ ~ values_equal(v[1], c.data[1])

AnyCheck(c) == c.kind = "any"

SetCheck(c, v) ==
  \/ c.kind = "in_set" /\ value_in_set(v[1], c.data, FALSE)
  \/ c.kind = "not_in_set" /\ value_in_set(v[1], c.data, TRUE)

RangeCheck(c, v) ==
  \/ c.kind = "in_range" /\ integer_in_range(v[1], c.data[1], c.data[2])
  \/ c.kind = "not_in_range" /\ integer_not_in_range(v[1], c.data[1], c.data[2])

StringCheck(c, v) ==
  \/ c.kind = "string" /\ string_equal(v, c.data)
  \/ c.kind = "not_string" /\ ~ string_equal(v, c.data)

MemoryCheck(c, v) ==
  \/ c.kind = "memory" /\ memory_equal(v, c.data, Len(c.data))
  \/ c.kind = "not_memory" /\ memory_not_equal(v, c.data, Len(c.data))

CheckPasses(c, v) ==
  \/ AnyCheck(c)
  \/ ValueCheck(c, v)
  \/ SetCheck(c, v)
  \/ RangeCheck(c, v)
  \/ StringCheck(c, v)
  \/ MemoryCheck(c, v)

\* A set and a memory area must not be empty: assert_true() on their size.
Queueable(c) ==
  c.kind \in {"in_set", "not_in_set", "memory", "not_memory"} => c.data # <<>>

\* A return code is cast to the widest unsigned type before it is compared
\* with the limit of its own width, so a negative one is above every limit.
ReturnLimit(width) ==
  CASE width = 1 -> 255
    [] width = 2 -> 32767
    [] width = 4 -> 2147483647
    [] OTHER     -> 32768 * 65536 * 65536 * 65536 - 1

ReturnCodeHolds(code, width) == code >= 0 /\ code <= ReturnLimit(width) - 1

AssertHolds(c, v) ==
  IF c.kind = "return_code" THEN ReturnCodeHolds(v[1], c.data[1])
                            ELSE CheckPasses(c, v)

-----------------------------------------------------------------------------
\* A value a test may give to a check: the check has the data of its kind, a
\* string ends, and an area has as many bytes as are compared.
Fits(c, v) ==
  /\ c.kind \in Kinds /\ c.data \in Seq(Int) /\ v \in Seq(Int) \ {<<>>}
  /\ c.kind \in {"value", "not_value", "return_code"} => Len(c.data) = 1
  /\ c.kind \in {"in_range", "not_in_range"} => Len(c.data) = 2
  /\ c.kind \in {"string", "not_string"} => NUL \in ToSet(c.data) /\ NUL \in ToSet(v)
  /\ c.kind \in {"memory", "not_memory"} => Len(c.data) <= Len(v)

\* What each kind means, said without the code: the reference.

SameUpToNul(a, b) ==
  \E n \in DOMAIN a \cap DOMAIN b :
    /\ a[n] = NUL /\ b[n] = NUL
    /\ \A m \in 1 .. n : a[m] = b[m]

Means(c, v) ==
  CASE c.kind = "value"        -> v[1] \in ToSet(c.data)
    [] c.kind = "not_value"    -> v[1] \notin ToSet(c.data)
    [] c.kind = "in_set"       -> v[1] \in ToSet(c.data)
    [] c.kind = "not_in_set"   -> v[1] \notin ToSet(c.data)
    [] c.kind = "in_range"     -> v[1] \in c.data[1] .. c.data[2]
    [] c.kind = "not_in_range" -> v[1] \notin c.data[1] .. c.data[2]
    [] c.kind = "string"       -> SameUpToNul(v, c.data)
    [] c.kind = "not_string"   -> ~ SameUpToNul(v, c.data)
    [] c.kind = "memory"       -> IsPrefix(c.data, v)
    [] c.kind = "not_memory"   -> ~ IsPrefix(c.data, v)
    [] c.kind = "any"          -> TRUE
    [] c.kind = "return_code"  -> v[1] >= 0

\* Where the code does not decide by the meaning of the kind: a range check
\* with numbers on both sides of zero, and a return code that is no error but
\* as large as the limit of its width.
Odd(c, v) ==
  \/ /\ c.kind \in {"in_range", "not_in_range"}
     /\ \E i \in DOMAIN c.data : (c.data[i] < 0) # (v[1] < 0)
  \/ c.kind = "return_code" /\ v[1] >= ReturnLimit(c.data[1])
=============================================================================
