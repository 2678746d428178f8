------------------------------ MODULE CFScalars ------------------------------
(***************************************************************************)
(* CFNumber.c and CFDate.c: equality, hashing and conversion of numbers    *)
(* that are stored as integers or as floating-point values, and of dates;  *)
(* and the equality of the other objects without children: the contents of *)
(* CFString.c and CFData.c, the code of CFError.c.                         *)
(*                                                                         *)
(* Everything is scaled: an SInt64 has IntBits bits, an SInt32 SmallBits,  *)
(* and a Float64 a significand of Precision bits, so that not every        *)
(* integer has a Float64 of its own, as in the code (64, 32 and 53).       *)
(* A value is counted in halves, so that there are fractions.              *)
(***************************************************************************)
EXTENDS Integers

CONSTANTS
    IntBits, SmallBits, Precision,
    MaxExponent,  \* bound: a finite Float64 is below 2^(Precision + MaxExponent)
    Casts         \* what a cast of an overflowing Float64 to SInt64 may give:
                  \* "minimum" on x86-64, "saturated" on AArch64

\* The widths differ as in the code, and a Float64 reaches beyond the integers.
WidthsOK ==
    /\ {IntBits, SmallBits, Precision, MaxExponent} \subseteq Nat \ {0}
    /\ SmallBits < IntBits /\ Precision + MaxExponent > IntBits
    /\ Casts \subseteq {"minimum", "saturated"}

Least(b) == -(2 ^ (b - 1))
Greatest(b) == 2 ^ (b - 1) - 1
Ints(b) == Least(b)..Greatest(b)

\* The finite values of a Float64, in halves.
Halves ==
    LET positive == {m * 2 ^ e : m \in 0..(2 ^ Precision - 1), e \in 0..MaxExponent}
    IN  positive \cup {-h : h \in positive}

Finite(h) == [class |-> "finite", half |-> h]
MinusZero == [class |-> "minus zero", half |-> 0]
Infinities == {[class |-> "infinity", half |-> s] : s \in {-1, 1}}
NaN == [class |-> "nan", half |-> 0]
Doubles == {Finite(h) : h \in Halves} \cup {MinusZero, NaN} \cup Infinities

IsFinite(d) == d.class \in {"finite", "minus zero"}

\* The comparison of C: zeros are equal, a NaN equals nothing.
SameDouble(d, f) ==
    \/ IsFinite(d) /\ IsFinite(f) /\ d.half = f.half
    \/ d.class = "infinity" /\ d = f

\* The conversion of C from an integer: nearest, ties to an even significand.
ToDouble(n) ==
    LET low == CHOOSE h \in Halves : h <= 2 * n /\ \A g \in Halves : g <= 2 * n => g <= h
        high == CHOOSE h \in Halves : h >= 2 * n /\ \A g \in Halves : g >= 2 * n => h <= g
    IN  Finite(CASE 2 * n - low < high - 2 * n -> low
                 [] 2 * n - low > high - 2 * n -> high
                 [] low = high -> low
                 [] OTHER -> CHOOSE h \in {low, high} : (h \div (high - low)) % 2 = 0)

Numbers ==
    [type : {"int32"}, value : Ints(SmallBits)] \cup [type : {"int64"}, value : Ints(IntBits)]
    \cup [type : {"float64"}, value : Doubles]
IsNumber(n) == n.type \in {"int32", "int64", "float64"}
Dates == [type : {"date"}, value : Doubles]
\* A string, some data, an error.
Others == [type : {"string", "data"}, value : UNION {[1..n -> {0, 1}] : n \in 0..2}]
          \cup [type : {"error"}, value : Ints(SmallBits)]

VARIABLES
    x, y,  \* two objects of one class
    cast,  \* what the build does with a cast that overflows
    out    \* what the last call gave

vars == <<x, y, cast, out>>

Init ==
    /\ \/ x \in Numbers /\ y \in Numbers
       \/ x \in Dates /\ y \in Dates
       \/ x \in Others /\ y \in Others /\ x.type = y.type
    /\ cast \in Casts
    /\ out = [call |-> "none"]

-----------------------------------------------------------------------------
(* The helpers of CFNumber.c.                                              *)

No == [exact |-> FALSE, value |-> 0]

Trunc(h) == IF h >= 0 THEN h \div 2 ELSE -((-h) \div 2)

\* (SInt64)d; undefined when it overflows.
Cast(d) ==
    IF Trunc(d.half) \in Ints(IntBits) THEN Trunc(d.half)
    ELSE IF cast = "minimum" \/ d.half < 0 THEN Least(IntBits) ELSE Greatest(IntBits)

\* __CFDoubleToSInt64Exact.  The limit is the Float64 nearest to LLONG_MAX,
\* which is above it.
DoubleToSInt64Exact(d) ==
    IF ~IsFinite(d) \/ d.half < 2 * Least(IntBits) \/ d.half > ToDouble(Greatest(IntBits)).half
    THEN No
    ELSE IF SameDouble(ToDouble(Cast(d)), d) THEN [exact |-> TRUE, value |-> Cast(d)]
    ELSE No

\* __CFNumberEqual, __CFDateEqual, __CFStringEqual, __CFDataEqual, __CFErrorEqual.
Equal(a, b) ==
    LET IsDouble(n) == n.type \in {"float64", "date"}
        SameAs(d, i) == DoubleToSInt64Exact(d) = [exact |-> TRUE, value |-> i]
    IN  CASE IsDouble(a) /\ IsDouble(b) -> SameDouble(a.value, b.value)
          [] ~IsDouble(a) /\ ~IsDouble(b) -> a.value = b.value
          [] IsDouble(a) /\ ~IsDouble(b) -> SameAs(a.value, b.value)
          [] ~IsDouble(a) /\ IsDouble(b) -> SameAs(b.value, a.value)

\* What the hash is computed from: the bits of an integer or of a Float64.
\* Mutant: a Float64 is always hashed by its bits.
MutHashed(n) == <<n.type \in {"float64", "date"}, n.value>>
\* __CFNumberHash and __CFDateHash; the others hash their length and content.
Hashed(n) ==
    CASE n.type = "date" -> <<TRUE, n.value>>
      [] n.type = "float64" /\ DoubleToSInt64Exact(n.value).exact ->
            <<FALSE, DoubleToSInt64Exact(n.value).value>>
      [] n.type = "float64" /\ ~DoubleToSInt64Exact(n.value).exact -> <<TRUE, n.value>>
      [] OTHER -> <<FALSE, n.value>>

-----------------------------------------------------------------------------
(* The calls.                                                              *)

Compare ==
    /\ out' = [call |-> "compare", equal |-> Equal(x, y), same |-> Hashed(x) = Hashed(y)]
    /\ UNCHANGED <<x, y, cast>>

\* The conversion of C to an integer of b bits, which keeps the low ones.
Low(n, b) == LET m == n % 2 ^ b IN IF m > Greatest(b) THEN m - 2 ^ b ELSE m

\* CFNumberGetValue as an integer of some bits: whether it is exact, and the value.
Got(b) ==
    LET n == IF x.type = "float64" THEN DoubleToSInt64Exact(x.value)
             ELSE [exact |-> TRUE, value |-> x.value]
    IN  [exact |-> n.exact /\ n.value \in Ints(b), value |-> Low(n.value, b)]

GetInteger(b) ==
    /\ IsNumber(x)
    /\ out' = [call |-> "integer", bits |-> b, got |-> Got(b)]
    /\ UNCHANGED <<x, y, cast>>

\* CFNumberGetValue as a Float64.
GetDouble ==
    /\ IsNumber(x)
    /\ LET d == IF x.type = "float64" THEN x.value ELSE ToDouble(x.value) IN
        out' = [call |-> "double", value |-> d,
                exact |-> x.type = "float64" \/ Cast(d) = x.value]
    /\ UNCHANGED <<x, y, cast>>

Next == Compare \/ GetInteger(SmallBits) \/ GetInteger(IntBits) \/ GetDouble

Spec == Init /\ [][Next]_vars

-----------------------------------------------------------------------------
(* Properties.                                                             *)

\* The number an object stands for, in halves; the classes of Float64 without
\* a number, and other objects, stand for themselves.
Meaning(n) ==
    CASE n.type \in {"int32", "int64"} -> Finite(2 * n.value)
      [] n.type \in {"float64", "date"} -> IF n.value = MinusZero THEN Finite(0) ELSE n.value
      [] OTHER -> n

\* Two objects are equal exactly when they stand for the same number, however
\* they store it: so equality is symmetric and transitive across the types.
EqualMeansSameValue ==
    out.call = "compare" =>
        (out.equal <=> Meaning(x) = Meaning(y) /\ Meaning(x) # NaN)

\* Equal numbers hash alike, also when one is an integer and one a Float64.
EqualNumbersHashAlike ==
    out.call = "compare" /\ x.type # "date" /\ out.equal => out.same

\* CFNumberGetValue says that the value is exact exactly when it is what the
\* number stands for and the wanted type has it.
ExactMeansSameValue ==
    /\ out.call = "integer" =>
        (out.got.exact <=>
            \E n \in Ints(out.bits) : n = out.got.value /\ Finite(2 * n) = Meaning(x))
    /\ out.call = "double" =>
        (out.exact <=> Meaning([type |-> "float64", value |-> out.value]) = Meaning(x))

\* "Equal dates compare equal and hash coherently within the process."
EqualDatesHashAlike ==
    out.call = "compare" /\ x.type = "date" /\ out.equal => out.same
=============================================================================
