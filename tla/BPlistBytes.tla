----------------------------- MODULE BPlistBytes -----------------------------
(***************************************************************************)
(* The byte encoding of CFBinaryPList.c: length markers, booleans, numbers, *)
(* dates, data and strings, as the writer appends them to its buffer and   *)
(* as the parser reads them, at the end of data that may have been cut     *)
(* short.                                                                  *)
(*                                                                         *)
(* A byte has ByteBase values, a marker byte is the pair of its nibbles,   *)
(* an SInt64 is a number of 8 bytes in two's complement, and a double is   *)
(* its 8 bytes (a float its 4), taken as an unsigned number.               *)
(***************************************************************************)
EXTENDS Integers, SequencesExt

CONSTANTS
    ByteBase,     \* values of a byte; 256 in the code
    InlineLimit,  \* the low nibble that says a count follows; 15 in the code
    AsciiLimit,   \* number of ASCII characters; 128 in the code
    Counts,       \* lengths of arrays and dictionaries that are tried
    SampleIntegers,  \* integers that are tried, with the bytes given to each; and,
                  \* as bits, doubles and floats
    Strings       \* sequences of UTF-16 code units that are tried; if they are
                  \* bytes, also as data

\* The middle of the numbers of n bytes.
Half(n) == (ByteBase \div 2) * ByteBase^(n - 1)

\* The constants are what they are said to be.
InputsOK ==
    /\ ByteBase \in Nat /\ ByteBase > 1 /\ ByteBase % 2 = 0
    /\ InlineLimit \in Nat \ {0} /\ AsciiLimit \in 1..ByteBase
    /\ \A s \in Strings : \A i \in DOMAIN s : s[i] \in 0..(ByteBase^2 - 1)
    /\ \A p \in SampleIntegers :
        p.width \in {1, 2, 4, 8} /\ p.value \in (-Half(p.width))..(Half(p.width) - 1)

VARIABLES
    item,   \* what is written
    bytes,  \* its encoding, as much of it as there is
    whole,  \* the encoding is complete
    out     \* what the parser reads: "unread" before, "none" when it refuses

vars == <<item, bytes, whole, out>>

Items ==
    [kind : {"array", "dictionary"}, count : Counts]
    \cup {[kind |-> "integer", width |-> p.width, value |-> p.value] : p \in SampleIntegers}
    \cup [kind : {"string"}, units : Strings]
    \cup [kind : {"boolean"}, value : BOOLEAN]
    \cup {[kind |-> "real", width |-> p.width, bits |-> p.value % ByteBase^p.width] :
             p \in {p \in SampleIntegers : p.width \in {4, 8}}}
    \cup {[kind |-> "date", width |-> 8, bits |-> p.value % ByteBase^8] :
             p \in {p \in SampleIntegers : p.width = 8}}
    \cup [kind : {"data"}, octets : {s \in Strings : \A i \in DOMAIN s : s[i] < ByteBase}]

Init == item \in Items /\ bytes = <<>> /\ whole = TRUE /\ out = [kind |-> "unread"]

-----------------------------------------------------------------------------
(* Writing.                                                                *)

Marker(family, low) == [family |-> family, low |-> low]

\* __FXBplistBufferAppendBEUnsigned.
BigEndian(v, n) == [i \in 1..n |-> (v \div ByteBase^(n - i)) % ByteBase]

\* __FXBplistMinimalBytesForUnsigned.
MinimalBytes(v) ==
    LET fits == {n \in {1, 2, 4, 8} : v < ByteBase^n}
    IN  IF fits = {} THEN 8 ELSE CHOOSE n \in fits : \A k \in fits : n <= k

Exponent(n) == CHOOSE e \in 0..3 : 2^e = n

\* __FXBplistAppendLengthMarker: the count is in the nibble, or it is an
\* integer object of its own after it.
LengthMarker(family, count) ==
    IF count < InlineLimit THEN <<Marker(family, count)>>
    ELSE <<Marker(family, InlineLimit), Marker(1, Exponent(MinimalBytes(count)))>>
         \o BigEndian(count, MinimalBytes(count))

\* An SInt64 as a uint64_t; the writer uses 8 bytes, other writers may use less.
EncodeInteger(v, n) == <<Marker(1, Exponent(n))>> \o BigEndian(v % ByteBase^n, n)

IsAscii(units) == \A i \in DOMAIN units : units[i] < AsciiLimit

\* __FXBplistEncodeString: a byte for each unit if all are ASCII, or else two.
EncodeString(units) ==
    IF IsAscii(units) THEN LengthMarker(5, Len(units)) \o units
    ELSE LengthMarker(6, Len(units))
         \o FlattenSeq([i \in DOMAIN units |-> BigEndian(units[i], 2)])

\* __FXBplistBufferAppendBEDouble; the writer uses 8 bytes.
EncodeDouble(family, n) == <<Marker(family, Exponent(n))>> \o BigEndian(item.bits, n)

EncodeData(octets) == LengthMarker(4, Len(octets)) \o octets

Write ==
    /\ bytes = <<>> /\ whole
    /\ bytes' = CASE item.kind = "boolean" -> <<Marker(0, IF item.value THEN 9 ELSE 8)>>
                  [] item.kind = "real" -> EncodeDouble(2, item.width)
                  [] item.kind = "date" -> EncodeDouble(3, item.width)
                  [] item.kind = "data" -> EncodeData(item.octets)
                  [] item.kind = "integer" -> EncodeInteger(item.value, item.width)
                  [] item.kind = "string" -> EncodeString(item.units)
                  [] item.kind = "array" -> LengthMarker(10, item.count)
                  [] item.kind = "dictionary" -> LengthMarker(13, item.count)
    /\ UNCHANGED <<item, whole, out>>

\* The data loses its end on the way.
Truncate ==
    /\ bytes # <<>> /\ whole /\ out.kind = "unread"
    /\ whole' = FALSE
    /\ \E n \in 1..(Len(bytes) - 1) : bytes' = SubSeq(bytes, 1, n)
    /\ UNCHANGED <<item, out>>

-----------------------------------------------------------------------------
(* Reading.                                                                *)

Unsigned(b) == FoldLeft(LAMBDA v, x : v * ByteBase + x, 0, b)

\* __FXBplistReadBESigned: a short integer is extended by its first bit.
Signed(b) ==
    IF 2 * b[1] >= ByteBase THEN Unsigned(b) - ByteBase^Len(b) ELSE Unsigned(b)

Refused == [ok |-> FALSE, count |-> 0, size |-> 0]

\* Mutant: the bytes of the count need not all be there.
MutResolveLength(b) ==
    IF b[1].low < InlineLimit THEN [ok |-> TRUE, count |-> b[1].low, size |-> 1]
    ELSE IF Len(b) < 2 \/ b[2].family # 1 THEN Refused
    ELSE LET n == 2 ^ b[2].low IN
         IF n > 8 THEN Refused
         ELSE [ok |-> TRUE, size |-> 2 + n,
               count |-> Unsigned(SubSeq(b, 3, IF Len(b) < 2 + n THEN Len(b) ELSE 2 + n))]
\* __FXBplistResolveLength of the object at b[1]: its count and header size.
ResolveLength(b) ==
    IF b[1].low < InlineLimit THEN [ok |-> TRUE, count |-> b[1].low, size |-> 1]
    ELSE IF Len(b) < 2 \/ b[2].family # 1 THEN Refused
    ELSE LET n == 2 ^ b[2].low IN
         IF n > 8 \/ 2 + n > Len(b) THEN Refused
         ELSE [ok |-> TRUE, count |-> Unsigned(SubSeq(b, 3, 2 + n)), size |-> 2 + n]

None == [kind |-> "none"]

\* The integer case of __FXBplistParseObjectAtIndex.
ReadInteger(b) ==
    LET n == 2 ^ b[1].low IN
    IF n \in {1, 2, 4, 8} /\ 1 + n <= Len(b)
    THEN [kind |-> "integer", value |-> Signed(SubSeq(b, 2, 1 + n))]
    ELSE None

\* The boolean case, and those of reals and dates.
ReadBoolean(b) ==
    IF b[1].low \in {8, 9} THEN [kind |-> "boolean", value |-> b[1].low = 9] ELSE None

ReadDouble(b) ==
    LET n == 2 ^ b[1].low IN
    IF n \in {8} \cup {w \in {4} : b[1].family = 2} /\ 1 + n <= Len(b)
    THEN [kind |-> IF b[1].family = 2 THEN "real" ELSE "date", width |-> n,
          bits |-> Unsigned(SubSeq(b, 2, 1 + n))]
    ELSE None

\* The data case.
ReadData(b) ==
    LET length == ResolveLength(b)
        end == length.size + length.count
    IN  IF ~length.ok \/ end > Len(b) THEN None
        ELSE [kind |-> "data", octets |-> SubSeq(b, length.size + 1, end)]

\* The two string cases; a byte beyond ASCII is taken as the code unit it is.
ReadString(b) ==
    LET length == ResolveLength(b)
        size == IF b[1].family = 5 THEN 1 ELSE 2
        At(i) == SubSeq(b, length.size + (i - 1) * size + 1, length.size + i * size)
    IN  IF ~length.ok \/ length.size + length.count * size > Len(b) THEN None
        ELSE [kind |-> "string", units |-> [i \in 1..length.count |-> Unsigned(At(i))]]

\* The beginning of __FXBplistParseArray and __FXBplistParseDictionary.
ReadCount(b) ==
    IF ResolveLength(b).ok
    THEN [kind |-> IF b[1].family = 10 THEN "array" ELSE "dictionary",
          count |-> ResolveLength(b).count]
    ELSE None

Read ==
    /\ bytes # <<>> /\ out.kind = "unread"
    /\ out' = CASE bytes[1].family = 0 -> ReadBoolean(bytes)
                [] bytes[1].family = 1 -> ReadInteger(bytes)
                [] bytes[1].family \in {2, 3} -> ReadDouble(bytes)
                [] bytes[1].family = 4 -> ReadData(bytes)
                [] bytes[1].family \in {5, 6} -> ReadString(bytes)
                [] bytes[1].family \in {10, 13} -> ReadCount(bytes)
    /\ UNCHANGED <<item, bytes, whole>>

Next == Write \/ Truncate \/ Read

Spec == Init /\ [][Next]_vars

-----------------------------------------------------------------------------
(* Properties.                                                             *)

WasRead == out.kind # "unread"

\* What is read of complete data is what was written: no integer loses its sign,
\* no count its high bytes, no double a bit, no data a byte and no string a
\* character, at any width.
ReadsTheSame ==
    whole /\ WasRead =>
        out = IF item.kind = "integer" THEN [kind |-> "integer", value |-> item.value]
              ELSE item

\* Data whose end is missing is refused wherever it was cut; it is never read
\* as a shorter object.  This is about the bounds checks of a single object that
\* ends where the data does; in a whole list the offsets and the trailer follow it.
CutIsRefused == ~whole /\ WasRead => out.kind = "none"
=============================================================================
