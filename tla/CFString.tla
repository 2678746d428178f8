------------------------------ MODULE CFString ------------------------------
(***************************************************************************)
(* CFString.c: a string is made of UTF-8 bytes in two passes, one that     *)
(* validates and counts and one that decodes into a buffer of that count   *)
(* without looking at the bytes again; or of UTF-16 code units as they     *)
(* are.  CFStringGetCString measures, then encodes; CFStringGetBytes is    *)
(* called again and again until it gives nothing.                          *)
(*                                                                         *)
(* Bytes, code units and code points are the numbers of the code.          *)
(***************************************************************************)
EXTENDS Integers, SequencesExt

CONSTANTS
    ByteStrings,  \* the bytes CFStringCreateWithBytes is tried with
    UnitStrings,  \* the units CFStringCreateWithCharacters is tried with
    Sizes         \* the buffer sizes that are tried

InputsOK ==
    /\ \A b \in ByteStrings : \A i \in DOMAIN b : b[i] \in 0..255
    /\ \A u \in UnitStrings : \A i \in DOMAIN u : u[i] \in 0..65535
    /\ Sizes \subseteq Int

VARIABLES
    bytes,      \* the input in UTF-8
    phase,      \* "count", "decode", "made", "measure", "encode", "pieces"; or
                \* "refused", or "starved" of memory
    index,      \* bytes or units consumed by the running pass
    unitCount,  \* code units counted by the first pass
    units,      \* the contents of the string, as far as they are there
    ascii,      \* FX_CFSTRING_FLAG_ASCII
    size,       \* bufferSize
    required,   \* bytes counted by CFStringGetCString's first pass
    buffer,     \* what it has written
    got         \* what it returned: "nothing" yet, TRUE or FALSE as a string, or
                \* "pieces" when CFStringGetBytes has come to its end

vars == <<bytes, phase, index, unitCount, units, ascii, size, required, buffer, got>>
reading == <<bytes, unitCount>>
writing == <<size, required, buffer, got>>

IsAscii(u) == \A i \in DOMAIN u : u[i] <= 127

\* The units as they are: from CFStringCreateWithCharacters, from another string
\* (CFStringCreateCopy), or bytes that are said to be ASCII, which nobody checks.
Init ==
    /\ index = 0 /\ unitCount = 0
    /\ size = 0 /\ required = 0 /\ buffer = <<>> /\ got = "nothing"
    /\ \/ bytes \in ByteStrings /\ phase = "count" /\ units = <<>> /\ ascii = TRUE
       \/ /\ units \in UnitStrings /\ phase = "made" /\ ascii = IsAscii(units)
          /\ bytes = <<>>

-----------------------------------------------------------------------------
(* CFStringCreateWithBytes, UTF-8.                                         *)

\* The branches of __CFStringUTF8CountCodeUnits: a range of first bytes, how
\* many bytes there are, and the range of the second.
Branches ==
    {[first |-> 0..127,   length |-> 1, second |-> {}],
     [first |-> 194..223, length |-> 2, second |-> 128..191],
     [first |-> {224},    length |-> 3, second |-> 160..191],
     [first |-> (225..236) \cup {238, 239}, length |-> 3, second |-> 128..191],
     [first |-> {237},    length |-> 3, second |-> 128..159],
     [first |-> {240},    length |-> 4, second |-> 144..191],
     [first |-> 241..243, length |-> 4, second |-> 128..191],
     [first |-> {244},    length |-> 4, second |-> 128..143]}

Byte(i) == bytes[index + i]

\* Mutant: a second byte in 128..191 will do after any first byte.
MutTakes(br) ==
    /\ Byte(1) \in br.first
    /\ index + br.length <= Len(bytes)
    /\ \A i \in 2..br.length : Byte(i) \in 128..191
\* The branch for the byte at index finds all its bytes, and they are in range.
Takes(br) ==
    /\ Byte(1) \in br.first
    /\ index + br.length <= Len(bytes)
    /\ br.length > 1 => Byte(2) \in br.second
    /\ \A i \in 3..br.length : Byte(i) \in 128..191

Count ==
    /\ phase = "count" /\ index < Len(bytes)
    /\ \E br \in Branches :
        /\ Takes(br)
        /\ unitCount' = unitCount + IF br.length = 4 THEN 2 ELSE 1
        /\ index' = index + br.length
    /\ UNCHANGED <<bytes, phase, units, ascii, writing>>

CountRefuses ==
    /\ phase = "count" /\ index < Len(bytes)
    /\ ~\E br \in Branches : Takes(br)
    /\ phase' = "refused"
    /\ UNCHANGED <<reading, index, units, ascii, writing>>

CountDone ==
    /\ phase = "count" /\ index = Len(bytes)
    /\ phase' = "decode" /\ index' = 0
    /\ UNCHANGED <<reading, units, ascii, writing>>

\* The units of a code point.
UnitsOf(c) ==
    IF c <= 65535 THEN <<c>>
    ELSE <<55296 + (c - 65536) \div 1024, 56320 + ((c - 65536) % 1024)>>

Low(i) == Byte(i) % 64
\* The branches of __CFStringDecodeUTF8, which trust the count.
Decoded ==
    CASE Byte(1) <= 127 -> [length |-> 1, point |-> Byte(1)]
      [] Byte(1) \in 194..223 -> [length |-> 2, point |-> (Byte(1) % 32) * 64 + Low(2)]
      [] Byte(1) \in (128..193) \cup (224..239) ->
            [length |-> 3, point |-> (Byte(1) % 16) * 4096 + Low(2) * 64 + Low(3)]
      [] OTHER ->
            [length |-> 4,
             point |-> (Byte(1) % 8) * 262144 + Low(2) * 4096 + Low(3) * 64 + Low(4)]

\* A unit that would not fit makes the decoding fail.
Decode ==
    /\ phase = "decode" /\ index < Len(bytes)
    /\ LET new == units \o UnitsOf(Decoded.point) IN
        IF Len(new) <= unitCount
        THEN units' = new /\ index' = index + Decoded.length /\ UNCHANGED phase
        ELSE phase' = "refused" /\ UNCHANGED <<units, index>>
    /\ UNCHANGED <<reading, ascii, writing>>

\* __CFStringCreateWithCodeUnits, if exactly the counted units have come.
DecodeDone ==
    /\ phase = "decode" /\ index = Len(bytes)
    /\ phase' = IF Len(units) = unitCount THEN "made" ELSE "refused"
    /\ ascii' = IsAscii(units) /\ index' = 0
    /\ UNCHANGED <<reading, units, writing>>

\* No memory for the units, or for the string.
Starve ==
    /\ phase \in {"count", "decode"} /\ index = Len(bytes)
    /\ phase' = "starved"
    /\ UNCHANGED <<reading, index, units, ascii, writing>>

-----------------------------------------------------------------------------
(* CFStringGetCString, ASCII and UTF-8.                                    *)

Return(b) == got' = IF b THEN "TRUE" ELSE "FALSE"

\* An ASCII string is copied at once; an ASCII buffer takes no other.
GetCString(utf8, n) ==
    /\ phase = "made" /\ got = "nothing"
    /\ size' = n
    /\ UNCHANGED <<reading, units, ascii, required>>
    /\ IF n > 0 /\ ascii /\ Len(units) + 1 <= n
       THEN Return(TRUE) /\ buffer' = units /\ UNCHANGED <<phase, index>>
       ELSE IF n <= 0 \/ ascii \/ ~utf8
       THEN Return(FALSE) /\ UNCHANGED <<phase, index, buffer>>
       ELSE phase' = "measure" /\ index' = 0 /\ UNCHANGED <<buffer, got>>

IsHigh(u) == u \in 55296..56319
IsLow(u) == u \in 56320..57343
Unit(i) == units[index + i]
HasPartner == index + 2 <= Len(units) /\ IsLow(Unit(2))
\* A surrogate without its partner cannot be encoded.
Unpaired == IsLow(Unit(1)) \/ (IsHigh(Unit(1)) /\ ~HasPartner)

\* __CFStringUTF8EncodedLength.
Measured == IF Unit(1) <= 127 THEN 1 ELSE IF Unit(1) <= 2047 THEN 2
            ELSE IF IsHigh(Unit(1)) THEN 4 ELSE 3

Consumed == IF IsHigh(Unit(1)) THEN 2 ELSE 1

Measure ==
    /\ phase = "measure" /\ index < Len(units) /\ ~Unpaired
    /\ required' = required + Measured
    /\ index' = index + Consumed
    /\ UNCHANGED <<reading, phase, units, ascii, size, buffer, got>>

MeasureRefuses ==
    /\ phase = "measure"
    /\ IF index < Len(units) THEN Unpaired ELSE required + 1 > size
    /\ phase' = "made" /\ Return(FALSE)
    /\ UNCHANGED <<reading, index, units, ascii, size, required, buffer>>

MeasureDone ==
    /\ phase = "measure" /\ index = Len(units) /\ required + 1 <= size
    /\ phase' = "encode" /\ index' = 0
    /\ UNCHANGED <<reading, units, ascii, writing>>

\* __CFStringEncodeUTF8.
Encoded ==
    LET u == Unit(1)
        c == IF IsHigh(u) THEN 65536 + (u - 55296) * 1024 + (Unit(2) - 56320) ELSE u
    IN  CASE u <= 127 -> <<u>>
          [] u \in 128..2047 -> <<192 + u \div 64, 128 + (u % 64)>>
          [] IsHigh(u) -> <<240 + c \div 262144, 128 + ((c \div 4096) % 64),
                            128 + ((c \div 64) % 64), 128 + (c % 64)>>
          [] OTHER -> <<224 + u \div 4096, 128 + ((u \div 64) % 64), 128 + (u % 64)>>

\* The last byte of the buffer is kept for the terminator.
Encode ==
    /\ phase = "encode" /\ index < Len(units)
    /\ LET new == buffer \o Encoded IN
        IF Len(new) <= size - 1
        THEN buffer' = new /\ index' = index + Consumed /\ UNCHANGED <<phase, got>>
        ELSE phase' = "made" /\ Return(FALSE) /\ UNCHANGED <<buffer, index>>
    /\ UNCHANGED <<reading, units, ascii, size, required>>

\* The terminator is stored at required.
EncodeDone ==
    /\ phase = "encode" /\ index = Len(units)
    /\ phase' = "made" /\ Return(TRUE)
    /\ UNCHANGED <<reading, index, units, ascii, size, required, buffer>>

-----------------------------------------------------------------------------
(* CFStringGetBytes into a buffer of n bytes, from where the last call has *)
(* stopped.                                                                *)

\* It stops before a unit that is not ASCII, and where the buffer ends.
Converted(n) ==
    LET fits == {k \in 0..(Len(units) - index) : IsAscii(SubSeq(units, index + 1, index + k))}
    IN  CHOOSE k \in fits : k <= n /\ \A j \in fits : j <= n => j <= k

GetBytes(n) ==
    /\ n >= 0 /\ got = "nothing"
    /\ phase = "made" \/ (phase = "pieces" /\ n = size)
    /\ size' = n /\ phase' = "pieces"
    /\ buffer' = buffer \o SubSeq(units, index + 1, index + Converted(n))
    /\ index' = index + Converted(n)
    /\ got' = IF Converted(n) = 0 THEN "pieces" ELSE got
    /\ UNCHANGED <<reading, units, ascii, required>>

-----------------------------------------------------------------------------

Next ==
    \/ Count \/ CountRefuses \/ CountDone \/ Decode \/ DecodeDone \/ Starve
    \/ \E utf8 \in BOOLEAN, n \in Sizes : GetCString(utf8, n)
    \/ \E n \in Sizes : GetBytes(n)
    \/ Measure \/ MeasureRefuses \/ MeasureDone \/ Encode \/ EncodeDone

Spec == Init /\ [][Next]_vars

-----------------------------------------------------------------------------
(* Unicode: the code points, their one encoding, and the texts.            *)

CodePoint(c) == c \in 0..1114111 /\ ~IsHigh(c) /\ ~IsLow(c)

UTF8(c) ==
    LET Rest(k) == [i \in 1..k |-> 128 + ((c \div 64^(k - i)) % 64)]
    IN  IF c < 128 THEN <<c>>
        ELSE IF c < 2048 THEN <<192 + c \div 64>> \o Rest(1)
        ELSE IF c < 65536 THEN <<224 + c \div 4096>> \o Rest(2)
        ELSE <<240 + c \div 262144>> \o Rest(3)

\* The code point that n bytes spell if they are its encoding.
Spelled(s) ==
    LET head == IF Len(s) = 1 THEN s[1] ELSE s[1] % 2 ^ (7 - Len(s))
    IN  FoldLeft(LAMBDA c, b : c * 64 + (b % 64), head, Tail(s))

\* The code points of bytes from i on, or <<-1>> if they are no text.
TextOf(s) ==
    LET Is(i, n) == /\ i + n - 1 <= Len(s)
                    /\ LET c == Spelled(SubSeq(s, i, i + n - 1))
                       IN  CodePoint(c) /\ UTF8(c) = SubSeq(s, i, i + n - 1)
        from[i \in 1..(Len(s) + 1)] ==
            IF i = Len(s) + 1 THEN <<>>
            ELSE LET ns == {n \in 1..4 : Is(i, n)} IN
                 IF ns = {} THEN <<-1>>
                 ELSE LET n == CHOOSE n \in ns : TRUE
                      IN  <<Spelled(SubSeq(s, i, i + n - 1))>> \o from[i + n]
    IN  from[1]

IsText(s) == -1 \notin ToSet(TextOf(s))

-----------------------------------------------------------------------------
(* Properties.                                                             *)

\* The string of some bytes has the code points of the bytes; bytes are refused
\* only if they are no text: no overlong form, surrogate or cut-off character
\* is let through by the first pass for the second one to decode.
DecodesTexts ==
    /\ phase = "refused" => ~IsText(bytes)
    /\ phase = "made" /\ unitCount > 0 =>
        IsText(bytes) /\ units = FlattenSeq([i \in DOMAIN TextOf(bytes) |->
                                                UnitsOf(TextOf(bytes)[i])])

\* The units are UTF-16: every surrogate has its partner.
Paired ==
    LET from[i \in 1..(Len(units) + 2)] ==
            \/ i > Len(units)
            \/ ~IsHigh(units[i]) /\ ~IsLow(units[i]) /\ from[i + 1]
            \/ IsHigh(units[i]) /\ i < Len(units) /\ IsLow(units[i + 1]) /\ from[i + 2]
    IN  from[1]

\* What CFStringGetCString gives is a text with the string's characters, and
\* the bytes the string was made of if it was made of bytes.  It fails only for
\* lack of room or for a surrogate without its partner.
EncodesTexts ==
    /\ got = "TRUE" =>
        /\ IsText(buffer)
        /\ units = FlattenSeq([i \in DOMAIN TextOf(buffer) |-> UnitsOf(TextOf(buffer)[i])])
        /\ bytes # <<>> => buffer = bytes
    /\ got = "FALSE" /\ required \in 1..(size - 1) => ~Paired

\* It writes inside the buffer, where the second pass has as many bytes as the
\* first one has measured, and there is room for the terminator after them.
StaysInBuffer ==
    /\ buffer # <<>> /\ phase # "pieces" => Len(buffer) < size
    /\ got = "TRUE" => ascii \/ Len(buffer) = required

\* The pieces that CFStringGetBytes gives are the string up to its first unit that
\* is not ASCII, none lost or given twice, unless there was no room at all.
PiecesJoin ==
    got = "pieces" /\ size > 0 =>
        /\ buffer = SubSeq(units, 1, Len(buffer)) /\ IsAscii(buffer)
        /\ Len(buffer) < Len(units) => units[Len(buffer) + 1] > 127

\* CFStringCreateWithBytes, CFStringCreateWithCString, CFStringGetCString and
\* CFStringGetBytes, which all read or write a text in two passes or in pieces:
\* what is made of a text is the text again, in the room there is.
ConvertsTexts == DecodesTexts /\ EncodesTexts /\ StaysInBuffer /\ PiecesJoin
=============================================================================
