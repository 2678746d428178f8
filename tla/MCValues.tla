------------------------------ MODULE MCValues ------------------------------
(***************************************************************************)
(* The modules of data and memory that do not interact, side by side:      *)
(* numbers, dates and other scalars (CFScalars), strings (CFString),       *)
(* canonical texts (CanonicalText), the bytes and the sizes of a binary    *)
(* property list (BPlistBytes, BPlistSizes) and allocators (CFAllocator).  *)
(* A behaviour is one of one of them.                                      *)
(***************************************************************************)
EXTENDS CFAllocator, BPlistSizes, SequencesExt

CONSTANTS
    ByteStrings, UnitStrings, StringSizes,
    IntBits, SmallBits, Precision, MaxExponent, Casts,
    ByteBase, InlineLimit, AsciiLimit, Counts, SampleIntegers, Strings,
    Values, FirstSize, SizeMax

VARIABLES
    part,                       \* which of the six
    first, second, cast, answer,    \* of CFScalars
    item, encoding, whole, read,    \* of BPlistBytes
    value, todo, text, capacity, texts, status, starved,    \* of CanonicalText
    bytes, phase, index, unitCount, units, ascii, size, required, buffer, got   \* of CFString

-----------------------------------------------------------------------------
(* Contexts of allocators: every way to hold the info, and every callback  *)
(* missing once.                                                           *)

ContextWith(retain, release, info) ==
    [info |-> info, retain |-> retain, release |-> release, allocate |-> TRUE,
     reallocate |-> TRUE, deallocate |-> TRUE, preferred |-> "smaller"]
ContextsOf(info) ==
    { ContextWith("same", TRUE, info), ContextWith("nothing", TRUE, info),
      ContextWith("none", TRUE, info), ContextWith("none", FALSE, info),
      [ContextWith("none", FALSE, NULL) EXCEPT !.reallocate = FALSE, !.preferred = "greater"],
      [ContextWith("same", TRUE, info) EXCEPT !.deallocate = FALSE],
      [ContextWith("none", FALSE, NULL) EXCEPT !.allocate = FALSE, !.preferred = "none"] }
MCContexts == UNION {ContextsOf(i) : i \in Info}

Symmetry == Permutations(Slot) \cup Permutations(Block)

-----------------------------------------------------------------------------
Scalars == INSTANCE CFScalars WITH x <- first, y <- second, out <- answer
Bytes == INSTANCE BPlistBytes WITH bytes <- encoding, out <- read
Text == INSTANCE CanonicalText WITH heap <- texts
Chars == INSTANCE CFString WITH Sizes <- StringSizes

ASSUME ScalarWidthsOK == Scalars!WidthsOK
ASSUME ByteInputsOK == Bytes!InputsOK
ASSUME PListSizesOK == SizesOK
ASSUME StringInputsOK == Chars!InputsOK
ASSUME AllocatorContextsOK == ContextsOK

scalarVars == <<first, second, cast, answer>>
byteVars == <<item, encoding, whole, read>>
textVars == <<value, todo, text, capacity, texts, status, starved>>
stringVars ==
    <<bytes, phase, index, unitCount, units, ascii, size, required, buffer, got>>

\* The values of the parts a behaviour is not of.
NoScalars ==
    first = 0 /\ second = 0 /\ cast = "minimum" /\ answer = [call |-> "none"]
NoBytes ==
    item = [kind |-> "none"] /\ encoding = <<>> /\ whole = TRUE /\ read = [kind |-> "unread"]
NoString ==
    /\ bytes = <<>> /\ phase = "count" /\ index = 0 /\ unitCount = 0 /\ units = <<>>
    /\ ascii = TRUE /\ size = 0 /\ required = 0 /\ buffer = <<>> /\ got = "nothing"
NoText ==
    /\ value = [type |-> "null"] /\ todo = <<>> /\ text = <<>> /\ capacity = 0 /\ texts = {}
    /\ status = "none" /\ starved = FALSE
NoSizes ==
    length = 0 /\ table = Nothing /\ list = Nothing /\ stage = "none"
NoAllocators == Init

ValuesInit ==
    \/ part = "scalars" /\ Scalars!Init /\ NoString /\ NoBytes /\ NoText /\ NoSizes /\ NoAllocators
    \/ part = "string" /\ Chars!Init /\ NoScalars /\ NoBytes /\ NoText /\ NoSizes /\ NoAllocators
    \/ part = "bytes" /\ Bytes!Init /\ NoScalars /\ NoString /\ NoText /\ NoSizes /\ NoAllocators
    \/ part = "text" /\ Text!Init /\ NoScalars /\ NoString /\ NoBytes /\ NoSizes /\ NoAllocators
    \/ part = "sizes" /\ InitSizes /\ NoScalars /\ NoString /\ NoBytes /\ NoText
                      /\ NoAllocators
    \/ part = "allocators" /\ Init /\ NoScalars /\ NoString /\ NoBytes /\ NoText
                           /\ NoSizes

ValuesNext ==
    /\ UNCHANGED part
    /\ \/ /\ part = "scalars" /\ Scalars!Next
          /\ UNCHANGED <<stringVars, byteVars, textVars, sizeVars, vars>>
       \/ /\ part = "string" /\ Chars!Next
          /\ UNCHANGED <<scalarVars, byteVars, textVars, sizeVars, vars>>
       \/ /\ part = "bytes" /\ Bytes!Next
          /\ UNCHANGED <<stringVars, scalarVars, textVars, sizeVars, vars>>
       \/ /\ part = "text" /\ Text!Next
          /\ UNCHANGED <<stringVars, scalarVars, byteVars, sizeVars, vars>>
       \/ /\ part = "sizes" /\ NextSizes
          /\ UNCHANGED <<stringVars, scalarVars, byteVars, textVars, vars>>
       \/ /\ part = "allocators" /\ Next
          /\ UNCHANGED <<stringVars, scalarVars, byteVars, textVars, sizeVars>>

ValuesSpec ==
    /\ ValuesInit
    /\ [][ValuesNext]_<<part, sizeVars, stringVars, scalarVars, byteVars, textVars, vars>>

-----------------------------------------------------------------------------
(* The properties of the parts; BPlistSizes and CFAllocator have theirs.   *)

\* CFEqual, CFHash and CFNumberGetValue: objects are equal exactly when they stand
\* for the same value, equal numbers hash alike, and a number is converted exactly
\* when the wanted type has it.
EqualityIsByValue ==
    part = "scalars" => /\ Scalars!EqualMeansSameValue /\ Scalars!EqualNumbersHashAlike
                        /\ Scalars!ExactMeansSameValue

\* CFBinaryPList.c: complete data is read as what was written, and data that was
\* cut is refused.
ReadsWhole == part = "bytes" => Bytes!ReadsTheSame /\ Bytes!CutIsRefused

\* CFString.c: what is made of a text is the text again, in the room there is.
ConvertsTexts == part = "string" => Chars!ConvertsTexts

\* _FXCFControlPacketCopyCanonicalJSON: a text says all the value says, in JSON
\* exactly if its numbers are finite, and when it is refused nothing is left.
TextWhole == part = "text" => Text!TextWhole

-----------------------------------------------------------------------------
(* Up to four bytes of UTF-8, the first and last of every range that the   *)
(* code tells apart among them; up to three units around the surrogates.   *)

Leads == {65, 127, 128, 191, 192, 193, 194, 223, 224, 225, 236, 237, 238, 239,
          240, 241, 243, 244, 245, 255}
Tails == {65, 128, 143, 144, 159, 160, 191, 192, 194}
MCByteStrings ==
    {<<>>} \cup UNION {{<<l>> \o t : l \in Leads, t \in [1..n -> Tails]} : n \in 0..3}

MCUnits == {0, 127, 128, 2047, 2048, 55295, 55296, 56319, 56320, 57343, 57344, 65535}
MCUnitStrings == UNION {[1..n -> MCUnits] : n \in 0..3}

(* Bytes of four values: every count up to beyond the largest of two       *)
(* bytes, the integers around every width's limits, short strings.         *)

MCCounts == 0..40 \cup {255, 256, 257, 65535}

Around(n) ==
    LET half == 2 * 4^(n - 1) IN
    {v \in {-half, -half + 1, -1, 0, 1, half - 2, half - 1} : v \in (-half)..(half - 1)}
\* An integer of a width is also written in all greater widths.
MCIntegers ==
    {[width |-> w, value |-> v] : w \in {8}, v \in UNION {Around(n) : n \in {1, 2, 4, 8}}}
    \cup UNION {{[width |-> w, value |-> v] : v \in Around(w)} : w \in {1, 2, 4}}

MCStrings == UNION {[1..n -> {0, 1, 2, 3, 4, 15}] : n \in 0..4}

(* Every kind of value that a text is made of, characters that are escaped *)
(* or end a C string, numbers that are not finite, data on both sides of   *)
(* UTF-8, times around a full second, keys in both orders, and two levels. *)
(* 43 bytes is what a size can count: longer texts are refused.            *)

St(t) == [type |-> "string", text |-> t, utf8 |-> TRUE]
NoUTF8 == [type |-> "string", text |-> <<>>, utf8 |-> FALSE]
Object == [type |-> "other", text |-> <<>>, utf8 |-> FALSE]
Number(class, negative, digits) ==
    [type |-> "number", class |-> class, negative |-> negative, digits |-> digits]
Num == Number("finite", TRUE, <<49, 46, 53>>)
NaN == Number("nan", FALSE, <<>>)
SomeNumbers ==
    {Num, Number("finite", FALSE, <<49, 101, 43, 51>>)}
    \cup {Number(class, negative, <<>>) : class \in {"nan", "infinite"}, negative \in BOOLEAN}
Sequences(S, n) == UNION {[1..k -> S] : k \in 0..n}

SomeTexts == {St(t) : t \in Sequences({97, 98, 34, 92, 9, 1, 0}, 2)}
SomeData == {[type |-> "data", bytes |-> b] : b \in Sequences({65, 0, 34, 195, 169, 255}, 4)}
SomeTimes == {-41, -40, -1, 0, 1, 2, 37, 38, 39, 40, 43}
Few == {St(<<97>>), NoUTF8, Num, NaN, [type |-> "data", bytes |-> <<34>>], [type |-> "other"]}

Names == {St(<<>>), St(<<97>>), St(<<98>>), St(<<97, 98>>), St(<<98, 0>>)}
Dictionary(keys, x) ==
    [type |-> "dictionary", entries |-> [i \in DOMAIN keys |-> [key |-> keys[i], value |-> x]]]
Two == <<St(<<98>>), St(<<97>>)>>
Dictionaries ==
    {Dictionary(k, Num) : k \in {k \in Sequences(Names, 3) : IsInjective(k)}}
    \cup {Dictionary(k, x) :
            k \in {<<St(<<97>>)>>, <<NoUTF8>>, Two, <<St(<<98>>), NoUTF8>>}, x \in Few}
Arrays == {[type |-> "array", items |-> s] : s \in Sequences(Few, 2)}
Nested == {Dictionary(Two, x) : x \in Arrays \cup {Dictionary(Two, y) : y \in Few}}

MCTextValues ==
    {[type |-> "null"], [type |-> "boolean", value |-> TRUE], [type |-> "other"], NoUTF8}
    \cup SomeNumbers
    \cup {[type |-> "date", time |-> n] : n \in SomeTimes}
    \cup SomeTexts \cup SomeData \cup Dictionaries \cup Arrays \cup Nested
    \cup {[type |-> "names", items |-> s] : s \in Sequences(Names \cup {NoUTF8, Object}, 3)}
=============================================================================
