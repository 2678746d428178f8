---------------------------- MODULE CanonicalText ----------------------------
(***************************************************************************)
(* The canonical JSON text of a decoded value, and of the sorted names in  *)
(* a profile (FXCFControlPacket.c): a text buffer that grows by doubling,  *)
(* texts of keys and strings that are copied and freed on the way, and     *)
(* allocations any of which may fail.                                      *)
(*                                                                         *)
(* The C stack is the list todo of what is still to be done; a failure     *)
(* drops all of it but the frees.  Bytes are numbers.  What is printed as  *)
(* one word or number of no interest counts as one byte: true, false, nan  *)
(* and inf, the four digits of \u, the names of the data and date objects, *)
(* the stamp and the milliseconds of a date.                               *)
(***************************************************************************)
EXTENDS Integers, SequencesExt

CONSTANTS
    Values,      \* the values that texts are made of
    FirstSize,   \* the first capacity of a buffer; 256 in the code
    SizeMax      \* SIZE_MAX

VARIABLES
    value,     \* what the text is of
    todo,      \* the calls that are still to be made
    text,      \* the bytes of the buffer, before the terminator
    capacity,  \* its size; 0 before it is allocated
    heap,      \* the blocks that are allocated
    status,    \* "running", "failing"; or "returned", "refused"
    starved    \* history: some allocation was refused

vars == <<value, todo, text, capacity, heap, status, starved>>

-----------------------------------------------------------------------------
(* Characters and pieces of text.                                          *)

Quote == 34  Backslash == 92
Comma == <<44>>  Colon == <<58>>
Truth(b) == IF b THEN <<116>> ELSE <<102>>
Minus == <<45>>  NotANumber == <<110>>  Infinity == <<105>>
DataText == <<36, 117>>  DataBase64 == <<36, 98>>  DateName == <<36, 100>>
Nil == <<110>>

\* A C string ends at the first zero.
CString(s) ==
    LET zeros == {i \in DOMAIN s : s[i] = 0}
    IN  IF zeros = {} THEN s ELSE SubSeq(s, 1, (CHOOSE i \in zeros : \A j \in zeros : i <= j) - 1)

\* strcmp, as what must not come before: s <= t.
NotAfter(s, t) ==
    \/ IsPrefix(s, t)
    \/ \E i \in DOMAIN s \cap DOMAIN t :
          s[i] < t[i] /\ \A j \in 1..(i - 1) : s[j] = t[j]

\* __FXCFTextBufferAppendJSONString: the calls that append it.
Escaped(c) ==
    CASE c \in {Quote, Backslash} -> <<Backslash, c>>
      [] c = 10 -> <<Backslash, 110>>
      [] c = 13 -> <<Backslash, 114>>
      [] c = 9 -> <<Backslash, 116>>
      [] c < 32 /\ c \notin {9, 10, 13} -> <<Backslash, 117, c>>
      [] OTHER -> <<c>>
Append1(t) == <<[do |-> "append", text |-> t]>>
JSONString(s) ==
    Append1(<<Quote>>) \o FlattenSeq([i \in DOMAIN s |-> Append1(Escaped(s[i]))])
    \o Append1(<<Quote>>)

\* The calls for each item, with a comma before all but the first.
Separated(calls) ==
    FlattenSeq([i \in DOMAIN calls |->
                  (IF i > 1 THEN Append1(Comma) ELSE <<>>) \o calls[i]])

-----------------------------------------------------------------------------
(* Numbers, data and dates.                                                *)

\* __FXCFControlPacketAppendNumberJSON: a number of class "finite", "nan" or
\* "infinite", with its sign and the digits that %lld or %.17g prints.  A real that
\* is not finite is printed as the C library's word for it.
Unsigned(v) == CASE v.class = "finite" -> v.digits
                 [] v.class = "nan" -> NotANumber
                 [] v.class = "infinite" -> Infinity
NumberText(v) == (IF v.negative THEN Minus ELSE <<>>) \o Unsigned(v)


\* __FXCFControlPacketDataIsUTF8.
DataIsUTF8(b) ==
    LET Follow(i, n) == i + n <= Len(b) /\ \A k \in 1..n : b[i + k] \in 128..191
        size(i) ==
            CASE b[i] <= 127 -> 1
              [] b[i] \in 192..223 -> IF b[i] >= 194 /\ Follow(i, 1) THEN 2 ELSE 0
              [] b[i] \in 224..239 ->
                    IF /\ Follow(i, 2)
                       /\ b[i] = 224 => b[i + 1] >= 160
                       /\ b[i] = 237 => b[i + 1] <= 159
                    THEN 3 ELSE 0
              [] b[i] \in 240..247 ->
                    IF /\ Follow(i, 3) /\ b[i] <= 244
                       /\ b[i] = 240 => b[i + 1] >= 144
                       /\ b[i] = 244 => b[i + 1] <= 143
                    THEN 4 ELSE 0
              [] OTHER -> 0
        good[i \in 1..(Len(b) + 1)] ==
            i = Len(b) + 1 \/ (size(i) > 0 /\ good[i + size(i)])
    IN  good[1]

\* __FXCFControlPacketAppendBase64: four characters for each three bytes.  A digit
\* d of the alphabet is the number 1000 + d.
Base64(b) ==
    LET At(i) == IF i \in DOMAIN b THEN b[i] ELSE 0
        Digits(i) == <<At(i) \div 4, (At(i) % 4) * 16 + At(i + 1) \div 16,
                       (At(i + 1) % 16) * 4 + At(i + 2) \div 64, At(i + 2) % 64>>
        pad(i) == IF i + 1 > Len(b) THEN 2 ELSE IF i + 2 > Len(b) THEN 1 ELSE 0
        block(i) == [k \in 1..4 |-> IF k > 4 - pad(i) THEN 61 ELSE 1000 + Digits(i)[k]]
    IN  [n \in 1..((Len(b) + 2) \div 3) |-> block(3 * n - 2)]

\* A date is counted in quarters of a millisecond; a second has 10 of those here
\* (1000 in the code).
Second == 40
\* __FXCFControlPacketAppendISODate: modf cuts towards zero.
DateText(time) ==
    LET size == IF time >= 0 THEN time ELSE -time
        seconds == IF time >= 0 THEN size \div Second ELSE -(size \div Second)
        fraction == size % Second
    IN  <<1000 + seconds>>
        \o (IF fraction = 0 THEN <<>> ELSE <<46, 2000 + (fraction + 2) \div 4>>)
        \o <<90>>

-----------------------------------------------------------------------------
(* Allocation.                                                             *)

Depth == Len(SelectSeq(todo, LAMBDA c : c.do = "free"))
Free(blocks) == <<[do |-> "free", blocks |-> blocks]>>

\* The call fails, and every function that is active frees what it has and fails.
Fail ==
    /\ status' = "failing"
    /\ todo' = SelectSeq(Tail(todo), LAMBDA c : c.do = "free")

Starve == starved' = TRUE /\ Fail /\ UNCHANGED <<text, capacity, heap>>

Doing(do) == status = "running" /\ todo # <<>> /\ Head(todo).do = do
Now == Head(todo)
Become(calls) == todo' = calls \o Tail(todo)

Init ==
    /\ value \in Values
    /\ todo = <<[do |-> "value", value |-> value]>>
    /\ text = <<>> /\ capacity = 0 /\ heap = {}
    /\ status = "running" /\ starved = FALSE

\* __FXCFTextBufferReserve for the bytes and the terminator.
Required(t) == Len(text) + Len(t) + 1

Grown(required) ==
    LET from[c \in 1..(2 * SizeMax)] ==
            IF c >= required THEN c
            ELSE IF c > SizeMax \div 2 THEN required ELSE from[2 * c]
    IN  from[IF capacity > 0 THEN capacity ELSE FirstSize]

AppendBytes ==
    /\ Doing("append")
    /\ LET required == Required(Now.text) IN
        \/ required > SizeMax /\ Starve
        \/ required > capacity /\ Starve
        \/ /\ required <= SizeMax
           /\ text' = text \o Now.text
           /\ IF required <= capacity THEN UNCHANGED <<capacity, heap>>
              ELSE capacity' = Grown(required) /\ heap' = heap \cup {<<"buffer">>}
           /\ Become(<<>>)
           /\ UNCHANGED <<status, starved>>
    /\ UNCHANGED value

\* calloc of a block, or of none.
Allocate ==
    /\ Doing("allocate")
    /\ \/ Starve
       \/ /\ heap' = heap \cup {Now.block} /\ Become(<<>>)
          /\ UNCHANGED <<text, capacity, status, starved>>
    /\ UNCHANGED value

\* __FXCFControlPacketCopyCString: what has no UTF-8 has no text.
CopyCString ==
    /\ Doing("copy")
    /\ \/ Starve
       \/ /\ IF Now.string.utf8
             THEN heap' = heap \cup {Now.block} /\ Become(<<>>) /\ UNCHANGED status
             ELSE Fail /\ UNCHANGED heap
          /\ UNCHANGED <<text, capacity, starved>>
    /\ UNCHANGED value

Copy(s, block) == <<[do |-> "copy", string |-> s, block |-> block]>>
NewBlock(block) == <<[do |-> "allocate", block |-> block]>>

\* Frees go on while a call fails.
FreeBlocks ==
    /\ status \in {"running", "failing"} /\ todo # <<>> /\ Now.do = "free"
    /\ heap' = heap \ Now.blocks
    /\ Become(<<>>)
    /\ UNCHANGED <<value, text, capacity, status, starved>>

-----------------------------------------------------------------------------
(* __FXCFControlPacketAppendValueJSON and what it calls.                   *)

\* __FXCFControlPacketAppendDictionaryJSON and the functions that copy sorted
\* texts: an array of entries, the text of each, sorted, then the calls of body.
\* Mutant: the texts are not freed with the entries.
MutEntryBlocks(n) == {<<"entries", Depth>>}
EntryBlocks(n) == {<<"entries", Depth>>} \cup {<<"text", Depth, i>> : i \in 1..n}

Entries(strings) ==
    IF strings = <<>> THEN <<>>
    ELSE NewBlock(<<"entries", Depth>>)
         \o <<[do |-> "texts", strings |-> strings, of |-> Now.value]>>

\* The entries are there; from now on they are freed.
Texts ==
    /\ Doing("texts")
    /\ LET n == Len(Now.strings) IN
        Become([i \in 1..n |-> Copy(Now.strings[i], <<"text", Depth, i>>)[1]]
               \o <<[do |-> "sort", of |-> Now.of]>>
               \o Free(EntryBlocks(n)))
    /\ UNCHANGED <<value, text, capacity, heap, status, starved>>

Keys(v) == IF v.type = "dictionary" THEN [i \in DOMAIN v.entries |-> v.entries[i].key]
           ELSE v.items
TextOf(s) == CString(s.text)

\* qsort by strcmp: any order in which no text comes after a greater one.
Orders(keys) ==
    LET indices == DOMAIN keys IN
    {p \in [indices -> indices] :
        /\ \A i, j \in indices : i < j => p[i] # p[j]
        /\ \A i, j \in indices : i < j => NotAfter(TextOf(keys[p[i]]), TextOf(keys[p[j]]))}

Sort ==
    /\ Doing("sort")
    /\ \E order \in Orders(Keys(Now.of)) :
        LET Name(i) == JSONString(TextOf(Keys(Now.of)[order[i]]))
            Member(i) == Name(i) \o Append1(Colon)
                         \o <<[do |-> "value", value |-> Now.of.entries[order[i]].value]>>
        IN  Become(IF Now.of.type = "dictionary"
                   THEN Separated([i \in DOMAIN order |-> Member(i)])
                   ELSE Append1(<<91>>) \o Separated([i \in DOMAIN order |-> Name(i)])
                        \o Append1(<<93>>))
    /\ UNCHANGED <<value, text, capacity, heap, status, starved>>

Object(name, calls) ==
    Append1(<<123, Quote>> \o name \o <<Quote>> \o Colon) \o calls \o Append1(<<125>>)

Calls(v) ==
    CASE v.type = "null" -> JSONString(Nil)
      [] v.type = "string" ->
            Copy(v, <<"copy", Depth>>) \o JSONString(TextOf(v)) \o Free({<<"copy", Depth>>})
      [] v.type = "boolean" -> Append1(Truth(v.value))
      [] v.type = "number" -> Append1(NumberText(v))
      [] v.type = "date" ->
            Append1(<<123, Quote>> \o DateName \o <<Quote, 58, Quote>> \o DateText(v.time)
                    \o <<Quote, 125>>)
      [] v.type = "data" /\ DataIsUTF8(v.bytes) ->
            NewBlock(<<"copy", Depth>>) \o Object(DataText, JSONString(CString(v.bytes)))
            \o Free({<<"copy", Depth>>})
      [] v.type = "data" /\ ~DataIsUTF8(v.bytes) ->
            Append1(<<123, Quote>> \o DataBase64 \o <<Quote, 58, Quote>>)
            \o FlattenSeq([i \in DOMAIN Base64(v.bytes) |-> Append1(Base64(v.bytes)[i])])
            \o Append1(<<Quote, 125>>)
      [] v.type = "array" ->
            Append1(<<91>>)
            \o Separated([i \in DOMAIN v.items |-> <<[do |-> "value", value |-> v.items[i]]>>])
            \o Append1(<<93>>)
      [] v.type = "dictionary" -> Append1(<<123>>) \o Entries(Keys(v)) \o Append1(<<125>>)
      \* The flags or names of a profile: texts first, brackets afterwards.
      [] v.type = "names" ->
            IF v.items = <<>> THEN Append1(<<91>>) \o Append1(<<93>>) ELSE Entries(v.items)

\* An object of another type, and a date beyond the calendar, have no text.
Value ==
    /\ Doing("value")
    /\ IF Now.value.type = "other" THEN Fail
       ELSE Become(Calls(Now.value)) /\ UNCHANGED status
    /\ UNCHANGED <<value, text, capacity, heap, starved>>

\* _FXCFControlPacketCopyCanonicalJSON returns: the buffer is detached, or freed.
Return ==
    /\ todo = <<>> /\ status \in {"running", "failing"}
    /\ IF status = "running" THEN status' = "returned" /\ UNCHANGED <<text, capacity, heap>>
       ELSE /\ status' = "refused" /\ heap' = heap \ {<<"buffer">>}
            /\ text' = <<>> /\ capacity' = 0
    /\ UNCHANGED <<value, todo, starved>>

Next ==
    \/ AppendBytes \/ Allocate \/ CopyCString \/ FreeBlocks
    \/ Texts \/ Sort \/ Value \/ Return

Spec == Init /\ [][Next]_vars
-----------------------------------------------------------------------------
(* A text as it is read: a value and where it ends.  words are the words    *)
(* that are accepted in place of the digits of a number: none in JSON.      *)

Unread == [ok |-> FALSE, value |-> [kind |-> "nothing"], end |-> 0]
Parsed(v, end) == [ok |-> TRUE, value |-> v, end |-> end]
At(t, i) == IF i \in DOMAIN t THEN t[i] ELSE -1

Unescaped == [c \in {Quote, Backslash, 110, 114, 116} |->
                 CASE c = 110 -> 10 [] c = 114 -> 13 [] c = 116 -> 9 [] OTHER -> c]

RECURSIVE ReadString(_, _, _)
ReadString(t, i, s) ==
    CASE At(t, i) = Quote -> Parsed([kind |-> "string", text |-> s], i + 1)
      [] At(t, i) = Backslash /\ At(t, i + 1) \in DOMAIN Unescaped ->
            ReadString(t, i + 2, Append(s, Unescaped[t[i + 1]]))
      [] At(t, i) = Backslash /\ At(t, i + 1) = 117 /\ At(t, i + 2) \in 0..31 ->
            ReadString(t, i + 3, Append(s, t[i + 2]))
      [] At(t, i) >= 32 /\ At(t, i) \notin {Quote, Backslash} ->
            ReadString(t, i + 1, Append(s, t[i]))
      [] OTHER -> Unread

RECURSIVE EndOfDigits(_, _)
EndOfDigits(t, i) == \* digits, and within them a point and an exponent
    IF At(t, i) \in (48..57) \cup {43, 45, 46, 101} THEN EndOfDigits(t, i + 1) ELSE i

ReadNumber(t, i, words) ==
    LET negative == At(t, i) = 45
        start == IF negative THEN i + 1 ELSE i
        end == IF At(t, start) \in 48..57 THEN EndOfDigits(t, start)
               ELSE IF <<At(t, start)>> \in words THEN start + 1 ELSE start
    IN  IF end = start THEN Unread
        ELSE Parsed([kind |-> "number", negative |-> negative,
                     digits |-> SubSeq(t, start, end - 1)], end)

RECURSIVE ReadJSON(_, _, _), ReadItems(_, _, _, _), ReadMembers(_, _, _, _, _)
ReadJSON(t, i, words) ==
    CASE At(t, i) = Quote -> ReadString(t, i + 1, <<>>)
      [] At(t, i) \in {116, 102} -> Parsed([kind |-> "boolean", value |-> t[i] = 116], i + 1)
      [] At(t, i) = 91 -> ReadItems(t, i + 1, <<>>, words)
      [] At(t, i) = 123 -> ReadMembers(t, i + 1, <<>>, {}, words)
      [] OTHER -> ReadNumber(t, i, words)
\* Items that are separated, up to the bracket.
ReadItems(t, i, items, words) ==
    LET end == At(t, i) = 93
        start == IF items = <<>> THEN i ELSE i + 1
        next == ReadJSON(t, start, words)
    IN  IF end THEN Parsed([kind |-> "array", items |-> items], i + 1)
        ELSE IF (items # <<>> /\ At(t, i) # 44) \/ ~next.ok THEN Unread
        ELSE ReadItems(t, next.end, Append(items, next.value), words)
\* Members whose names ascend.
ReadMembers(t, i, names, members, words) ==
    LET start == IF names = <<>> THEN i ELSE i + 1
        name == ReadJSON(t, start, words)
        next == ReadJSON(t, name.end + 1, words)
    IN  IF At(t, i) = 125
        THEN Parsed([kind |-> "object", count |-> Len(names), members |-> members], i + 1)
        ELSE IF \/ names # <<>> /\ At(t, i) # 44
                \/ ~name.ok \/ name.value.kind # "string" \/ At(t, name.end) # 58 \/ ~next.ok
                \/ names # <<>> /\ ~NotAfter(Last(names), name.value.text)
             THEN Unread
        ELSE ReadMembers(t, next.end, Append(names, name.value.text),
                         members \cup {<<name.value.text, next.value>>}, words)

-----------------------------------------------------------------------------
(* What the text has to say.                                               *)

One(name, s) ==
    [kind |-> "object", count |-> 1,
     members |-> {<<name, [kind |-> "string", text |-> s]>>}]

\* The date to the nearest millisecond.
Rounded(time) ==
    LET ms == (time + 2) \div 4 IN
    <<1000 + ms \div (Second \div 4)>>
    \o (IF time % Second = 0 THEN <<>> ELSE <<46, 2000 + (ms % (Second \div 4))>>)
    \o <<90>>

RECURSIVE Meaning(_)
Meaning(v) ==
    CASE v.type = "null" -> [kind |-> "string", text |-> Nil]
      [] v.type = "string" -> [kind |-> "string", text |-> TextOf(v)]
      [] v.type = "boolean" -> [kind |-> "boolean", value |-> v.value]
      [] v.type = "number" -> [kind |-> "number", negative |-> v.negative, digits |-> Unsigned(v)]
      [] v.type = "date" -> One(DateName, Rounded(v.time))
      [] v.type = "data" ->
            IF DataIsUTF8(v.bytes) THEN One(DataText, CString(v.bytes))
            ELSE One(DataBase64, FlattenSeq(Base64(v.bytes)))
      [] v.type = "array" ->
            [kind |-> "array", items |-> [i \in DOMAIN v.items |-> Meaning(v.items[i])]]
      [] v.type = "dictionary" ->
            [kind |-> "object", count |-> Len(v.entries),
             members |-> {<<TextOf(v.entries[i].key), Meaning(v.entries[i].value)>> :
                             i \in DOMAIN v.entries}]
      [] v.type = "names" ->
            [kind |-> "array",
             items |-> [i \in DOMAIN v.items |->
                [kind |-> "string",
                 text |-> SetToSortSeq({<<TextOf(v.items[j]), j>> : j \in DOMAIN v.items},
                             LAMBDA x, y : x # y /\ NotAfter(x[1], y[1])
                                           /\ (x[1] = y[1] => x[2] < y[2]))[i][1]]]]

\* A string without UTF-8 or an object of another type in v, which has no text.
RECURSIVE Untold(_)
Untold(v) ==
    CASE v.type = "string" -> ~v.utf8
      [] v.type = "other" -> TRUE
      [] v.type \in {"array", "names"} -> \E i \in DOMAIN v.items : Untold(v.items[i])
      [] v.type = "dictionary" ->
            \E e \in ToSet(v.entries) : Untold(e.key) \/ Untold(e.value)
      [] OTHER -> FALSE

\* A date that is printed as it is rounded: not before 1970, and not in the last
\* half millisecond of a second.
RECURSIVE Datable(_)
Datable(v) ==
    CASE v.type = "date" -> v.time >= 0 /\ (v.time + 2) % Second >= 2
      [] v.type = "array" -> \A i \in DOMAIN v.items : Datable(v.items[i])
      [] v.type = "dictionary" -> \A e \in ToSet(v.entries) : Datable(e.value)
      [] OTHER -> TRUE

\* No number in v is a NaN or infinite.
RECURSIVE Finite(_)
Finite(v) ==
    CASE v.type = "number" -> v.class = "finite"
      [] v.type = "array" -> \A i \in DOMAIN v.items : Finite(v.items[i])
      [] v.type = "dictionary" -> \A e \in ToSet(v.entries) : Finite(e.value)
      [] OTHER -> TRUE

\* A text is made whole or not at all.  The terminator is always inside the buffer.
\* A text that is returned says what the value says, whatever its strings have up to
\* the first NUL and whatever the order of its dictionaries: it is JSON, but for the
\* words nan and inf, which stand in it exactly where the value has such a real, so
\* that it is all JSON if, and only if, its numbers are finite.  It is all that is
\* left allocated.  Without it nothing is, and then there was no memory or something
\* in the value that has no text.
TextWhole ==
    /\ capacity > 0 => Len(text) < capacity /\ capacity <= SizeMax
    /\ status = "returned" =>
        /\ heap = {<<"buffer">>} /\ ~Untold(value) /\ ~starved
        /\ Datable(value) =>
             ReadJSON(text, 1, {NotANumber, Infinity}) = Parsed(Meaning(value), Len(text) + 1)
        /\ LET json == ReadJSON(text, 1, {}) IN
           Finite(value) <=> json.ok /\ json.end = Len(text) + 1
    /\ status = "refused" => heap = {} /\ (starved \/ Untold(value))
=============================================================================
