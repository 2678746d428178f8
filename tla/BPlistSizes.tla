----------------------------- MODULE BPlistSizes -----------------------------
(***************************************************************************)
(* The sizes a binary property list states of itself (CFBinaryPList.c):    *)
(* the trailer's, then that of one list of references or of units.  They   *)
(* are multiplied and added in unsigned words, which wrap around, before   *)
(* they are compared with the length of the data, and memory is asked for  *)
(* in between.                                                             *)
(***************************************************************************)
EXTENDS Integers

CONSTANTS
    Word,         \* 2^64
    Widths,       \* 1, 2, 4 and 8
    PointerSize,  \* 8, which is the greatest width
    UnitSize,     \* sizeof(UniChar), 2
    HeaderSize,   \* 8
    TrailerSize,  \* 32
    MemoryMax,    \* no allocation is greater
    Lengths,      \* lengths of data that are tried
    ListHeaders   \* header sizes of a list that are tried

LongMax == Word \div 2 - 1

\* Data has a length that is a CFIndex, and with twice the memory it is less than
\* what a word counts.
SizesOK ==
    /\ {Word, PointerSize, UnitSize, HeaderSize, TrailerSize} \subseteq Nat \ {0}
    /\ MemoryMax \in Nat /\ Lengths \cup ListHeaders \subseteq Nat
    /\ Widths \subseteq Nat \ {0}
    /\ \A n \in Lengths : n >= HeaderSize + TrailerSize /\ n <= LongMax
                            /\ 2 * MemoryMax + n < Word
    /\ \A w \in Widths : w <= PointerSize
    /\ PointerSize \in Widths /\ UnitSize <= PointerSize

VARIABLES
    length,  \* of the data
    table,   \* what the trailer says
    list,    \* what a marker says of its list
    stage    \* "trailer", "tables", "offsets", "list", "elements"; or "refused"

sizeVars == <<length, table, list, stage>>

Nothing == [kind |-> "none"]
InitSizes == length \in Lengths /\ table = Nothing /\ list = Nothing /\ stage = "trailer"

Product(a, b) == (a * b) % Word
Sum(a, b) == (a + b) % Word

\* An allocation of n elements; also a small one may be refused.
MayAllocate(n, size) == n * size <= MemoryMax

Refuse == stage' = "refused" /\ UNCHANGED <<length, table, list>>

-----------------------------------------------------------------------------
(* _FXCFBinaryPListCreateWithData.                                         *)

Trailers ==
    [kind : {"table"}, offsetIntSize : Widths \cup {3}, objectRefSize : Widths \cup {3},
     numObjects : 0..(Word - 1), offsetTableOffset : 0..(length + 1) \cup {Word - 1}]

\* The top object is compared with the number of objects and has no size.
TrailerOK(t) ==
    /\ t.offsetIntSize \in Widths /\ t.objectRefSize \in Widths
    /\ t.numObjects # 0 /\ t.numObjects <= (Word - 1) \div PointerSize
    /\ t.offsetTableOffset >= HeaderSize
    /\ t.offsetTableOffset <= length - TrailerSize
    /\ Sum(t.offsetTableOffset, Product(t.numObjects, t.offsetIntSize)) <= length - TrailerSize

ReadTrailer ==
    /\ stage = "trailer"
    /\ \/ Refuse
       \/ /\ table' \in {t \in Trailers : TrailerOK(t)}
          /\ stage' = "tables" /\ UNCHANGED <<length, list>>

\* The offsets, the cache and the marks.
AllocateTables ==
    /\ stage = "tables"
    /\ \/ Refuse
       \/ /\ MayAllocate(table.numObjects, PointerSize) /\ MayAllocate(table.numObjects, 1)
          /\ stage' = "offsets" /\ UNCHANGED <<length, table, list>>

\* The offset of an object is before the table; its marker has a header of some
\* bytes inside the data and a count of as many bytes as a word.
Lists ==
    [kind : {"array", "dictionary", "bytes", "units"}, count : 0..(Word - 1),
     start : {o + h : o \in HeaderSize..(table.offsetTableOffset - 1), h \in ListHeaders}]

\* Mutant: the references of a dictionary are those of its keys.
MutListSize(l) ==
    CASE l.kind \in {"array", "dictionary"} -> Product(l.count, table.objectRefSize)
      [] l.kind = "bytes" -> l.count
      [] l.kind = "units" -> Product(l.count, UnitSize)
\* The bytes of a list.
ListSize(l) ==
    CASE l.kind = "array" -> Product(l.count, table.objectRefSize)
      [] l.kind = "dictionary" -> Product(Product(l.count, table.objectRefSize), 2)
      [] l.kind = "bytes" -> l.count
      [] l.kind = "units" -> Product(l.count, UnitSize)

\* The checks of __FXBplistParseArray, __FXBplistParseDictionary and of data and
\* strings in __FXBplistParseObjectAtIndex.
ListOK(l) ==
    /\ l.start <= length
    /\ l.count <= LongMax
    /\ l.kind \in {"array", "dictionary"} => l.count <= (Word - 1) \div PointerSize
    /\ l.kind = "units" => l.count <= (Word - 1) \div UnitSize
    /\ Sum(l.start, ListSize(l)) <= length

ReadList ==
    /\ stage = "offsets"
    /\ \/ Refuse
       \/ /\ list' \in {l \in Lists : ListOK(l)}
          /\ stage' = "list" /\ UNCHANGED <<length, table>>

\* Bytes are copied as they are; the others get an array first.
AllocateElements ==
    /\ stage = "list"
    /\ \/ Refuse
       \/ /\ CASE list.kind \in {"array", "dictionary"} -> MayAllocate(list.count, PointerSize)
               [] list.kind = "units" -> MayAllocate(list.count, UnitSize)
               [] list.kind = "bytes" -> TRUE
          /\ stage' = "elements" /\ UNCHANGED <<length, table, list>>

NextSizes == ReadTrailer \/ AllocateTables \/ ReadList \/ AllocateElements

SpecSizes == InitSizes /\ [][NextSizes]_sizeVars

-----------------------------------------------------------------------------
(* Safety.                                                                 *)

\* What is read next lies in the data, although the checks wrap around: the table
\* of offsets before the trailer, and the references or units of a list before the
\* end.  A size that has wrapped never gets its memory.
ReadsInside ==
    /\ stage \in {"offsets", "list", "elements"} =>
        table.offsetTableOffset + table.numObjects * table.offsetIntSize <= length - TrailerSize
    /\ stage = "elements" =>
        list.start + list.count * (CASE list.kind = "array" -> table.objectRefSize
                                     [] list.kind = "dictionary" -> 2 * table.objectRefSize
                                     [] list.kind = "bytes" -> 1
                                     [] list.kind = "units" -> UnitSize) <= length
=============================================================================
