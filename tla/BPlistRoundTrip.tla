--------------------------- MODULE BPlistRoundTrip ---------------------------
(***************************************************************************)
(* A property list is written and the data is read again, as the control   *)
(* packet code does at its two ends: BPlistWriter, then BPlistParser on    *)
(* what it returned.                                                       *)
(***************************************************************************)
EXTENDS BPlistWriter, BPlistParser

CONSTANT Text    \* [Node -> value]: the characters of the strings

\* CFDictionary compares its keys by their characters and keeps no two that are equal.
ASSUME KeysDiffer ==
    \A g \in Graphs : \A n \in Node :
        g[n].kind = "dictionary" =>
            \A i, j \in DOMAIN g[n].items :
                LET key == g[n].items[i]
                    other == g[n].items[j]
                IN  /\ i % 2 = 1 /\ j % 2 = 1 /\ i # j
                    /\ g[key].kind = "string" /\ g[other].kind = "string"
                    => Text[key] # Text[other]

\* The data: the table with the characters in place of the objects.
Data(d) ==
    [trailer |-> TRUE, offsets |-> TRUE, top |-> d.top,
     table |-> [i \in DOMAIN d.table |->
                  [kind |-> d.table[i].kind, refs |-> d.table[i].refs,
                   text |-> Text[d.table[i].node]]]]

\* Nobody reads yet.
Waiting == /\ doc = NULL /\ wants = FALSE /\ phase = "none" /\ frames = <<>>
           /\ control = NULL /\ cache = {} /\ inProgress = {} /\ rc = <<>>
           /\ todo = <<>> /\ tables = FALSE /\ arrays = {} /\ format = "stale"
           /\ error = "none" /\ made = 0 /\ refused = FALSE /\ result = NULL

\* The caller reads the data it has just got.
ReadBack ==
    /\ phase = "none" /\ written # NULL
    /\ doc' = Data(written) /\ phase' = "idle"
    /\ control' = [op |-> "loop"]
    /\ rc' = [i \in 0..(Len(written.table) - 1) |-> 0]
    /\ wants' = TRUE /\ error' = "stale"
    /\ UNCHANGED <<writerVars, frames, cache, inProgress, todo, tables, arrays, format, made,
                   refused, result>>

RoundTripInit == WriterInit /\ Waiting

RoundTripNext ==
    \/ WriterNext /\ UNCHANGED vars
    \/ ReadBack
    \/ phase # "none" /\ Next /\ UNCHANGED writerVars

RoundTripSpec == RoundTripInit /\ [][RoundTripNext]_<<writerVars, vars>>
\* The calls run on their caller's thread, with nothing to wait for.
FairRoundTrip == RoundTripSpec /\ WF_<<writerVars, vars>>(RoundTripNext)

-----------------------------------------------------------------------------
(* Properties.                                                             *)

\* The object that entry i stands for.
Original(i) == objects[i + 1]

\* What the reader returns is what the writer was given: object for object the
\* same kinds, the same elements in the same order, the same pairs, and objects
\* that were shared are shared again.  Never a part of it, not even when memory
\* runs out.
SameAgain ==
    result # NULL =>
        /\ Original(result) = root
        /\ \A i \in Whole :
            /\ Entry(i).kind = graph[Original(i)].kind
            /\ Entry(i).text = Text[Original(i)]
            /\ [k \in DOMAIN Stored(i) |-> Original(Stored(i)[k])] = RefOrder(Original(i))

\* What has been written is read when memory suffices, with no error.
ReadsWhatItWrote ==
    phase = "done" /\ ~refused => result # NULL /\ error = "none"

\* Writing and reading give the same again.
RoundTrips == SameAgain /\ ReadsWhatItWrote
=============================================================================
