--------------------------- MODULE CFRuntimeMisuse ---------------------------
(***************************************************************************)
(* The runtime under clients that break the ownership rule CFRuntime's     *)
(* clients keep: they retain and release objects they hold no reference    *)
(* to, or create with the default allocator while another thread replaces  *)
(* it.                                                                     *)
(***************************************************************************)
EXTENDS CFRuntime

\* The header of o can still be read: it was allocated by an allocator whose
\* deallocate leaves the memory in place, as the allocator of
\* runtime_abort_tests.c does.
Readable(o) == mem[o] \in {"object", "freed"} /\ ~info[o].usesDefault

CallBorrowed(t) ==
    \E o \in Heap :
        /\ Readable(o)
        /\ \/ \E w \in Vacant(t) : Call(t, "retain_load", o, w)
           \/ Call(t, "release_load", o, t)

MisuseNext == Next \/ \E t \in Thread : aborted = "no" /\ CallBorrowed(t)
MisuseSpec == Init /\ [][MisuseNext]_vars

BorrowNext == Next \/ \E t \in Thread : aborted = "no" /\ CallCreateDefault(t)
BorrowSpec == Init /\ [][BorrowNext]_vars

-----------------------------------------------------------------------------
\* Retain never resurrects: once CFRelease has marked an object deallocating,
\* no call changes its count or takes the mark away, whoever makes the call.
NoResurrection ==
    [][\A o \in Heap : info[o].deallocating =>
          info'[o].deallocating /\ info'[o].count = info[o].count]_vars

\* Misuse is detected: a CFRetain or CFRelease that finds the object marked, or
\* becomes marked under it, does not return; it can only reload or abort.
DeadCallsNeverReturn ==
    [][\A t \in Thread :
          /\ pc[t] \in {"retain_cas", "release_cas"}
          /\ obj[t] \in Heap
          /\ Dead(info[obj[t]])
          => pc'[t] = pc[t]]_vars

\* However many releases too many race for the object, one of them finalizes
\* it, and no second one ever does.
FinalizedAtMostOnce == \A o \in Heap : finalized[o] <= 1

\* Death is final, whatever clients do: no object comes back from CFRelease's
\* deallocation, and none goes through it twice.
DeathIsFinal == []FinalizedAtMostOnce /\ NoResurrection

\* docs/cort-subset-0-contract-and-audit.md: "CFAllocatorGetDefault returns a
\* valid allocator".  The allocator a creation with NULL got from
\* CFAllocatorGetDefault is an object when the creation asks it for memory.
DefaultIsValid ==
    \A t \in Thread : pc[t] = "allocate" /\ obj[t] \in Heap =>
                         mem[obj[t]] = "object"
=============================================================================
