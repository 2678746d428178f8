------------------------------ MODULE Ownership ------------------------------
(***************************************************************************)
(* What the runtime of cort-fx promises a program about the lifetime of    *)
(* its objects, without counts, flags or threads: an object lives exactly  *)
(* as long as somebody holds a strong reference to it, the drop of the     *)
(* last reference begins its death, and a dead object is never referenced  *)
(* or born again.  CFRuntime implements this module.                       *)
(***************************************************************************)
CONSTANTS Holder, Heap, Static, NULL

VARIABLES life,  \* [Heap -> {"unborn", "live", "dying", "dead"}]
          ref    \* [Holder -> Heap \cup Static \cup {NULL}]

Init == /\ life = [o \in Heap |-> "unborn"]
        /\ ref = [h \in Holder |-> NULL]

Referenced(o) == \E h \in Holder : ref[h] = o

\* A new object, referenced by its creator.
Bear(o, h) ==
    /\ life[o] = "unborn" /\ ref[h] = NULL
    /\ life' = [life EXCEPT ![o] = "live"]
    /\ ref' = [ref EXCEPT ![h] = o]

\* A further reference: to a static object, or to one that is live.
Acquire(h, o) ==
    /\ ref[h] = NULL
    /\ o \in Static \/ (o \in Heap /\ life[o] = "live")
    /\ ref' = [ref EXCEPT ![h] = o]
    /\ UNCHANGED life

\* A reference goes; if it was the last one to a heap object, that object dies.
Drop(h) ==
    /\ ref[h] # NULL
    /\ ref' = [ref EXCEPT ![h] = NULL]
    /\ life' = [o \in Heap |->
                  IF o = ref[h] /\ \A g \in Holder \ {h} : ref[g] # o
                  THEN "dying" ELSE life[o]]

\* References change places.
Swap(g, h) ==
    /\ ref' = [ref EXCEPT ![g] = ref[h], ![h] = ref[g]]
    /\ UNCHANGED life

\* The object is gone.  A reference it held itself passes to whoever buries it.
Bury(o, h) ==
    /\ life[o] = "dying"
    /\ life' = [life EXCEPT ![o] = "dead"]
    /\ \/ ref[o] = NULL /\ UNCHANGED ref
       \/ ref[h] = NULL /\ ref' = [ref EXCEPT ![h] = ref[o], ![o] = NULL]

Next ==
    \/ \E o \in Heap, h \in Holder : Bear(o, h) \/ Bury(o, h)
    \/ \E h \in Holder, o \in Heap \cup Static : Acquire(h, o)
    \/ \E h \in Holder : Drop(h)
    \/ \E g, h \in Holder : Swap(g, h)

Spec == Init /\ [][Next]_<<life, ref>>

-----------------------------------------------------------------------------
\* An object is live exactly while it is referenced.
LiveIffReferenced ==
    \A o \in Heap : (life[o] = "live") <=> Referenced(o)
=============================================================================
