--------------------------- MODULE NotifyOwnership ---------------------------
(***************************************************************************)
(* NotifyClient with the structures the code works on: the decoded packet  *)
(* of an outcome, whose strings the outcome only points to; the cached      *)
(* registrations of the client's table and the transition, which retain    *)
(* the strings they point to.                                              *)
(*                                                                         *)
(* The step Apply of NotifyClient becomes the calls of a client: an        *)
(* outcome is made, a transition from it and from the cached registration, *)
(* the table is changed, and what is not needed any more is cleared, the   *)
(* outcome as soon as the transition is there or later.  No other answer   *)
(* is applied meanwhile (the table has a lock of the client's).            *)
(*                                                                         *)
(* Session, scope and name of a registration are strings of its token that *)
(* are always handled alike; name stands for the three.                    *)
(***************************************************************************)
EXTENDS Integers, FiniteSets

CONSTANTS
    Binding, NULL, Thread, Token, BindingOf, MaxGeneration, MaxRenewals, Lossy,
                    \* of NotifyClient
    Str             \* string objects; bounds how many there are at a time

VARIABLES
    call, reply, late, result, known, bound, last, first, generation, renewals,
    taken, displaced, reported,    \* of NotifyClient
    table,      \* [Token -> struct _FXCFControlNotifyCachedRegistration, or NULL]
    holder,     \* the thread that applies an answer, or NULL
    outcome,    \* its struct _FXCFControlNotifyOutcome, or NULL if there is none
    packet,     \* the strings of the packet that the outcome holds
    transition, \* its struct _FXCFControlNotifyTransition, or NULL
    rc,         \* [Str -> Nat]: the retain count of a string, 0 if it is no object
    text        \* [Str -> Token \cup Binding \cup {NULL}]: its contents

clientVars  == <<call, reply, late, result>>
daemonVars  == <<known, bound, last, first, generation, renewals>>
history     == <<taken, displaced, reported>>
structures  == <<table, holder, outcome, packet, transition>>
strings     == <<rc, text>>
vars == <<clientVars, daemonVars, history, structures, strings>>

-----------------------------------------------------------------------------
(* What the structures say: pointers replaced by the contents.             *)

Deref(s) == IF s = NULL THEN NULL ELSE text[s]
Contents(r) ==
    IF r = NULL THEN NULL
    ELSE [binding |-> Deref(r.binding), last |-> r.last, first |-> r.first]

cache == [t \in Token |-> Contents(table[t])]

Client == INSTANCE NotifyClient

\* The strings a cached registration has retained.
Strings(r) == IF r = NULL THEN {} ELSE {r.name, r.binding} \ {NULL}
Released(tr) == IF tr = NULL THEN {} ELSE {tr.released} \ {NULL}
Registered(tr) == IF tr = NULL THEN {} ELSE Strings(tr.registration)

Structure == [name : Str, binding : Str \cup {NULL}, last : Nat, first : BOOLEAN]
OutcomeStructure ==
    [kind : {"error"}, family : Client!Family]
    \cup [kind : {"registration"}, registration : Structure]
    \cup [kind : {"check"}, registration : Structure, generation : Nat, changed : BOOLEAN]
    \cup [kind : {"validity"}, valid : BOOLEAN]
    \cup [kind : {"cancel"}, canceled : BOOLEAN]
    \cup [kind : {"name_state", "post"}]
TransitionStructure ==
    [ok : BOOLEAN, registration : Structure \cup {NULL}, released : Str \cup {NULL},
     changed : BOOLEAN \cup {NULL}, valid : BOOLEAN \cup {NULL}, family : Client!Family]

ASSUME TokensAssumption ==
    /\ IsFiniteSet(Token) /\ BindingOf \in [Token -> Binding \cup {NULL}]
    /\ {MaxGeneration, MaxRenewals} \subseteq Nat /\ Lossy \in BOOLEAN
ASSUME NullIsNothing ==
    NULL \notin Str \cup Token \cup Binding \cup Thread \cup BOOLEAN
               \cup Structure \cup OutcomeStructure \cup TransitionStructure
               \cup Client!Registration \cup Client!Profile

-----------------------------------------------------------------------------
(* Reference counts.                                                       *)

One(condition) == IF condition THEN 1 ELSE 0
Retained(count, S) == [s \in Str |-> count[s] + One(s \in S)]
Dropped(count, S) == [s \in Str |-> count[s] - One(s \in S)]
\* The strings whose count has become 0 are freed.
Surviving == text' = [s \in Str |-> IF rc'[s] = 0 THEN NULL ELSE text[s]]

Init ==
    /\ table = [t \in Token |-> NULL]
    /\ holder = NULL /\ outcome = NULL /\ packet = {} /\ transition = NULL
    /\ rc = [s \in Str |-> 0]
    /\ text = [s \in Str |-> NULL]
    /\ Client!Init

-----------------------------------------------------------------------------
(* The daemon, and the calls of the client (external).                     *)

Waiting(c) == holder # c

Outside ==
    /\ UNCHANGED <<structures, strings>>
    /\ \/ \E c \in Thread :
            /\ Waiting(c)
            /\ \/ \E op \in Client!Operation, t \in Token : Client!Ask(c, op, t)
               \/ Client!Handle(c) \/ Client!Refuse(c) \/ Client!TimeOut(c)
       \/ Client!HandleLate \/ Client!Post \/ Client!Restart

-----------------------------------------------------------------------------
(* _FXCFControlNotifyOutcomeInit.  The packet of a response that has a      *)
(* registration or a name is an object with strings of its own.            *)

\* The contents of the strings of the packet that is the answer p about t.
TextsIn(p, t) ==
    IF "registration" \in DOMAIN p THEN {t, p.registration.binding} \ {NULL}
    ELSE IF p.kind \in {"NotifyCancel", "NotifyNameState"} THEN {t}
    ELSE {}

Free == {s \in Str : rc[s] = 0}
\* The objects the strings with these contents may become.
NewStrings(texts) ==
    {f \in [texts -> Free] : \A x, y \in texts : f[x] = f[y] => x = y}

OutcomeInit(c) ==
    /\ holder = NULL /\ reply[c] # NULL
    /\ \E o \in Client!NotifyOutcomes(reply[c]),
          at \in NewStrings(TextsIn(reply[c], call[c].token)) :
        LET t == call[c].token
            texts == DOMAIN at
            new == {at[x] : x \in texts}
        IN  /\ packet' = new
            /\ rc' = Retained(rc, new)
            /\ text' = [s \in Str |-> IF s \in new THEN CHOOSE x \in texts : at[x] = s
                                      ELSE text[s]]
            /\ outcome' = IF "registration" \notin DOMAIN o THEN o
                          ELSE [o EXCEPT !.registration =
                                   [name |-> at[t],
                                    binding |-> IF o.registration.binding = NULL THEN NULL
                                                ELSE at[o.registration.binding],
                                    last |-> o.registration.last,
                                    first |-> o.registration.first]]
    /\ holder' = c
    /\ UNCHANGED <<clientVars, daemonVars, history, table, transition>>

\* The response makes no outcome; its packet is released in the same call.
OutcomeFails(c) ==
    /\ holder = NULL
    /\ UNCHANGED <<structures, strings>>
    /\ Client!Ignore(c)

-----------------------------------------------------------------------------
(* _FXCFControlNotifyTransitionInit.                                       *)

\* The outcome as the rules of NotifyTransition read it.
Read(o) ==
    IF "registration" \in DOMAIN o
    THEN [o EXCEPT !.registration = Contents(o.registration)] ELSE o

Family(o) == IF o.kind = "error" THEN o.family ELSE "ok"

\* The registration of the transition: the view of the response when it is stored,
\* the strings of the response with the cached binding in place of one that is
\* not told when it is merged, else what is cached.
\* Mutant: a binding the response does not tell is not taken from the cache.
MutSource(op, o, cached, rule) ==
    IF o.kind = "error" \/ op \in {"get_state", "is_valid_token"} THEN cached
    ELSE IF op = "check"
    THEN [name |-> o.registration.name, binding |-> o.registration.binding,
          last |-> rule.registration.last, first |-> rule.registration.first]
    ELSE o.registration
Source(op, o, cached, rule) ==
    IF o.kind = "error" \/ op \in {"get_state", "is_valid_token"} THEN cached
    ELSE IF op = "check"
    THEN [name |-> o.registration.name,
          binding |-> IF o.registration.binding # NULL THEN o.registration.binding
                      ELSE cached.binding,
          last |-> rule.registration.last, first |-> rule.registration.first]
    ELSE o.registration

\* Mutant: the strings of a registration that is stored are borrowed from the
\* packet.
MutAssigned(o, r) == IF o.kind = "registration" THEN {} ELSE Strings(r)
\* __FXCFControlNotifyCachedRegistrationAssign retains what it stores.
Assigned(o, r) == Strings(r)

TransitionInit(c) ==
    /\ holder = c /\ outcome # NULL /\ transition = NULL
    /\ LET op == call[c].op
           cached == table[call[c].token]
           rule == Client!Transition(op, Read(outcome), Contents(cached))
           registration == IF rule.registration = NULL THEN NULL
                           ELSE Source(op, outcome, cached, rule)
           released == IF rule.released = NULL THEN NULL ELSE cached.binding
       IN  /\ transition' = [ok |-> rule.ok, registration |-> registration,
                             released |-> released, changed |-> rule.changed,
                             valid |-> rule.valid, family |-> Family(outcome)]
           /\ rc' = Retained(Retained(rc, Assigned(outcome, registration)),
                             {released} \ {NULL})
    /\ UNCHANGED <<clientVars, daemonVars, history, table, holder, outcome, packet, text>>

-----------------------------------------------------------------------------
(* The client changes its table, and clears what it has had (external; the *)
(* functions it calls are the code's).                                     *)

Applying(c) == holder = c /\ transition # NULL /\ reply[c] # NULL

\* _FXCFControlNotifyCachedRegistrationClear of the old registration, then
\* _FXCFControlNotifyCachedRegistrationInitCopy of the one of the transition.
Replaced(old, new) == Retained(Dropped(rc, Strings(old)), Strings(new))

Adopt(c) ==
    /\ Applying(c)
    /\ LET t == call[c].token IN
        IF transition.ok
        THEN /\ table' = [table EXCEPT ![t] = transition.registration]
             /\ rc' = Replaced(table[t], transition.registration)
             /\ result' = [result EXCEPT ![c] = [changed |-> transition.changed,
                                                valid |-> transition.valid]]
             /\ Client!Account(c, t, [registration |-> Contents(transition.registration),
                                      released |-> Deref(transition.released),
                                      changed |-> transition.changed])
        ELSE UNCHANGED <<table, rc, result, history>>
    /\ Surviving
    /\ Client!Return(c)
    /\ UNCHANGED <<holder, outcome, packet, transition>>

\* _FXCFControlNotifyOutcomeClear: the packet goes, and its strings with it
\* unless others have retained them.
OutcomeClear(c) ==
    /\ holder = c /\ outcome # NULL /\ transition # NULL
    /\ outcome' = NULL /\ packet' = {}
    /\ rc' = Dropped(rc, packet) /\ Surviving
    /\ UNCHANGED <<clientVars, daemonVars, history, table, holder, transition>>

Cleared(tr) == Registered(tr) \cup Released(tr)

\* _FXCFControlNotifyTransitionClear, at the end.
TransitionClear(c) ==
    /\ holder = c /\ outcome = NULL /\ transition # NULL /\ reply[c] = NULL
    /\ rc' = Dropped(rc, Cleared(transition)) /\ Surviving
    /\ transition' = NULL /\ holder' = NULL
    /\ UNCHANGED <<clientVars, daemonVars, history, table, outcome, packet>>

Next ==
    \/ Outside
    \/ \E c \in Thread : \/ OutcomeInit(c) \/ OutcomeFails(c) \/ TransitionInit(c)
                         \/ Adopt(c) \/ OutcomeClear(c) \/ TransitionClear(c)

Spec == Init /\ [][Next]_vars

-----------------------------------------------------------------------------
(* Properties.                                                             *)

TypeOK ==
    /\ table \in [Token -> Structure \cup {NULL}]
    /\ holder \in Thread \cup {NULL}
    /\ outcome \in OutcomeStructure \cup {NULL} /\ packet \in SUBSET Str
    /\ transition \in TransitionStructure \cup {NULL}
    /\ rc \in [Str -> Nat]
    /\ text \in [Str -> Token \cup Binding \cup {NULL}]

\* The strings that something points to and counts on.
Holders(s) ==
    Cardinality({t \in Token : s \in Strings(table[t])})
    + One(s \in packet) + One(s \in Registered(transition)) + One(s \in Released(transition))

\* The count of a string is the number of those that hold it: the packet while the
\* outcome is there, cached registrations, the transition.  So an entry of the
\* table and a binding that is handed back outlive the packet they came from and
\* each other, in whatever order they are cleared, and nothing is left behind.
\* The outcome points into its packet, and the name of an entry stays that of its
\* token.
StringsOwned ==
    /\ TypeOK
    /\ \A s \in Str : rc[s] = Holders(s)
    /\ outcome # NULL /\ "registration" \in DOMAIN outcome =>
        Strings(outcome.registration) \subseteq packet
    /\ \A t \in Token : table[t] # NULL => text[table[t].name] = t

\* With the contents in place of the pointers, the table is that of NotifyClient,
\* and the calls that apply an answer are its one step.
ImplementsNotifyClient == Client!Spec

\* NotifyClient's properties of one thread whose calls are all answered.
CacheInStep == Client!CacheInStep
ChangeReported == Client!ChangeReported
=============================================================================
