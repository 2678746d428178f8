----------------------------- MODULE NotifyClient -----------------------------
(***************************************************************************)
(* A client of the notify service: several threads share one table of      *)
(* cached registrations, call the daemon, and apply the transitions of     *)
(* NotifyTransition to the table as the answers come in.                   *)
(*                                                                         *)
(* The transition rules are the code's.  The daemon, the calls in flight   *)
(* and the threads are outside of the repository; they are modelled from   *)
(* what the packets of fixtures/control carry and from the cases the rules *)
(* tell apart.  A thread applies an answer some time after the daemon gave *)
(* it, so answers to different threads overtake each other; with Lossy, an *)
(* answer may not arrive and a request may reach the daemon late.          *)
(***************************************************************************)
EXTENDS NotifyTransition, FiniteSets

CONSTANTS
    Thread,
    Token,
    BindingOf,      \* [Token -> Binding \cup {NULL}]: as the token is registered
    MaxGeneration,  \* bound on the posts
    MaxRenewals,    \* bound on how often a registration starts over
    Lossy           \* whether calls can time out

ASSUME ClientAssumption ==
    /\ BindingOf \in [Token -> Binding \cup {NULL}]
    /\ {MaxGeneration, MaxRenewals} \subseteq Nat /\ Lossy \in BOOLEAN
    /\ NULL \notin Token \cup Profile
    /\ IsFiniteSet(Token)

VARIABLES
    cache,       \* [Token -> Registration \cup {NULL}]: the client's table
    call,        \* [Thread -> the request it waits for, or NULL]
    reply,       \* [Thread -> the answer under way to it, or NULL]
    late,        \* requests nobody waits for that the daemon may still get
    result,      \* [Thread -> what its last call returned]
    known,       \* [Token -> {"new", "active", "gone"}]: to the daemon
    bound, last, first, \* [Token -> ...]: the daemon's registration
    generation,  \* of the name: posts so far
    renewals,    \* how often a registration started over
    taken,       \* [Binding -> Int]: how often cached, minus handed back
    displaced,   \* [Binding -> Int]: how often an answer displaced it in the cache
    reported     \* [Token -> generations reported since the last store]

clientVars == <<cache, call, reply, result>>
daemonVars == <<known, bound, last, first, generation, renewals>>
history    == <<taken, displaced, reported>>
vars == <<clientVars, late, daemonVars, history>>

Request == [op : Operation, token : Token]
Result == [changed : BOOLEAN \cup {NULL}, valid : BOOLEAN \cup {NULL}]
NoResult == [changed |-> NULL, valid |-> NULL]

Init ==
    /\ cache = [t \in Token |-> NULL]
    /\ call = [c \in Thread |-> NULL]
    /\ reply = [c \in Thread |-> NULL]
    /\ late = {}
    /\ result = [c \in Thread |-> NoResult]
    /\ known = [t \in Token |-> "new"]
    /\ bound = BindingOf
    /\ last = [t \in Token |-> 0]
    /\ first = [t \in Token |-> TRUE]
    /\ generation = 0 /\ renewals = 0
    /\ taken = [b \in Binding |-> 0] /\ displaced = [b \in Binding |-> 0]
    /\ reported = [t \in Token |-> {}]

-----------------------------------------------------------------------------
(* The daemon (external).                                                  *)

\* A registration may be stored with the present generation or with none.
Starts(t) ==
    /\ \E g \in {0, generation} : last' = [last EXCEPT ![t] = g]
    /\ first' = [first EXCEPT ![t] = TRUE]

\* A registration that is suspended or resumed may stay as it is, or start over:
\* with its binding, with another one, or with none (7F:
\* notify.transition.registration.update.resume_replaces_cached).
Renews(t) ==
    \/ UNCHANGED <<bound, last, first, renewals>>
    \/ /\ renewals < MaxRenewals /\ renewals' = renewals + 1
       /\ \E b \in Binding \cup {NULL} : bound' = [bound EXCEPT ![t] = b]
       /\ last' = [last EXCEPT ![t] = 0] /\ first' = [first EXCEPT ![t] = TRUE]

\* The request r changes the daemon's registration of its token.
Effect(r) ==
    LET t == r.token IN
    /\ UNCHANGED generation
    /\ IF r.op = "registration_update" /\ known[t] = "active"
       THEN Renews(t) /\ UNCHANGED known
       ELSE /\ UNCHANGED <<bound, renewals>>
            /\ IF r.op = "registration_store" /\ known[t] = "new"
               THEN known' = [known EXCEPT ![t] = "active"] /\ Starts(t)
               ELSE IF r.op = "check" /\ known[t] = "active"
               THEN /\ last' = [last EXCEPT ![t] = generation]
                    /\ first' = [first EXCEPT ![t] = FALSE]
                    /\ UNCHANGED known
               ELSE IF r.op = "cancel" /\ known[t] = "active"
               THEN known' = [known EXCEPT ![t] = "gone"] /\ UNCHANGED <<last, first>>
               ELSE UNCHANGED <<known, last, first>>

\* The registration of t after the request has been handled.
After(t, binding) == [binding |-> binding, last |-> last'[t], first |-> first'[t]]

Unknown == [kind |-> "Error", code |-> "notify_failed", causes |-> {"invalid_token"}]

\* What it answers.  A token that is gone is invalid, or unknown.  The registration
\* in the answer to a check may come without its binding.
Answers(r) ==
    LET t == r.token IN
    IF r.op = "is_valid_token"
    THEN {[kind |-> "NotifyValidity", valid |-> known[t] = "active"]}
         \cup {p \in {Unknown} : known[t] = "gone"}
    ELSE IF known[t] = "gone" THEN {Unknown}
    ELSE IF r.op = "registration_store"
    THEN {[kind |-> "NotifyRegistrationWrapper", registration |-> After(t, bound'[t])]}
    ELSE IF r.op = "registration_update"
    THEN {[kind |-> "NotifyRegistration", registration |-> After(t, bound'[t])]}
    ELSE IF r.op = "check"
    THEN {[kind |-> "NotifyCheck", generation |-> generation,
           changed |-> first[t] \/ generation > last[t],
           registration |-> After(t, b)] : b \in {NULL, bound'[t]}}
    ELSE IF r.op = "cancel" THEN {[kind |-> "NotifyCancel", canceled |-> TRUE]}
    ELSE {[kind |-> "NotifyNameState"]}

Handle(c) ==
    /\ call[c] # NULL /\ reply[c] = NULL
    /\ Effect(call[c])
    /\ \E p \in Answers(call[c]) : reply' = [reply EXCEPT ![c] = p]
    /\ UNCHANGED <<cache, call, late, result, history>>

\* Answers for reasons that have nothing to do with the token.
Refusals == {[kind |-> "Error", code |-> "notify_failed", causes |-> {"transport_failed"}],
             [kind |-> "GenericObject"]}

Refuse(c) ==
    /\ call[c] # NULL /\ reply[c] = NULL
    /\ \E p \in Refusals : reply' = [reply EXCEPT ![c] = p]
    /\ UNCHANGED <<cache, call, late, result, daemonVars, history>>

HandleLate ==
    \E r \in late :
        /\ Effect(r)
        /\ late' = late \ {r}
        /\ UNCHANGED <<clientVars, history>>

Post ==
    /\ generation < MaxGeneration
    /\ generation' = generation + 1
    /\ UNCHANGED <<clientVars, late, known, bound, last, first, renewals, history>>

\* The daemon restarts and has lost its registrations.
Restart ==
    /\ \E t \in Token : known[t] = "active"
    /\ known' = [t \in Token |-> IF known[t] = "active" THEN "gone" ELSE known[t]]
    /\ UNCHANGED <<clientVars, late, bound, last, first, generation, renewals, history>>

-----------------------------------------------------------------------------
(* The client (external).                                                  *)

InFlight == {call[c] : c \in Thread} \cup late

\* A thread registers a token that is new to everybody, or asks about a token
\* it finds in the table.
Ask(c, op, t) ==
    /\ call[c] = NULL
    /\ IF op = "registration_store"
       THEN known[t] = "new" /\ [op |-> op, token |-> t] \notin InFlight
       ELSE cache[t] # NULL
    /\ call' = [call EXCEPT ![c] = [op |-> op, token |-> t]]
    /\ result' = [result EXCEPT ![c] = NoResult]
    /\ UNCHANGED <<cache, reply, late, daemonVars, history>>

\* Requests that change nothing; it does not matter whether they arrive late.
Questions == {"get_state", "is_valid_token"}

TimeOut(c) ==
    /\ Lossy /\ call[c] # NULL
    /\ call' = [call EXCEPT ![c] = NULL]
    /\ reply' = [reply EXCEPT ![c] = NULL]
    /\ late' = IF reply[c] = NULL /\ call[c].op \notin Questions
               THEN late \cup {call[c]} ELSE late
    /\ UNCHANGED <<cache, result, daemonVars, history>>

-----------------------------------------------------------------------------
(* The client applies an answer: the outcome, the transition, the table.   *)

One(condition) == IF condition THEN 1 ELSE 0

Holds(registration, b) == registration # NULL /\ registration.binding = b

\* The answer brings a registration without b, or another binding in its place.
Displaces(answer, b) ==
    \/ answer.kind \in RegistrationKinds /\ answer.registration.binding # b
    \/ answer.kind = "NotifyCheck" /\ answer.registration.binding \notin {NULL, b}

\* What the caller learns: the bindings that are its own and those it has to
\* give up, and the generations it was told about.  It is not told of a binding
\* that an answer displaces.
Account(c, t, transition) ==
    /\ taken' = [b \in Binding |->
          taken[b] + One(Holds(transition.registration, b) /\ ~Holds(cache[t], b))
                   - One(transition.released = b)]
    /\ displaced' = [b \in Binding |->
          displaced[b] + One(Holds(cache[t], b) /\ Displaces(reply[c], b))]
    /\ reported' = [reported EXCEPT ![t] =
          IF transition.changed = TRUE THEN @ \cup {reply[c].generation}
          ELSE IF reply[c].kind \in RegistrationKinds THEN {} ELSE @]

Return(c) ==
    /\ call' = [call EXCEPT ![c] = NULL]
    /\ reply' = [reply EXCEPT ![c] = NULL]
    /\ UNCHANGED <<late, daemonVars>>

\* The transition replaces what is cached; a failed one leaves it alone.
Apply(c) ==
    LET t == call[c].token IN
    /\ reply[c] # NULL
    /\ \E outcome \in NotifyOutcomes(reply[c]) :
         LET transition == Transition(call[c].op, outcome, cache[t]) IN
         IF transition.ok
         THEN /\ cache' = [cache EXCEPT ![t] = transition.registration]
              /\ result' = [result EXCEPT ![c] = [changed |-> transition.changed,
                                                 valid |-> transition.valid]]
              /\ Account(c, t, transition)
         ELSE UNCHANGED <<cache, result, history>>
    /\ Return(c)

\* The answer makes no outcome.
Ignore(c) ==
    /\ reply[c] # NULL /\ NotifyOutcomes(reply[c]) = {}
    /\ UNCHANGED <<cache, result, history>>
    /\ Return(c)

Next ==
    \/ \E c \in Thread : \/ \E op \in Operation, t \in Token : Ask(c, op, t)
                         \/ Handle(c) \/ Refuse(c) \/ TimeOut(c)
                         \/ Apply(c) \/ Ignore(c)
    \/ HandleLate \/ Post \/ Restart

Spec == Init /\ [][Next]_vars

-----------------------------------------------------------------------------
\* Every variable has its type.
TypeOK ==
    /\ cache \in [Token -> Registration \cup {NULL}]
    /\ call \in [Thread -> Request \cup {NULL}]
    /\ reply \in [Thread -> Profile \cup {NULL}]
    /\ late \subseteq Request
    /\ result \in [Thread -> Result]
    /\ known \in [Token -> {"new", "active", "gone"}]
    /\ bound \in [Token -> Binding \cup {NULL}]
    /\ last \in [Token -> Nat] /\ first \in [Token -> BOOLEAN]
    /\ generation \in Nat /\ renewals \in Nat
    /\ taken \in [Binding -> Int] /\ displaced \in [Binding -> Int]
    /\ reported \in [Token -> SUBSET Nat]

\* However the answers to notify_check overtake each other, a generation is
\* reported as a change only if it is newer than all that were reported, and so
\* never twice, until a registration is stored anew.
ReportsAdvance ==
    [][\A c \in Thread :
          result'[c] # result[c] /\ result'[c].changed = TRUE =>
             \A g \in reported[call[c].token] : reply[c].generation > g]_vars

\* A stale answer never takes the cached registration back: unless the answer
\* is a registration to store, the generation seen does not decrease and a
\* first check that is over does not become pending again.
NeverBack ==
    [][\A c \in Thread : \A t \in Token :
          /\ reply[c] # NULL /\ reply'[c] = NULL
          /\ call[c].op \notin StoreOperation
          /\ cache[t] # NULL /\ cache'[t] # NULL
          => /\ cache'[t].last >= cache[t].last
             /\ cache'[t].first => cache[t].first]_vars

\* Every binding that was cached is accounted for: it is cached still, or it was
\* handed back, or a later answer displaced it.  So a binding is handed back when,
\* and only when, a registration that has it is discarded: once, although the
\* answer to a check may omit it, a renewed registration may lack it or have
\* another, answers overtake each other, and several may tell that the token is gone.
BindingsBalanced ==
    \A b \in Binding :
        taken[b] = Cardinality({t \in Token : Holds(cache[t], b)}) + displaced[b]

\* notify_is_valid_token says "valid" exactly if the registration is still
\* cached when it returns, also when the daemon gave no answer about the token.
ValidityAgreesWithCache ==
    [][\A c \in Thread :
          result'[c] # result[c] /\ result'[c].valid # NULL =>
             (result'[c].valid <=> cache'[call[c].token] # NULL)]_vars

\* A failure that says nothing about the token discards nothing.
OnlyLossDiscards ==
    [][\A t \in Token : cache[t] # NULL /\ cache'[t] = NULL => known[t] = "gone"]_vars

-----------------------------------------------------------------------------
(* One thread, and every call is answered.                                 *)

\* Every change the daemon tells of is reported to the caller.
ChangeReported ==
    [][\A c \in Thread :
          /\ reply[c] # NULL /\ reply'[c] = NULL
          /\ reply[c].kind = "NotifyCheck"
          => result'[c].changed = reply[c].changed]_vars

\* Between calls the cached registration is the daemon's.
CacheInStep ==
    (\A c \in Thread : call[c] = NULL) =>
        \A t \in Token : cache[t] # NULL /\ known[t] = "active" =>
            cache[t] = [binding |-> bound[t], last |-> last[t], first |-> first[t]]
=============================================================================
