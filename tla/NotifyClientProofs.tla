-------------------------- MODULE NotifyClientProofs --------------------------
(***************************************************************************)
(* Proofs about NotifyClient for any number of threads, tokens and         *)
(* bindings, any number of posts, and answers that are lost or overtake    *)
(* each other.  Everything rests on one lemma about Transition: it does    *)
(* one of four things.                                                     *)
(***************************************************************************)
EXTENDS NotifyClient, FiniteSetTheorems, TLAPS

-----------------------------------------------------------------------------
(* The four things a transition can do, in terms of the answer p.          *)

\* An answer that says that the daemon does not have the registration.
SaysGone(p) == \/ p.kind = "NotifyCancel"
               \/ p.kind = "NotifyValidity" /\ ~p.valid
               \/ p.kind = "Error" /\ "invalid_token" \in p.causes

Stores(op, p, cached, tr) ==
    /\ op \in StoreOperation /\ p.kind \in RegistrationKinds
    /\ tr.registration = p.registration
    /\ tr.released = NULL /\ tr.changed = NULL /\ tr.valid = NULL

Merges(op, p, cached, tr) ==
    /\ op = "check" /\ p.kind = "NotifyCheck" /\ cached # NULL
    /\ tr.registration = Merged(p, cached)
    /\ tr.changed = Changed(p, cached)
    /\ tr.released = NULL /\ tr.valid = NULL

Keeps(op, p, cached, tr) ==
    /\ p.kind \notin RegistrationKinds \cup {"NotifyCheck"}
    /\ tr.registration = cached
    /\ tr.released = NULL /\ tr.changed = NULL
    /\ tr.valid = NULL \/ tr.valid = (cached # NULL)

Discards(op, p, cached, tr) ==
    /\ SaysGone(p)
    /\ tr.registration = NULL /\ tr.released = ReleasedBinding(cached)
    /\ tr.changed = NULL /\ tr.valid \in {NULL, FALSE}

Effects(op, p, cached, tr) ==
    Stores(op, p, cached, tr) \/ Merges(op, p, cached, tr)
    \/ Keeps(op, p, cached, tr) \/ Discards(op, p, cached, tr)

Answer(outcome, op, p, cached) ==
    LET tr == Transition(op, outcome, cached) IN tr.ok => Effects(op, p, cached, tr)

LEMMA ErrorEffect ==
    ASSUME NEW op \in Operation, NEW p \in Profile, p.kind = "Error",
           NEW outcome \in NotifyOutcomes(p),
           NEW cached \in Registration \cup {NULL}
    PROVE  Answer(outcome, op, p, cached)
<1>1. /\ p.code \in Code /\ p.causes \in SUBSET Cause
      /\ outcome.kind = "error"
      /\ outcome.family \in {StatusFamilyForError(p.code, p.causes), "failed"}
  BY DEF RegistrationKinds, Profile, NotifyOutcomes
<1>2. outcome.family = "invalid_token" => SaysGone(p)
  BY <1>1 DEF StatusFamilyForError, NotifyFailedFamily, SaysGone, Code
<1> DEFINE tr == Transition(op, outcome, cached)
<1>3. tr = HandleError(op, outcome.family, cached)
  BY <1>1 DEF Transition
<1>4. CASE outcome.family = "invalid_token"
  <2>1. Discards(op, p, cached, tr)
    BY <1>2, <1>3, <1>4 DEF Discards, HandleError, Discard
  <2> QED BY <2>1 DEF Answer, Effects
<1>5. CASE outcome.family # "invalid_token"
  <2>1. Keeps(op, p, cached, tr)
    BY <1>3, <1>5 DEF Keeps, HandleError, Caching, RegistrationKinds
  <2> QED BY <2>1 DEF Answer, Effects
<1> QED BY <1>4, <1>5

LEMMA SuccessEffect ==
    ASSUME NEW op \in Operation, NEW p \in Profile, p.kind # "Error",
           NEW outcome \in NotifyOutcomes(p),
           NEW cached \in Registration \cup {NULL}
    PROVE  Answer(outcome, op, p, cached)
<1> DEFINE tr == Transition(op, outcome, cached)
<1>1. outcome.kind # "error"
  BY DEF RegistrationKinds, Profile, NotifyOutcomes
<1>2. tr = HandleSuccess(op, outcome, cached)
  BY <1>1 DEF Transition
<1>3. ASSUME tr.ok
      PROVE  /\ op \notin StoreOperation => cached # NULL
             /\ outcome.kind = ExpectedKind(op)
  BY <1>2, <1>3 DEF HandleSuccess, Failure, StoreOperation
<1>4. ASSUME tr.ok, op \in StoreOperation PROVE Stores(op, p, cached, tr)
  <2>1. p.kind \in RegistrationKinds /\ outcome.registration = p.registration
    BY <1>3, <1>4 DEF Profile, NotifyOutcomes, ExpectedKind, StoreOperation, RegistrationKinds
  <2> QED
    BY <1>2, <1>3, <1>4, <2>1
    DEF HandleSuccess, Stores, Caching, StoreOperation
<1>5. ASSUME tr.ok, op = "check" PROVE Merges(op, p, cached, tr)
  <2>1. /\ p.kind = "NotifyCheck" /\ outcome.registration = p.registration
        /\ outcome.generation = p.generation /\ outcome.changed = p.changed
    BY <1>3, <1>5 DEF RegistrationKinds, Profile, NotifyOutcomes, ExpectedKind, StoreOperation
  <2>2. Merged(outcome, cached) = Merged(p, cached) /\ Changed(outcome, cached) = Changed(p, cached)
    BY <2>1 DEF Merged, Changed
  <2> QED
    BY <1>2, <1>3, <1>5, <2>1, <2>2
    DEF HandleSuccess, Merges, Caching, StoreOperation
<1>6. ASSUME tr.ok, op = "get_state" PROVE Keeps(op, p, cached, tr)
  <2>1. p.kind \notin RegistrationKinds \cup {"NotifyCheck"}
    BY <1>3, <1>6 DEF RegistrationKinds, Profile, NotifyOutcomes, ExpectedKind, StoreOperation
  <2> QED BY <1>2, <1>3, <1>6, <2>1 DEF HandleSuccess, Keeps, Caching, StoreOperation
<1>7. ASSUME tr.ok, op = "cancel" PROVE Discards(op, p, cached, tr)
  <2>1. SaysGone(p)
    BY <1>3, <1>7 DEF RegistrationKinds, Profile, NotifyOutcomes, ExpectedKind, SaysGone, StoreOperation
  <2>2. tr = Discard(cached, NULL)
    BY <1>2, <1>3, <1>7 DEF HandleSuccess, StoreOperation, ExpectedKind
  <2> QED
    BY <2>1, <2>2 DEF Discards, Discard
<1>8. ASSUME tr.ok, op = "is_valid_token"
      PROVE  Keeps(op, p, cached, tr) \/ Discards(op, p, cached, tr)
  <2>1. p.kind = "NotifyValidity" /\ outcome.valid = p.valid /\ p.valid \in BOOLEAN
    BY <1>3, <1>8 DEF RegistrationKinds, Profile, NotifyOutcomes, ExpectedKind, StoreOperation
  <2>2. tr = HandleValidity(outcome, cached) /\ cached # NULL
    BY <1>2, <1>3, <1>8 DEF HandleSuccess, StoreOperation
  <2>3. CASE p.valid
    <3>1. tr = Caching(cached, NULL, TRUE)
      BY <2>1, <2>2, <2>3, Zenon DEF HandleValidity
    <3>2. tr.registration = cached /\ tr.released = NULL /\ tr.changed = NULL /\ tr.valid = TRUE
      BY <3>1 DEF Caching
    <3>3. (cached # NULL) = TRUE
      BY <2>2, Zenon
    <3>4. p.kind \notin RegistrationKinds \cup {"NotifyCheck"}
      BY <2>1 DEF RegistrationKinds
    <3> QED BY <3>2, <3>3, <3>4, Zenon DEF Keeps
  <2>4. CASE ~p.valid
    <3>1. tr = Discard(cached, FALSE)
      BY <2>1, <2>2, <2>4, Zenon DEF HandleValidity
    <3>2. SaysGone(p)
      BY <2>1, <2>4, Zenon DEF SaysGone
    <3> QED BY <3>1, <3>2 DEF Discards, Discard
  <2> QED BY <2>3, <2>4
<1> QED
  BY <1>4, <1>5, <1>6, <1>7, <1>8 DEF Answer, Effects, Operation, StoreOperation

LEMMA TransitionEffect ==
    ASSUME NEW op \in Operation, NEW p \in Profile,
           NEW outcome \in NotifyOutcomes(p),
           NEW cached \in Registration \cup {NULL}
    PROVE  Answer(outcome, op, p, cached)
BY ErrorEffect, SuccessEffect

-----------------------------------------------------------------------------
(* The inductive invariant.  An answer under way is still true of what the *)
(* daemon cannot undo: a token it has heard of, a first check that is over *)
(* when it answers, a registration that is gone.                           *)

CallOK == \A c \in Thread :
    call[c] # NULL /\ call[c].op # "registration_store" => known[call[c].token] # "new"

LateOK == \A r \in late : r.op # "registration_store" => known[r.token] # "new"

AnswerOK(p, t) ==
    /\ p.kind \in RegistrationKinds => known[t] # "new"
    /\ p.kind = "NotifyCheck" => ~p.registration.first
    /\ SaysGone(p) => known[t] = "gone"

ReplyOK == \A c \in Thread :
    reply[c] # NULL => call[c] # NULL /\ AnswerOK(reply[c], call[c].token)

CacheOK == \A t \in Token : cache[t] # NULL => known[t] # "new"

\* What was reported is not newer than the cached registration.
ReportOK == \A t \in Token : \A g \in reported[t] :
    cache[t] # NULL => cache[t].last >= g /\ ~cache[t].first

IInv == /\ TypeOK /\ CallOK /\ LateOK /\ ReplyOK /\ CacheOK /\ ReportOK
        /\ BindingsBalanced

-----------------------------------------------------------------------------
(* The daemon's side: what it knows of a token only advances.              *)

Advances == \A t \in Token : /\ known[t] # "new" => known'[t] # "new"
                             /\ known[t] = "gone" => known'[t] = "gone"

DaemonType == /\ known' \in [Token -> {"new", "active", "gone"}]
              /\ bound' \in [Token -> Binding \cup {NULL}]
              /\ last' \in [Token -> Nat] /\ first' \in [Token -> BOOLEAN]
              /\ generation' \in Nat /\ renewals' \in Nat

\* What a request does, case by case.
LEMMA EffectCases ==
    ASSUME NEW r \in Request, Effect(r)
    PROVE  LET t == r.token IN
           /\ UNCHANGED generation
           /\ \/ /\ r.op = "registration_update" /\ known[t] = "active"
                 /\ Renews(t) /\ UNCHANGED known
              \/ /\ r.op = "registration_store" /\ known[t] = "new"
                 /\ Starts(t) /\ known' = [known EXCEPT ![t] = "active"]
                 /\ UNCHANGED <<bound, renewals>>
              \/ /\ r.op = "check" /\ known[t] = "active"
                 /\ last' = [last EXCEPT ![t] = generation]
                 /\ first' = [first EXCEPT ![t] = FALSE]
                 /\ UNCHANGED <<known, bound, renewals>>
              \/ /\ r.op = "cancel" /\ known[t] = "active"
                 /\ known' = [known EXCEPT ![t] = "gone"]
                 /\ UNCHANGED <<bound, last, first, renewals>>
              \/ /\ r.op \in {"registration_update", "check", "cancel"} => known[t] # "active"
                 /\ r.op = "registration_store" => known[t] # "new"
                 /\ UNCHANGED <<known, bound, last, first, renewals>>
BY DEF Effect

LEMMA EffectAdvances ==
    ASSUME TypeOK, NEW r \in Request, Effect(r)
    PROVE  Advances /\ DaemonType
<1> DEFINE t == r.token
<1>1. t \in Token /\ generation \in Nat /\ generation' = generation
  BY EffectCases DEF Request, TypeOK
<1>2. CASE r.op = "registration_update" /\ known[t] = "active" /\ Renews(t) /\ UNCHANGED known
  <2>1. CASE UNCHANGED <<bound, last, first, renewals>>
    BY <1>1, <1>2, <2>1 DEF TypeOK, Advances, DaemonType
  <2>2. CASE ~ UNCHANGED <<bound, last, first, renewals>>
    <3>1. /\ \E b \in Binding \cup {NULL} : bound' = [bound EXCEPT ![t] = b]
          /\ last' = [last EXCEPT ![t] = 0] /\ first' = [first EXCEPT ![t] = TRUE]
          /\ renewals' = renewals + 1
      BY <1>2, <2>2 DEF Renews
    <3> QED BY <1>1, <1>2, <3>1 DEF TypeOK, Advances, DaemonType
  <2> QED BY <2>1, <2>2
<1>3. CASE /\ known[t] = "new" /\ Starts(t) /\ known' = [known EXCEPT ![t] = "active"]
           /\ UNCHANGED <<bound, renewals>>
  BY <1>1, <1>3 DEF Starts, TypeOK, Advances, DaemonType
<1>4. CASE /\ known[t] = "active" /\ last' = [last EXCEPT ![t] = generation]
           /\ first' = [first EXCEPT ![t] = FALSE]
           /\ UNCHANGED <<known, bound, renewals>>
  BY <1>1, <1>4 DEF TypeOK, Advances, DaemonType
<1>5. CASE /\ known[t] = "active" /\ known' = [known EXCEPT ![t] = "gone"]
           /\ UNCHANGED <<bound, last, first, renewals>>
  BY <1>1, <1>5 DEF TypeOK, Advances, DaemonType
<1>6. CASE UNCHANGED <<known, bound, last, first, renewals>>
  BY <1>1, <1>6 DEF TypeOK, Advances, DaemonType
<1> QED BY <1>2, <1>3, <1>4, <1>5, <1>6, EffectCases

LEMMA AnswersOK ==
    ASSUME TypeOK, NEW r \in Request, Effect(r), NEW p \in Answers(r),
           r.op # "registration_store" => known[r.token] # "new"
    PROVE  p \in Profile /\ AnswerOK(p, r.token)'
<1> DEFINE t == r.token
<1>1. /\ t \in Token /\ known[t] \in {"new", "active", "gone"} /\ r.op \in Operation
  BY DEF Request, TypeOK
<1>2. /\ DaemonType /\ generation \in Nat /\ generation' = generation
      /\ bound'[t] \in Binding \cup {NULL}
  BY <1>1, EffectAdvances, EffectCases DEF TypeOK, DaemonType
<1>3. ASSUME NEW b \in Binding \cup {NULL} PROVE After(t, b) \in Registration
  BY <1>1, <1>2 DEF After, DaemonType, Registration
<1>4. CASE r.op = "is_valid_token" /\ p # Unknown
  <2>1. PICK v \in BOOLEAN : p = [kind |-> "NotifyValidity", valid |-> v] /\ (v = (known[t] = "active"))
    BY <1>4 DEF Answers
  <2>2. p \in Profile
    BY <2>1 DEF Profile
  <2>3. p.kind = "NotifyValidity" /\ p.valid = v
    BY <2>1
  <2>4. ~v => known[t] = "gone" /\ known'[t] = known[t]
    BY <1>1, <1>4, <2>1, EffectCases
  <2> QED BY <2>2, <2>3, <2>4 DEF AnswerOK, SaysGone, RegistrationKinds
<1>5. CASE \/ r.op = "is_valid_token" /\ p = Unknown
           \/ r.op # "is_valid_token" /\ known[t] = "gone"
  <2>1. p = Unknown /\ known[t] = "gone"
    <3>1. CASE r.op = "is_valid_token" /\ p = Unknown
      <4>1. [kind |-> "NotifyValidity", valid |-> known[t] = "active"] # Unknown
        BY DEF Unknown
      <4> QED BY <3>1, <4>1 DEF Answers
    <3>2. CASE r.op # "is_valid_token" /\ known[t] = "gone"
      BY <3>2 DEF Answers
    <3> QED BY <1>5, <3>1, <3>2
  <2>2. known'[t] = "gone"
    <3>1. Advances
      BY EffectAdvances
    <3> QED BY <1>1, <2>1, <3>1 DEF Advances
  <2>3. p \in Profile
    BY <2>1 DEF Unknown, Profile, Code, Cause
  <2> QED BY <2>1, <2>2, <2>3 DEF AnswerOK, SaysGone, Unknown, RegistrationKinds
<1>6. CASE r.op \in StoreOperation /\ known[t] # "gone"
  <2>1. PICK k \in RegistrationKinds :
            p = [kind |-> k, registration |-> After(t, bound'[t])]
    BY <1>6 DEF Answers, StoreOperation, RegistrationKinds
  <2>2. p \in Profile
    BY <1>2, <1>3, <2>1 DEF Profile
  <2>3. known'[t] # "new"
    BY <1>1, <1>6, EffectCases DEF TypeOK, StoreOperation
  <2>4. p.kind \in RegistrationKinds
    BY <2>1
  <2> QED BY <2>2, <2>3, <2>4 DEF AnswerOK, SaysGone, RegistrationKinds
<1>7. CASE r.op = "check" /\ known[t] # "gone"
  <2>1. PICK v \in BOOLEAN, b \in {NULL, bound'[t]} :
            p = [kind |-> "NotifyCheck", generation |-> generation,
                 changed |-> v, registration |-> After(t, b)]
    BY <1>1, <1>7 DEF Answers, StoreOperation, TypeOK
  <2>2. p \in Profile
    BY <1>1, <1>2, <1>3, <2>1 DEF Profile
  <2>3. first'[t] = FALSE
    BY <1>1, <1>7, EffectCases DEF TypeOK
  <2>4. p.kind = "NotifyCheck" /\ p.registration.first = FALSE
    BY <2>1, <2>3 DEF After
  <2> QED BY <2>2, <2>4 DEF AnswerOK, SaysGone, RegistrationKinds
<1>8. CASE r.op = "cancel" /\ known[t] # "gone"
  <2>1. p = [kind |-> "NotifyCancel", canceled |-> TRUE]
    BY <1>8 DEF Answers
  <2>2. p \in Profile /\ p.kind = "NotifyCancel"
    BY <2>1 DEF Profile
  <2>3. known'[t] = "gone"
    BY <1>1, <1>8, EffectCases DEF TypeOK
  <2> QED BY <2>2, <2>3 DEF AnswerOK, SaysGone, RegistrationKinds
<1>9. CASE r.op = "get_state" /\ known[t] # "gone"
  <2>1. p = [kind |-> "NotifyNameState"]
    BY <1>9 DEF Answers
  <2>2. p \in Profile /\ p.kind = "NotifyNameState"
    BY <2>1 DEF Profile
  <2> QED BY <2>2 DEF AnswerOK, SaysGone, RegistrationKinds
<1> QED BY <1>1, <1>4, <1>5, <1>6, <1>7, <1>8, <1>9 DEF Operation, StoreOperation

LEMMA AnswerStays ==
    ASSUME Advances, NEW p, NEW t \in Token, AnswerOK(p, t)
    PROVE  AnswerOK(p, t)'
<1>1. /\ known[t] # "new" => known'[t] # "new"
      /\ known[t] = "gone" => known'[t] = "gone"
  BY DEF Advances
<1>2. SaysGone(p)' <=> SaysGone(p)
  BY DEF SaysGone
<1> QED BY <1>1, <1>2 DEF AnswerOK

-----------------------------------------------------------------------------
(* The client's side: an answer is applied.                                *)

Applied(c, tr) ==
    LET t == call[c].token IN
    /\ Effects(call[c].op, reply[c], cache[t], tr)
    /\ cache' = [cache EXCEPT ![t] = tr.registration]
    /\ result' = [result EXCEPT ![c] = [changed |-> tr.changed, valid |-> tr.valid]]
    /\ Account(c, t, tr)

LEMMA Pending ==
    ASSUME TypeOK, ReplyOK, NEW c \in Thread, reply[c] # NULL
    PROVE  /\ reply[c] \in Profile /\ call[c] \in Request
           /\ call[c].op \in Operation /\ call[c].token \in Token
           /\ cache[call[c].token] \in Registration \cup {NULL}
           /\ AnswerOK(reply[c], call[c].token)
<1>1. reply[c] \in Profile /\ call[c] \in Request
  BY DEF TypeOK, ReplyOK
<1> QED BY <1>1 DEF TypeOK, ReplyOK, Request

LEMMA ApplyEffect ==
    ASSUME TypeOK, ReplyOK, NEW c \in Thread, Apply(c)
    PROVE  \/ UNCHANGED <<cache, result, history>>
           \/ \E tr : Applied(c, tr)
<1> DEFINE t == call[c].token
<1>1. reply[c] # NULL
  BY DEF Apply
<1>2. PICK outcome \in NotifyOutcomes(reply[c]) :
        LET tr == Transition(call[c].op, outcome, cache[t]) IN
        IF tr.ok
        THEN /\ cache' = [cache EXCEPT ![t] = tr.registration]
             /\ result' = [result EXCEPT ![c] = [changed |-> tr.changed, valid |-> tr.valid]]
             /\ Account(c, t, tr)
        ELSE UNCHANGED <<cache, result, history>>
  BY DEF Apply
<1> DEFINE tr == Transition(call[c].op, outcome, cache[t])
<1>3. tr.ok => Effects(call[c].op, reply[c], cache[t], tr)
  BY <1>1, Pending, TransitionEffect DEF Answer
<1>4. CASE tr.ok
  <2>1. Applied(c, tr)
    BY <1>2, <1>3, <1>4 DEF Applied
  <2> QED BY <2>1
<1>5. CASE ~tr.ok
  BY <1>2, <1>5
<1> QED BY <1>4, <1>5

\* What the client caches is a registration.
LEMMA EffectRegistration ==
    ASSUME NEW op \in Operation, NEW p \in Profile,
           NEW cached \in Registration \cup {NULL}, NEW tr, Effects(op, p, cached, tr)
    PROVE  /\ tr.registration \in Registration \cup {NULL}
           /\ tr.changed \in BOOLEAN \cup {NULL} /\ tr.valid \in BOOLEAN \cup {NULL}
<1>1. CASE Stores(op, p, cached, tr)
  <2>1. p.registration \in Registration
    BY <1>1 DEF Stores, Profile, RegistrationKinds
  <2> QED BY <1>1, <2>1 DEF Stores
<1>2. CASE Merges(op, p, cached, tr)
  <2>1. /\ p.registration \in Registration /\ p.generation \in Nat
        /\ p.changed \in BOOLEAN
    BY <1>2 DEF Merges, Profile, RegistrationKinds
  <2>2. cached \in Registration
    BY <1>2 DEF Merges
  <2>4. Merged(p, cached) \in Registration
    BY <2>1, <2>2 DEF Merged, Registration, Max3, AtLeast
  <2>5. Changed(p, cached) \in BOOLEAN
    BY <2>1, <2>2, Zenon DEF Changed
  <2> QED BY <1>2, <2>4, <2>5 DEF Merges
<1>3. CASE Keeps(op, p, cached, tr)
  <2>1. (cached # NULL) \in BOOLEAN
    BY Zenon
  <2> QED BY <1>3, <2>1 DEF Keeps
<1>4. CASE Discards(op, p, cached, tr)
  BY <1>4 DEF Discards
<1> QED BY <1>1, <1>2, <1>3, <1>4 DEF Effects

LEMMA AppliedCache ==
    ASSUME IInv, NEW c \in Thread, NEW tr, Applied(c, tr), reply[c] # NULL,
           UNCHANGED known
    PROVE  /\ cache' \in [Token -> Registration \cup {NULL}]
           /\ result' \in [Thread -> Result]
           /\ CacheOK'
<1> DEFINE t == call[c].token
<1>1. /\ t \in Token /\ call[c].op \in Operation /\ reply[c] \in Profile
      /\ cache[t] \in Registration \cup {NULL} /\ AnswerOK(reply[c], t)
  BY Pending DEF IInv
<1>2. /\ Effects(call[c].op, reply[c], cache[t], tr)
      /\ cache' = [cache EXCEPT ![t] = tr.registration]
      /\ result' = [result EXCEPT ![c] = [changed |-> tr.changed, valid |-> tr.valid]]
  BY DEF Applied
<1>3. /\ tr.registration \in Registration \cup {NULL}
      /\ tr.changed \in BOOLEAN \cup {NULL} /\ tr.valid \in BOOLEAN \cup {NULL}
  BY <1>1, <1>2, EffectRegistration
<1>4. /\ cache \in [Token -> Registration \cup {NULL}]
      /\ result \in [Thread -> Result]
  BY DEF IInv, TypeOK
<1>5. [changed |-> tr.changed, valid |-> tr.valid] \in Result
  BY <1>3 DEF Result
<1>6. tr.registration # NULL => known[t] # "new"
  BY <1>1, <1>2 DEF Effects, Stores, Merges, Keeps, Discards, AnswerOK, IInv, CacheOK
<1>7. CacheOK'
  BY <1>1, <1>2, <1>3, <1>4, <1>6 DEF IInv, CacheOK
<1> QED BY <1>1, <1>2, <1>3, <1>4, <1>5, <1>7

LEMMA AppliedReport ==
    ASSUME IInv, NEW c \in Thread, NEW tr, Applied(c, tr), reply[c] # NULL
    PROVE  /\ reported' \in [Token -> SUBSET Nat]
           /\ ReportOK'
<1> DEFINE t == call[c].token
           p == reply[c]
<1>1. /\ t \in Token /\ call[c].op \in Operation /\ p \in Profile
      /\ cache[t] \in Registration \cup {NULL}
  BY Pending DEF IInv
<1>2. /\ Effects(call[c].op, p, cache[t], tr)
      /\ cache' = [cache EXCEPT ![t] = tr.registration]
      /\ reported' = [reported EXCEPT ![t] =
            IF tr.changed = TRUE THEN @ \cup {p.generation}
            ELSE IF p.kind \in RegistrationKinds THEN {} ELSE @]
  BY DEF Applied, Account
<1>3. /\ cache \in [Token -> Registration \cup {NULL}]
      /\ reported \in [Token -> SUBSET Nat]
      /\ \A g \in reported[t] : cache[t] # NULL => cache[t].last >= g /\ ~cache[t].first
  BY <1>1 DEF IInv, TypeOK, ReportOK
<1>4. cache'[t] = tr.registration /\ \A u \in Token \ {t} : cache'[u] = cache[u] /\ reported'[u] = reported[u]
  BY <1>1, <1>2, <1>3
<1> SUFFICES /\ reported'[t] \subseteq Nat
             /\ \A g \in reported'[t] :
                   tr.registration # NULL => tr.registration.last >= g /\ ~tr.registration.first
  BY <1>1, <1>2, <1>3, <1>4 DEF ReportOK, IInv
<1>5. CASE Stores(call[c].op, p, cache[t], tr)
  <2>1. reported'[t] = {}
    BY <1>1, <1>2, <1>3, <1>5, NullAssumption DEF Stores
  <2> QED BY <2>1
<1>6. CASE Merges(call[c].op, p, cache[t], tr)
  <2>1. /\ p.registration \in Registration /\ p.generation \in Nat
        /\ p.changed \in BOOLEAN /\ cache[t] \in Registration
        /\ p.kind \notin RegistrationKinds
    BY <1>1, <1>6 DEF Merges, Profile, RegistrationKinds
  <2>2. /\ tr.registration = Merged(p, cache[t])
        /\ (tr.changed = TRUE) => cache[t].first \/ p.generation > cache[t].last
    BY <1>6, <2>1, Zenon DEF Merges, Changed
  <2>3. /\ tr.registration.last >= cache[t].last /\ tr.registration.last >= p.generation
        /\ tr.registration.first => cache[t].first /\ p.registration.first
    BY <2>1, <2>2 DEF Merged, Registration, Max3, AtLeast
  <2>4. reported'[t] = IF tr.changed = TRUE THEN reported[t] \cup {p.generation} ELSE reported[t]
    BY <1>1, <1>2, <1>3, <2>1
  <2>5. ~p.registration.first
    BY <1>6, Pending DEF IInv, Merges, AnswerOK
  <2>6. ASSUME NEW g \in reported[t]
        PROVE  tr.registration.last >= g /\ g \in Nat
    BY <1>1, <1>3, <1>6, <2>1, <2>3, <2>2 DEF Merges, Merged, Registration, Max3, AtLeast
  <2>7. ~tr.registration.first
    BY <2>3, <2>5
  <2> QED BY <2>1, <2>3, <2>4, <2>6, <2>7
<1>7. CASE Keeps(call[c].op, p, cache[t], tr)
  <2>1. reported'[t] \subseteq reported[t] /\ tr.registration = cache[t]
    BY <1>1, <1>2, <1>3, <1>7, NullAssumption DEF Keeps
  <2> QED BY <1>1, <1>3, <2>1
<1>8. CASE Discards(call[c].op, p, cache[t], tr)
  <2>1. reported'[t] \subseteq reported[t] /\ tr.registration = NULL
    BY <1>1, <1>2, <1>3, <1>8, NullAssumption DEF Discards
  <2> QED BY <1>1, <1>3, <2>1
<1> QED BY <1>2, <1>5, <1>6, <1>7, <1>8 DEF Effects

Holders(b) == {t \in Token : Holds(cache[t], b)}

\* A binding becomes cached, stays, is displaced or is handed back: each changes
\* who has it as it changes the two counts.
LEMMA BindingMoves ==
    ASSUME NEW op \in Operation, NEW p \in Profile,
           NEW cached \in Registration \cup {NULL}, NEW tr, Effects(op, p, cached, tr),
           NEW b \in Binding
    PROVE  LET had == Holds(cached, b)
               has == Holds(tr.registration, b) IN
           \/ ~had /\ has /\ tr.released # b
           \/ (had <=> has) /\ ~(had /\ Displaces(p, b)) /\ tr.released # b
           \/ had /\ ~has /\ Displaces(p, b) /\ tr.released # b
           \/ had /\ ~has /\ ~Displaces(p, b) /\ tr.released = b
<1>1. b # NULL
  BY NullAssumption
<1>2. CASE Stores(op, p, cached, tr)
  <2>1. p.registration \in Registration /\ p.registration # NULL
    BY <1>2, NullIsNoRegistration DEF Stores, Profile, RegistrationKinds
  <2>2. /\ Holds(tr.registration, b) <=> p.registration.binding = b
        /\ Displaces(p, b) <=> p.registration.binding # b
    BY <1>2, <2>1 DEF Stores, Holds, Displaces, RegistrationKinds
  <2> QED BY <1>1, <1>2, <2>2 DEF Stores
<1>3. CASE Merges(op, p, cached, tr)
  <2>1. p.registration \in Registration /\ p.generation \in Nat /\ cached \in Registration
    BY <1>3 DEF Merges, Profile, RegistrationKinds
  <2>2. Merged(p, cached) \in Registration
    BY <2>1 DEF Merged, Registration, Max3, AtLeast
  <2>3. Holds(tr.registration, b) <=>
          \/ p.registration.binding = b
          \/ p.registration.binding = NULL /\ cached.binding = b
    <3>1. tr.registration = Merged(p, cached) /\ tr.registration # NULL
      BY <1>3, <2>2, NullIsNoRegistration DEF Merges
    <3>2. Merged(p, cached).binding = IF p.registration.binding # NULL
                                      THEN p.registration.binding ELSE cached.binding
      BY DEF Merged
    <3>3. Holds(tr.registration, b) <=> Merged(p, cached).binding = b
      BY <3>1, Zenon DEF Holds
    <3> QED BY <1>1, <3>2, <3>3
  <2>4. Displaces(p, b) <=> p.registration.binding \notin {NULL, b}
    BY <1>3 DEF Merges, Displaces, RegistrationKinds
  <2>5. Holds(cached, b) <=> cached.binding = b
    BY <1>3 DEF Merges, Holds
  <2> QED BY <1>1, <1>3, <2>3, <2>4, <2>5 DEF Merges
<1>4. CASE Keeps(op, p, cached, tr)
  <2>1. ~Displaces(p, b)
    BY <1>4 DEF Keeps, Displaces
  <2> QED BY <1>1, <1>4, <2>1 DEF Keeps
<1>5. CASE Discards(op, p, cached, tr)
  <2>1. ~Displaces(p, b)
    BY <1>5 DEF Discards, Displaces, SaysGone, RegistrationKinds
  <2>2. ~Holds(tr.registration, b) /\ (Holds(cached, b) <=> tr.released = b)
    BY <1>1, <1>5 DEF Discards, Holds, ReleasedBinding
  <2> QED BY <2>1, <2>2
<1> QED BY <1>2, <1>3, <1>4, <1>5 DEF Effects

LEMMA AppliedBalance ==
    ASSUME IInv, NEW c \in Thread, NEW tr, Applied(c, tr), reply[c] # NULL
    PROVE  /\ taken' \in [Binding -> Int] /\ displaced' \in [Binding -> Int]
           /\ BindingsBalanced'
<1> DEFINE t == call[c].token
<1>1. /\ t \in Token /\ call[c].op \in Operation /\ reply[c] \in Profile
      /\ cache[t] \in Registration \cup {NULL}
  BY Pending DEF IInv
<1>2. /\ Effects(call[c].op, reply[c], cache[t], tr)
      /\ cache' = [cache EXCEPT ![t] = tr.registration]
      /\ taken' = [b \in Binding |->
            taken[b] + One(Holds(tr.registration, b) /\ ~Holds(cache[t], b))
                     - One(tr.released = b)]
      /\ displaced' = [b \in Binding |->
            displaced[b] + One(Holds(cache[t], b) /\ Displaces(reply[c], b))]
  BY DEF Applied, Account
<1>3. /\ cache \in [Token -> Registration \cup {NULL}]
      /\ taken \in [Binding -> Int] /\ displaced \in [Binding -> Int]
      /\ \A b \in Binding : taken[b] = Cardinality(Holders(b)) + displaced[b]
  BY DEF IInv, TypeOK, BindingsBalanced, Holders
<1>4. taken' \in [Binding -> Int] /\ displaced' \in [Binding -> Int]
  BY <1>2, <1>3 DEF One
<1>5. ASSUME NEW b \in Binding
      PROVE  taken'[b] = Cardinality(Holders(b))' + displaced'[b]
  <2> DEFINE had == Holds(cache[t], b)
             has == Holds(tr.registration, b)
             moved == Displaces(reply[c], b)
             n == Cardinality(Holders(b))
  <2>1. IsFiniteSet(Holders(b)) /\ n \in Nat
    BY ClientAssumption, FS_Subset, FS_CardinalityType DEF Holders
  <2>2. cache'[t] = tr.registration /\ \A u \in Token \ {t} : cache'[u] = cache[u]
    BY <1>1, <1>2, <1>3
  <2>3. /\ taken[b] \in Int /\ displaced[b] \in Int /\ taken[b] = n + displaced[b]
        /\ taken'[b] = taken[b] + One(has /\ ~had) - One(tr.released = b)
        /\ displaced'[b] = displaced[b] + One(had /\ moved)
    BY <1>2, <1>3
  <2>4. \/ ~had /\ has /\ tr.released # b
        \/ (had <=> has) /\ ~(had /\ moved) /\ tr.released # b
        \/ had /\ ~has /\ moved /\ tr.released # b
        \/ had /\ ~has /\ ~moved /\ tr.released = b
    BY <1>1, <1>2, BindingMoves
  <2>5. /\ ~had /\ has => Cardinality(Holders(b))' = n + 1
        /\ had /\ ~has => Cardinality(Holders(b))' = n - 1
        /\ (had <=> has) => Cardinality(Holders(b))' = n
    <3>1. CASE ~had /\ has
      <4>1. Holders(b)' = Holders(b) \cup {t} /\ t \notin Holders(b)
        BY <1>1, <2>2, <3>1 DEF Holders
      <4> QED BY <2>1, <3>1, <4>1, FS_AddElement
    <3>2. CASE had /\ ~has
      <4>1. Holders(b)' = Holders(b) \ {t} /\ t \in Holders(b)
        BY <1>1, <2>2, <3>2 DEF Holders
      <4>2. Cardinality(Holders(b) \ {t}) = n - 1
        BY <2>1, <4>1, FS_RemoveElement
      <4> QED BY <3>2, <4>1, <4>2
    <3>3. CASE had <=> has
      <4>1. Holders(b)' = Holders(b)
        BY <1>1, <2>2, <3>3 DEF Holders
      <4> QED BY <3>3, <4>1
    <3> QED BY <3>1, <3>2, <3>3
  <2> HIDE DEF had, has, moved, n
  <2>6. CASE ~had /\ has /\ tr.released # b
    BY <2>1, <2>3, <2>5, <2>6 DEF One
  <2>7. CASE (had <=> has) /\ ~(had /\ moved) /\ tr.released # b
    BY <2>1, <2>3, <2>5, <2>7 DEF One
  <2>8. CASE had /\ ~has /\ moved /\ tr.released # b
    BY <2>1, <2>3, <2>5, <2>8 DEF One
  <2>9. CASE had /\ ~has /\ ~moved /\ tr.released = b
    BY <2>1, <2>3, <2>5, <2>9 DEF One
  <2> QED BY <2>4, <2>6, <2>7, <2>8, <2>9
<1>6. BindingsBalanced'
  BY <1>5 DEF BindingsBalanced, Holders
<1> QED BY <1>4, <1>6

-----------------------------------------------------------------------------
(* Steps.                                                                  *)

LEMMA Start == Init => IInv
<1> SUFFICES ASSUME Init PROVE IInv
  OBVIOUS
<1>1. TypeOK
  BY ClientAssumption DEF Init, TypeOK, Result, NoResult
<1>2. CallOK /\ LateOK /\ ReplyOK /\ CacheOK /\ ReportOK
  BY DEF Init, CallOK, LateOK, ReplyOK, CacheOK, ReportOK
<1>3. BindingsBalanced
  <2>1. ASSUME NEW b \in Binding PROVE {t \in Token : Holds(cache[t], b)} = {}
    BY DEF Init, Holds
  <2>2. \A b \in Binding : taken[b] = 0 /\ displaced[b] = 0
    BY DEF Init
  <2>3. ASSUME NEW b \in Binding
        PROVE  taken[b] = Cardinality({t \in Token : Holds(cache[t], b)}) + displaced[b]
    <3>1. Cardinality({t \in Token : Holds(cache[t], b)}) = 0
      BY <2>1, FS_EmptySet
    <3> QED BY <2>2, <3>1
  <2> QED BY <2>3 DEF BindingsBalanced
<1> QED BY <1>1, <1>2, <1>3 DEF IInv

\* A step that applies no answer leaves what the client has as it is.
LEMMA QuietStep ==
    ASSUME IInv, UNCHANGED <<cache, taken, displaced, reported>>, Advances
    PROVE  CacheOK' /\ ReportOK' /\ BindingsBalanced'
<1>1. CacheOK'
  BY DEF IInv, CacheOK, Advances
<1>2. ReportOK'
  BY DEF IInv, ReportOK
<1>3. BindingsBalanced'
  BY DEF IInv, BindingsBalanced, Holds
<1> QED BY <1>1, <1>2, <1>3

\* Nor does it make an answer or a request wrong that is under way already.
LEMMA RepliesStay ==
    ASSUME IInv, Advances, NEW c \in Thread,
           reply[c] # NULL => reply'[c] = reply[c] /\ call'[c] = call[c],
           reply'[c] # NULL => reply[c] # NULL
    PROVE  reply'[c] # NULL => call'[c] # NULL /\ AnswerOK(reply[c], call[c].token)'
<1> SUFFICES ASSUME reply[c] # NULL PROVE AnswerOK(reply[c], call[c].token)'
  BY DEF IInv, ReplyOK
<1>1. call[c].token \in Token /\ AnswerOK(reply[c], call[c].token)
  BY Pending DEF IInv
<1>2. /\ known[call[c].token] # "new" => known'[call[c].token] # "new"
      /\ known[call[c].token] = "gone" => known'[call[c].token] = "gone"
  BY <1>1 DEF Advances
<1> QED BY <1>1, <1>2 DEF AnswerOK, SaysGone

LEMMA AskStep ==
    ASSUME IInv, NEW c \in Thread, NEW op \in Operation, NEW t \in Token, Ask(c, op, t)
    PROVE  IInv'
<1>1. TypeOK /\ CallOK /\ LateOK /\ ReplyOK /\ Advances
  BY DEF IInv, Ask, daemonVars, Advances
<1>2. TypeOK'
  BY <1>1 DEF Ask, TypeOK, Request, Result, NoResult, daemonVars, history
<1>3. CallOK' /\ LateOK'
  BY <1>1 DEF Ask, TypeOK, CallOK, LateOK, IInv, CacheOK, Request, daemonVars
<1>4. reply[c] = NULL /\ reply' = reply /\ \A d \in Thread \ {c} : call'[d] = call[d]
  BY <1>1 DEF Ask, ReplyOK, TypeOK
<1>5. ReplyOK'
  BY <1>1, <1>4, RepliesStay DEF ReplyOK
<1> QED BY <1>1, <1>2, <1>3, <1>5, QuietStep DEF Ask, history, IInv

LEMMA HandleStep ==
    ASSUME IInv, NEW c \in Thread, Handle(c)
    PROVE  IInv'
<1>1. /\ TypeOK /\ call[c] \in Request /\ call[c] # NULL
      /\ call[c].op # "registration_store" => known[call[c].token] # "new"
  BY DEF IInv, Handle, TypeOK, CallOK
<1>2. Effect(call[c]) /\ Advances /\ DaemonType
  BY <1>1, EffectAdvances DEF Handle
<1>3. PICK p \in Answers(call[c]) : reply' = [reply EXCEPT ![c] = p]
  BY DEF Handle
<1>4. p \in Profile /\ AnswerOK(p, call[c].token)'
  BY <1>1, <1>2, <1>3, AnswersOK DEF Handle
<1>5. TypeOK'
  BY <1>1, <1>2, <1>3, <1>4 DEF Handle, TypeOK, DaemonType, history
<1>6. CallOK' /\ LateOK'
  BY <1>1, <1>2 DEF IInv, Handle, CallOK, LateOK, Advances, TypeOK, Request
<1>7. reply'[c] = p /\ call' = call /\ \A d \in Thread \ {c} : reply'[d] = reply[d]
  BY <1>1, <1>3 DEF Handle, TypeOK
<1>8. ASSUME NEW d \in Thread, reply'[d] # NULL
      PROVE  call'[d] # NULL /\ AnswerOK(reply[d], call[d].token)'
  <2>1. CASE d = c
    BY <1>1, <1>4, <1>7, <2>1
  <2>2. CASE d # c
    BY <1>2, <1>7, <1>8, <2>2, RepliesStay
  <2> QED BY <2>1, <2>2
<1>9. ReplyOK'
  BY <1>8 DEF ReplyOK
<1> QED BY <1>2, <1>5, <1>6, <1>9, QuietStep DEF Handle, history, IInv

LEMMA RefuseStep ==
    ASSUME IInv, NEW c \in Thread, Refuse(c)
    PROVE  IInv'
<1>1. TypeOK /\ Advances /\ call[c] # NULL
  BY DEF IInv, Refuse, Advances, daemonVars
<1>2. PICK p \in Refusals : reply' = [reply EXCEPT ![c] = p]
  BY DEF Refuse
<1>3. p \in Profile /\ AnswerOK(p, call[c].token)'
  <2>1. /\ p.kind \in {"Error", "GenericObject"}
        /\ p.kind = "Error" => p.causes = {"transport_failed"}
    BY DEF Refusals
  <2>2. p \in Profile
    BY DEF Refusals, Profile, Code, Cause
  <2> QED BY <2>1, <2>2 DEF AnswerOK, SaysGone, RegistrationKinds
<1>4. TypeOK'
  BY <1>1, <1>2, <1>3 DEF Refuse, TypeOK, daemonVars, history
<1>5. CallOK' /\ LateOK'
  BY DEF IInv, Refuse, CallOK, LateOK, daemonVars
<1>6. reply'[c] = p /\ call' = call /\ \A d \in Thread \ {c} : reply'[d] = reply[d]
  BY <1>1, <1>2 DEF Refuse, TypeOK
<1>7. ASSUME NEW d \in Thread, reply'[d] # NULL
      PROVE  call'[d] # NULL /\ AnswerOK(reply[d], call[d].token)'
  <2>1. CASE d = c
    BY <1>1, <1>3, <1>6, <2>1
  <2>2. CASE d # c
    BY <1>1, <1>6, <1>7, <2>2, RepliesStay
  <2> QED BY <2>1, <2>2
<1>8. ReplyOK'
  BY <1>7 DEF ReplyOK
<1> QED BY <1>1, <1>4, <1>5, <1>8, QuietStep DEF Refuse, history, IInv

LEMMA DaemonStep ==
    ASSUME IInv, HandleLate \/ Post \/ Restart
    PROVE  IInv'
<1>1. TypeOK /\ LateOK
  BY DEF IInv
<1>2. Advances /\ DaemonType /\ late' \subseteq late
  <2>1. CASE HandleLate
    <3>1. PICK r \in late : Effect(r) /\ late' = late \ {r}
      BY <2>1 DEF HandleLate
    <3>2. r \in Request
      BY <1>1, <3>1 DEF TypeOK
    <3> QED BY <1>1, <3>1, <3>2, EffectAdvances
  <2>2. CASE Post
    BY <1>1, <2>2 DEF Post, Advances, DaemonType, TypeOK
  <2>3. CASE Restart
    BY <1>1, <2>3 DEF Restart, Advances, DaemonType, TypeOK
  <2> QED BY <2>1, <2>2, <2>3
<1>3. UNCHANGED <<clientVars, history>>
  BY DEF HandleLate, Post, Restart
<1>4. TypeOK'
  BY <1>1, <1>2, <1>3 DEF TypeOK, DaemonType, clientVars, history
<1>5. CallOK' /\ LateOK'
  BY <1>1, <1>2, <1>3 DEF IInv, CallOK, LateOK, Advances, TypeOK, Request, clientVars
<1>6. ReplyOK'
  BY <1>2, <1>3, RepliesStay DEF ReplyOK, clientVars
<1> QED BY <1>2, <1>3, <1>4, <1>5, <1>6, QuietStep DEF clientVars, history, IInv

\* A call has come to its end, with an answer or without.
LEMMA CallEnds ==
    ASSUME IInv, NEW c \in Thread, call' = [call EXCEPT ![c] = NULL],
           reply' = [reply EXCEPT ![c] = NULL], UNCHANGED daemonVars,
           late' = late \/ (call[c] # NULL /\ late' = late \cup {call[c]})
    PROVE  /\ call' \in [Thread -> Request \cup {NULL}]
           /\ reply' \in [Thread -> Profile \cup {NULL}]
           /\ late' \subseteq Request /\ CallOK' /\ LateOK' /\ ReplyOK'
<1>1. TypeOK /\ CallOK /\ LateOK /\ Advances
  BY DEF IInv, daemonVars, Advances
<1>2. /\ call'[c] = NULL /\ reply'[c] = NULL
      /\ \A d \in Thread \ {c} : call'[d] = call[d] /\ reply'[d] = reply[d]
  BY <1>1 DEF TypeOK
<1>3. CallOK' /\ LateOK'
  BY <1>1, <1>2 DEF CallOK, LateOK, daemonVars, TypeOK
<1>4. ASSUME NEW d \in Thread, reply'[d] # NULL
      PROVE  call'[d] # NULL /\ AnswerOK(reply[d], call[d].token)'
  BY <1>1, <1>2, <1>4, RepliesStay
<1>5. ReplyOK'
  BY <1>4 DEF ReplyOK
<1> QED BY <1>1, <1>3, <1>5 DEF TypeOK

LEMMA TimeOutStep ==
    ASSUME IInv, NEW c \in Thread, TimeOut(c)
    PROVE  IInv'
<1>1. TypeOK /\ Advances
  BY DEF IInv, TimeOut, daemonVars, Advances
<1>2. /\ call' \in [Thread -> Request \cup {NULL}]
      /\ reply' \in [Thread -> Profile \cup {NULL}]
      /\ late' \subseteq Request /\ CallOK' /\ LateOK' /\ ReplyOK'
  BY CallEnds DEF TimeOut
<1>3. TypeOK'
  BY <1>1, <1>2 DEF TimeOut, TypeOK, daemonVars, history
<1> QED BY <1>1, <1>2, <1>3, QuietStep DEF TimeOut, history, IInv

LEMMA ReturnStep ==
    ASSUME IInv, NEW c \in Thread, Apply(c) \/ Ignore(c)
    PROVE  IInv'
<1>1. TypeOK /\ ReplyOK /\ Advances /\ reply[c] # NULL /\ UNCHANGED daemonVars
  BY DEF IInv, Apply, Ignore, Return, daemonVars, Advances
<1>2. /\ call' \in [Thread -> Request \cup {NULL}]
      /\ reply' \in [Thread -> Profile \cup {NULL}]
      /\ late' \subseteq Request /\ CallOK' /\ LateOK' /\ ReplyOK'
  BY CallEnds DEF Apply, Ignore, Return
<1>3. CASE UNCHANGED <<cache, result, history>>
  <2>1. TypeOK'
    BY <1>1, <1>2, <1>3 DEF TypeOK, daemonVars, history
  <2> QED BY <1>1, <1>2, <1>3, <2>1, QuietStep DEF history, IInv
<1>4. CASE \E tr : Applied(c, tr)
  <2>1. PICK tr : Applied(c, tr)
    BY <1>4
  <2>2. /\ cache' \in [Token -> Registration \cup {NULL}]
        /\ result' \in [Thread -> Result] /\ CacheOK'
        /\ reported' \in [Token -> SUBSET Nat] /\ ReportOK'
        /\ taken' \in [Binding -> Int] /\ displaced' \in [Binding -> Int]
        /\ BindingsBalanced'
    BY <1>1, <2>1, AppliedCache, AppliedReport, AppliedBalance DEF daemonVars
  <2>3. TypeOK'
    BY <1>1, <1>2, <2>2 DEF TypeOK, daemonVars
  <2> QED BY <1>2, <2>2, <2>3 DEF IInv
<1> QED BY <1>1, <1>3, <1>4, ApplyEffect DEF Ignore

LEMMA Inductive == IInv /\ [Next]_vars => IInv'
<1> SUFFICES ASSUME IInv, [Next]_vars PROVE IInv'
  OBVIOUS
<1>1. CASE UNCHANGED vars
  <2>1. TypeOK' /\ CallOK' /\ LateOK' /\ Advances
    BY <1>1 DEF vars, clientVars, daemonVars, history, IInv, TypeOK, CallOK, LateOK, Advances
  <2>2. ReplyOK'
    BY <1>1, <2>1, RepliesStay DEF ReplyOK, vars, clientVars
  <2> QED BY <1>1, <2>1, <2>2, QuietStep DEF vars, clientVars, history, IInv
<1>2. CASE Next
  BY <1>2, AskStep, HandleStep, RefuseStep, TimeOutStep, ReturnStep, DaemonStep DEF Next
<1> QED BY <1>1, <1>2

-----------------------------------------------------------------------------
(* The properties.                                                         *)

LEMMA Invariance == Spec => []IInv
BY Start, Inductive, PTL DEF Spec

\* Every variable keeps its type, whatever the daemon answers and however the
\* answers overtake each other.
THEOREM TypeCorrect == Spec => []TypeOK
<1>1. IInv => TypeOK
  BY DEF IInv
<1> QED BY <1>1, Invariance, PTL

\* For any number of threads, tokens and bindings: a binding that was cached is
\* cached still, was handed back, or was displaced by a later answer.
THEOREM Balanced == Spec => []BindingsBalanced
<1>1. IInv => BindingsBalanced
  BY DEF IInv
<1> QED BY <1>1, Invariance, PTL

\* A call ends by an answer that is applied, or without any effect on the cache.
LEMMA Ends ==
    ASSUME IInv, Next, NEW c \in Thread, reply[c] # NULL, reply'[c] = NULL
    PROVE  cache' = cache \/ \E tr : Applied(c, tr)
<1>1. TypeOK /\ ReplyOK
  BY DEF IInv
<1>2. CASE \E d \in Thread : Apply(d)
  <2>1. PICK d \in Thread : Apply(d)
    BY <1>2
  <2>2. d = c
    BY <1>1, <2>1 DEF Apply, Return, TypeOK
  <2> QED BY <1>1, <2>1, <2>2, ApplyEffect
<1>3. CASE ~ \E d \in Thread : Apply(d)
  BY <1>3 DEF Next, Ask, Handle, Refuse, TimeOut, Ignore, HandleLate, Post, Restart,
              history, clientVars
<1> QED BY <1>2, <1>3

\* The result of a call changes when it is asked, to no result, or when its
\* answer is applied.
LEMMA ResultBy ==
    ASSUME IInv, Next, NEW c \in Thread, result'[c] # result[c]
    PROVE  result'[c] = NoResult \/ (reply[c] # NULL /\ \E tr : Applied(c, tr))
<1>1. TypeOK /\ ReplyOK
  BY DEF IInv
<1>2. CASE \E d \in Thread : Apply(d)
  <2>1. PICK d \in Thread : Apply(d)
    BY <1>2
  <2>2. \E tr : Applied(d, tr)
    BY <1>1, <2>1, ApplyEffect
  <2>3. d = c
    BY <1>1, <2>2 DEF Applied, TypeOK
  <2> QED BY <2>1, <2>2, <2>3 DEF Apply
<1>3. CASE \E d \in Thread, op \in Operation, t \in Token : Ask(d, op, t)
  BY <1>1, <1>3 DEF Ask, TypeOK
<1>4. CASE UNCHANGED result
  BY <1>4
<1> QED BY <1>2, <1>3, <1>4
        DEF Next, Handle, Refuse, TimeOut, Ignore, HandleLate, Post, Restart, clientVars

\* Which step discards a registration.
LEMMA DiscardedBy ==
    ASSUME IInv, Next, NEW t \in Token, cache[t] # NULL, cache'[t] = NULL
    PROVE  \E c \in Thread : /\ reply[c] # NULL /\ call[c].token = t
                             /\ \E tr : Applied(c, tr)
<1>1. TypeOK /\ ReplyOK
  BY DEF IInv
<1>2. PICK c \in Thread : Apply(c)
  BY DEF Next, Ask, Handle, Refuse, TimeOut, Ignore, HandleLate, Post, Restart,
         history, clientVars
<1>3. PICK tr : Applied(c, tr)
  BY <1>1, <1>2, ApplyEffect
<1>4. call[c].token = t
  BY <1>1, <1>2, <1>3, Pending DEF Applied, TypeOK, Apply
<1> QED BY <1>2, <1>3, <1>4 DEF Apply

LEMMA AdvanceStep ==
    ASSUME IInv, Next, NEW c \in Thread, result'[c] # result[c], result'[c].changed = TRUE
    PROVE  \A g \in reported[call[c].token] : reply[c].generation > g
<1> DEFINE t == call[c].token
<1>1. reply[c] # NULL /\ \E tr : Applied(c, tr)
  <2>1. NoResult.changed = NULL /\ NULL # TRUE
    BY NullAssumption DEF NoResult
  <2> QED BY <2>1, ResultBy
<1>2. PICK tr : Applied(c, tr)
  BY <1>1
<1>3. /\ t \in Token /\ call[c].op \in Operation /\ reply[c] \in Profile
      /\ cache[t] \in Registration \cup {NULL} /\ AnswerOK(reply[c], t)
  BY <1>1, Pending DEF IInv
<1>4. Effects(call[c].op, reply[c], cache[t], tr) /\ tr.changed = TRUE
  BY <1>2 DEF Applied, IInv, TypeOK
<1>5. Merges(call[c].op, reply[c], cache[t], tr)
  BY <1>4, NullAssumption DEF Effects, Stores, Keeps, Discards
<1>6. /\ cache[t] \in Registration /\ reply[c].generation \in Nat
      /\ cache[t].first \/ reply[c].generation > cache[t].last
  <2>1. cache[t] \in Registration /\ reply[c].generation \in Nat
    BY <1>3, <1>5 DEF Merges, Profile, RegistrationKinds
  <2>2. Changed(reply[c], cache[t])
    BY <1>4, <1>5, Zenon DEF Merges
  <2> QED BY <2>1, <2>2 DEF Changed
<1>7. \A g \in reported[t] : g \in Nat /\ cache[t].last >= g /\ ~cache[t].first
  BY <1>3, <1>5 DEF IInv, ReportOK, TypeOK, Merges
<1> QED BY <1>6, <1>7 DEF Registration

\* For any number of threads: a change that is reported is newer than every
\* change reported before.
THEOREM ReportsOnlyAdvance == Spec => ReportsAdvance
<1>1. IInv /\ [Next]_vars =>
        [\A c \in Thread :
          result'[c] # result[c] /\ result'[c].changed = TRUE =>
             \A g \in reported[call[c].token] : reply[c].generation > g]_vars
  BY AdvanceStep
<1> QED BY <1>1, Invariance, PTL DEF Spec, ReportsAdvance

LEMMA NeverBackStep ==
    ASSUME IInv, Next, NEW c \in Thread, NEW t \in Token,
           reply[c] # NULL, reply'[c] = NULL, call[c].op \notin StoreOperation,
           cache[t] # NULL, cache'[t] # NULL
    PROVE  cache'[t].last >= cache[t].last /\ (cache'[t].first => cache[t].first)
<1>1. cache[t] \in Registration
  BY DEF IInv, TypeOK
<1>2. CASE cache'[t] = cache[t]
  BY <1>1, <1>2 DEF Registration
<1>3. CASE cache'[t] # cache[t]
  <2>1. PICK tr : Applied(c, tr)
    BY <1>3, Ends
  <2>2. /\ call[c].token \in Token /\ call[c].op \in Operation /\ reply[c] \in Profile
    BY Pending DEF IInv
  <2>3. call[c].token = t /\ cache'[t] = tr.registration
    BY <1>3, <2>1, <2>2 DEF Applied, IInv, TypeOK
  <2>4. Merges(call[c].op, reply[c], cache[t], tr)
    BY <1>3, <2>1, <2>3 DEF Applied, Effects, Stores, Keeps, Discards
  <2>5. reply[c].registration \in Registration /\ reply[c].generation \in Nat
    BY <2>2, <2>4 DEF Merges, Profile, RegistrationKinds
  <2> QED
    BY <1>1, <2>3, <2>4, <2>5 DEF Merges, Merged, Registration, Max3, AtLeast
<1> QED BY <1>2, <1>3

\* For any number of threads: a stale answer never takes the cached registration
\* back.
THEOREM NeverGoesBack == Spec => NeverBack
<1>1. IInv /\ [Next]_vars =>
        [\A c \in Thread : \A t \in Token :
          /\ reply[c] # NULL /\ reply'[c] = NULL
          /\ call[c].op \notin StoreOperation
          /\ cache[t] # NULL /\ cache'[t] # NULL
          => /\ cache'[t].last >= cache[t].last
             /\ cache'[t].first => cache[t].first]_vars
  BY NeverBackStep
<1> QED BY <1>1, Invariance, PTL DEF Spec, NeverBack

LEMMA ValidityStep ==
    ASSUME IInv, Next, NEW c \in Thread, result'[c] # result[c], result'[c].valid # NULL
    PROVE  result'[c].valid <=> cache'[call[c].token] # NULL
<1> DEFINE t == call[c].token
<1>1. reply[c] # NULL /\ \E tr : Applied(c, tr)
  BY ResultBy DEF NoResult
<1>2. PICK tr : Applied(c, tr)
  BY <1>1
<1>3. t \in Token
  BY <1>1, Pending DEF IInv
<1>4. /\ Effects(call[c].op, reply[c], cache[t], tr)
      /\ result'[c].valid = tr.valid /\ cache'[t] = tr.registration
  BY <1>2, <1>3 DEF Applied, IInv, TypeOK
<1>5. CASE Keeps(call[c].op, reply[c], cache[t], tr)
  <2>1. tr.valid = (cache[t] # NULL) /\ tr.registration = cache[t]
    BY <1>4, <1>5, Zenon DEF Keeps
  <2> QED BY <1>4, <2>1, Zenon
<1>6. CASE Discards(call[c].op, reply[c], cache[t], tr)
  <2>1. tr.valid = FALSE /\ tr.registration = NULL
    BY <1>4, <1>6 DEF Discards
  <2> QED BY <1>4, <2>1, Zenon
<1> QED BY <1>4, <1>5, <1>6 DEF Effects, Stores, Merges

\* For any number of threads: a token is called valid exactly if it is still
\* cached.
THEOREM ValidityAgrees == Spec => ValidityAgreesWithCache
<1>1. IInv /\ [Next]_vars =>
        [\A c \in Thread :
          result'[c] # result[c] /\ result'[c].valid # NULL =>
             (result'[c].valid <=> cache'[call[c].token] # NULL)]_vars
  BY ValidityStep
<1> QED BY <1>1, Invariance, PTL DEF Spec, ValidityAgreesWithCache

LEMMA LossStep ==
    ASSUME IInv, Next, NEW t \in Token, cache[t] # NULL, cache'[t] = NULL
    PROVE  known[t] = "gone"
<1>1. PICK c \in Thread : /\ reply[c] # NULL /\ call[c].token = t
                          /\ \E tr : Applied(c, tr)
  BY DiscardedBy
<1>2. PICK tr : Applied(c, tr)
  BY <1>1
<1>3. /\ call[c].op \in Operation /\ reply[c] \in Profile
      /\ cache[t] \in Registration /\ AnswerOK(reply[c], t)
  BY <1>1, Pending DEF IInv
<1>4. Effects(call[c].op, reply[c], cache[t], tr) /\ tr.registration = NULL
  BY <1>1, <1>2, <1>3 DEF Applied, IInv, TypeOK
<1>5. ~Stores(call[c].op, reply[c], cache[t], tr)
  BY <1>3, <1>4, NullIsNoRegistration DEF Stores, Profile, RegistrationKinds
<1>6. ~Merges(call[c].op, reply[c], cache[t], tr)
  <2>1. ASSUME Merges(call[c].op, reply[c], cache[t], tr) PROVE FALSE
    <3>1. reply[c].registration \in Registration /\ reply[c].generation \in Nat
      BY <1>3, <2>1 DEF Merges, Profile, RegistrationKinds
    <3>2. Merged(reply[c], cache[t]) \in Registration
      BY <1>3, <3>1 DEF Merged, Registration, Max3, AtLeast
    <3> QED BY <1>4, <2>1, <3>2, NullIsNoRegistration DEF Merges
  <2> QED BY <2>1
<1>7. Discards(call[c].op, reply[c], cache[t], tr)
  BY <1>4, <1>5, <1>6, <1>3, NullIsNoRegistration DEF Effects, Keeps
<1> QED BY <1>3, <1>7 DEF Discards, AnswerOK

\* For any number of threads: a registration is discarded only if the daemon no
\* longer has it.
THEOREM OnlyLoss == Spec => OnlyLossDiscards
<1>1. IInv /\ [Next]_vars =>
        [\A t \in Token : cache[t] # NULL /\ cache'[t] = NULL => known[t] = "gone"]_vars
  BY LossStep
<1> QED BY <1>1, Invariance, PTL DEF Spec, OnlyLossDiscards

-----------------------------------------------------------------------------
(* One thread whose calls are all answered.  An answer under way says what *)
(* the daemon has, and only the token it is about may be out of step.      *)

Sequential == ~Lossy /\ \A c, d \in Thread : c = d

InStep(t) ==
    cache[t] = [binding |-> bound[t], last |-> last[t], first |-> first[t]]

SeenOK == \A t \in Token : last[t] <= generation

\* The only thread still has the registration it asked about.
AskedOK == \A c \in Thread :
    call[c] # NULL /\ call[c].op # "registration_store" => cache[call[c].token] # NULL

\* A request that was handled has moved the daemon on, and not yet the table.
TableInStep == \A t \in Token :
    cache[t] # NULL /\ known[t] = "active" =>
        \/ InStep(t)
        \/ \E c \in Thread :
              /\ reply[c] # NULL /\ call[c].token = t
              /\ \/ reply[c].kind \in RegistrationKinds
                 \/ /\ reply[c].kind = "NotifyCheck"
                    /\ cache[t].last <= last[t] /\ cache[t].binding = bound[t]

\* An answer about t to the operation op tells the daemon's registration, and a
\* change only if the table does not have it.
AnswerInStep(p, op, t) ==
    /\ p.kind \in RegistrationKinds =>
          op \in StoreOperation /\ p.registration.binding = bound[t]
    /\ p.kind \in RegistrationKinds \cup {"NotifyCheck"} =>
          p.registration.last = last[t] /\ p.registration.first = first[t]
    /\ p.kind = "NotifyCheck" =>
          /\ op = "check" /\ p.generation = last[t]
          /\ p.registration.binding \in {NULL, bound[t]}
          /\ p.changed => cache[t].first \/ p.generation > cache[t].last

RepliesInStep == \A c \in Thread :
    reply[c] # NULL => AnswerInStep(reply[c], call[c].op, call[c].token)

SyncOK == late = {} /\ SeenOK /\ AskedOK /\ TableInStep /\ RepliesInStep

LEMMA SyncStart == Init => SyncOK
BY DEF Init, SyncOK, SeenOK, AskedOK, TableInStep, RepliesInStep

LEMMA AskSync ==
    ASSUME IInv, SyncOK, NEW c \in Thread, NEW op \in Operation, NEW t \in Token,
           Ask(c, op, t)
    PROVE  SyncOK'
<1>1. /\ call \in [Thread -> Request \cup {NULL}] /\ call[c] = NULL
      /\ UNCHANGED <<cache, reply, late, known, bound, last, first, generation>>
      /\ op # "registration_store" => cache[t] # NULL
      /\ call' = [call EXCEPT ![c] = [op |-> op, token |-> t]]
  BY DEF IInv, TypeOK, Ask, daemonVars
<1>2. call'[c] = [op |-> op, token |-> t] /\ \A d \in Thread \ {c} : call'[d] = call[d]
  BY <1>1
<1>3. reply[c] = NULL
  BY <1>1 DEF IInv, ReplyOK
<1>4. AskedOK'
  BY <1>1, <1>2 DEF SyncOK, AskedOK
<1>5. TableInStep'
  BY <1>1, <1>2, <1>3 DEF SyncOK, TableInStep, InStep
<1>6. RepliesInStep'
  BY <1>1, <1>2, <1>3 DEF SyncOK, RepliesInStep, AnswerInStep
<1> QED BY <1>1, <1>4, <1>5, <1>6 DEF SyncOK, SeenOK

\* With no answer under way, the table is in step.
LEMMA NoAnswer ==
    ASSUME Sequential, SyncOK, NEW c \in Thread, reply[c] = NULL
    PROVE  /\ \A d \in Thread : reply[d] = NULL
           /\ \A t \in Token : cache[t] # NULL /\ known[t] = "active" => InStep(t)
<1>1. \A d \in Thread : reply[d] = NULL
  BY DEF Sequential
<1> QED BY <1>1 DEF SyncOK, TableInStep

\* A request moves only its token; a check moves it to the present generation,
\* and only a store or an update moves it any other way.
LEMMA EffectSync ==
    ASSUME IInv, NEW r \in Request, Effect(r),
           r.op # "registration_store" => known[r.token] # "new"
    PROVE  LET t == r.token IN
           /\ generation' = generation
           /\ \A u \in Token : u # t =>
                /\ known'[u] = known[u] /\ bound'[u] = bound[u]
                /\ last'[u] = last[u] /\ first'[u] = first[u]
           /\ known'[t] = "active" /\ cache[t] # NULL => known[t] = "active"
           /\ r.op = "check" /\ known[t] # "gone" =>
                last'[t] = generation /\ first'[t] = FALSE /\ bound'[t] = bound[t]
           /\ r.op \notin StoreOperation \cup {"check"} =>
                bound'[t] = bound[t] /\ last'[t] = last[t] /\ first'[t] = first[t]
           /\ last'[t] \in {0, generation, last[t]}
<1> DEFINE t == r.token
<1>1. /\ t \in Token /\ known \in [Token -> {"new", "active", "gone"}]
      /\ bound \in [Token -> Binding \cup {NULL}]
      /\ last \in [Token -> Nat] /\ first \in [Token -> BOOLEAN]
      /\ cache[t] # NULL => known[t] # "new"
  BY DEF IInv, TypeOK, Request, CacheOK
<1>2. CASE /\ r.op = "registration_update" /\ known[t] = "active"
           /\ Renews(t) /\ UNCHANGED <<known, generation>>
  <2>1. CASE UNCHANGED <<bound, last, first, renewals>>
    BY <1>1, <1>2, <2>1 DEF StoreOperation
  <2>2. CASE ~ UNCHANGED <<bound, last, first, renewals>>
    <3>1. /\ \E b \in Binding \cup {NULL} : bound' = [bound EXCEPT ![t] = b]
          /\ last' = [last EXCEPT ![t] = 0] /\ first' = [first EXCEPT ![t] = TRUE]
      BY <1>2, <2>2 DEF Renews
    <3> QED BY <1>1, <1>2, <3>1 DEF StoreOperation
  <2> QED BY <2>1, <2>2
<1>3. CASE /\ r.op = "registration_store" /\ known[t] = "new"
           /\ Starts(t) /\ known' = [known EXCEPT ![t] = "active"]
           /\ UNCHANGED <<bound, renewals, generation>>
  BY <1>1, <1>3 DEF Starts, StoreOperation
<1>4. CASE /\ r.op = "check" /\ known[t] = "active"
           /\ last' = [last EXCEPT ![t] = generation]
           /\ first' = [first EXCEPT ![t] = FALSE]
           /\ UNCHANGED <<known, bound, renewals, generation>>
  BY <1>1, <1>4 DEF StoreOperation
<1>5. CASE /\ r.op = "cancel" /\ known[t] = "active"
           /\ known' = [known EXCEPT ![t] = "gone"]
           /\ UNCHANGED <<bound, last, first, renewals, generation>>
  BY <1>1, <1>5 DEF StoreOperation
<1>6. CASE /\ r.op \in {"registration_update", "check", "cancel"} => known[t] # "active"
           /\ UNCHANGED <<known, bound, last, first, renewals, generation>>
  BY <1>1, <1>6
<1> QED BY <1>2, <1>3, <1>4, <1>5, <1>6, EffectCases

\* What a handled request answers is in step with the daemon.
LEMMA AnswersInStep ==
    ASSUME NEW r \in Request, Effect(r), NEW p \in Answers(r), IInv, UNCHANGED cache,
           r.op # "registration_store" => known[r.token] # "new",
           known[r.token] = "active" /\ r.op = "check" => InStep(r.token)
    PROVE  /\ AnswerInStep(p, r.op, r.token)'
           /\ known[r.token] # "gone" =>
                /\ r.op \in StoreOperation => p.kind \in RegistrationKinds
                /\ r.op = "check" => p.kind = "NotifyCheck"
<1> DEFINE t == r.token
<1>1. /\ t \in Token /\ known[t] \in {"new", "active", "gone"} /\ r.op \in Operation
      /\ last[t] \in Nat /\ generation \in Nat /\ generation' = generation
  BY EffectSync DEF IInv, TypeOK, Request
<1>2. CASE r.op \in StoreOperation /\ known[t] # "gone"
  <2>1. PICK k \in RegistrationKinds : p = [kind |-> k, registration |-> After(t, bound'[t])]
    BY <1>2 DEF Answers, StoreOperation, RegistrationKinds
  <2>2. /\ p.kind \in RegistrationKinds /\ p.registration.binding = bound'[t]
        /\ p.registration.last = last'[t] /\ p.registration.first = first'[t]
    BY <2>1 DEF After
  <2> QED BY <1>2, <2>2 DEF AnswerInStep, RegistrationKinds, StoreOperation
<1>3. CASE r.op = "check" /\ known[t] # "gone"
  <2>1. /\ cache[t].first = first[t] /\ cache[t].last = last[t]
        /\ last'[t] = generation /\ first'[t] = FALSE
    <3>1. last'[t] = generation /\ first'[t] = FALSE
      BY <1>3, EffectSync
    <3>2. known[t] = "active" /\ InStep(t)
      BY <1>1, <1>3
    <3> QED BY <3>1, <3>2 DEF InStep
  <2>2. PICK b \in {NULL, bound'[t]} :
            p = [kind |-> "NotifyCheck", generation |-> generation,
                 changed |-> first[t] \/ generation > last[t],
                 registration |-> After(t, b)]
    BY <1>3 DEF Answers, StoreOperation
  <2>3. /\ p.kind = "NotifyCheck" /\ p.generation = generation
        /\ p.registration.last = last'[t] /\ p.registration.first = first'[t]
        /\ p.registration.binding \in {NULL, bound'[t]}
    BY <2>2 DEF After
  <2>4. p.changed => first[t] \/ generation > last[t]
    BY <2>2
  <2> QED BY <1>3, <2>1, <2>3, <2>4 DEF AnswerInStep, RegistrationKinds, StoreOperation
<1>4. CASE r.op \notin StoreOperation \cup {"check"} \/ known[t] = "gone"
  <2>1. p.kind \notin RegistrationKinds \cup {"NotifyCheck"}
    BY <1>1, <1>4 DEF Answers, Unknown, RegistrationKinds, StoreOperation
  <2> QED BY <1>4, <2>1 DEF AnswerInStep
<1> QED BY <1>1, <1>2, <1>3, <1>4

LEMMA HandleSync ==
    ASSUME Sequential, IInv, SyncOK, NEW c \in Thread, Handle(c)
    PROVE  SyncOK'
<1> DEFINE r == call[c]
           t == r.token
<1>1. /\ r \in Request /\ t \in Token /\ Effect(r) /\ reply[c] = NULL
      /\ r.op # "registration_store" => known[t] # "new" /\ cache[t] # NULL
      /\ UNCHANGED <<cache, call, late>>
  BY DEF Handle, IInv, TypeOK, Request, CallOK, SyncOK, AskedOK
<1>2. PICK p \in Answers(r) : reply' = [reply EXCEPT ![c] = p]
  BY DEF Handle
<1>3. reply'[c] = p /\ \A d \in Thread : d = c
  BY <1>2 DEF IInv, TypeOK, Sequential
<1>4. p \in Profile /\ p # NULL
  BY <1>1, AnswersOK, ClientAssumption DEF IInv
<1>5. /\ generation' = generation
      /\ \A u \in Token : u # t =>
           /\ known'[u] = known[u] /\ bound'[u] = bound[u]
           /\ last'[u] = last[u] /\ first'[u] = first[u]
      /\ known'[t] = "active" /\ cache[t] # NULL => known[t] = "active"
      /\ r.op = "check" /\ known[t] # "gone" =>
           last'[t] = generation /\ first'[t] = FALSE /\ bound'[t] = bound[t]
      /\ r.op \notin StoreOperation \cup {"check"} =>
           bound'[t] = bound[t] /\ last'[t] = last[t] /\ first'[t] = first[t]
      /\ last'[t] \in {0, generation, last[t]}
  BY <1>1, EffectSync
<1>6. \A u \in Token : cache[u] # NULL /\ known[u] = "active" => InStep(u)
  BY <1>1, NoAnswer
<1>7. /\ AnswerInStep(p, r.op, t)'
      /\ known[t] # "gone" =>
           /\ r.op \in StoreOperation => p.kind \in RegistrationKinds
           /\ r.op = "check" => p.kind = "NotifyCheck"
  BY <1>1, <1>6, AnswersInStep
<1>8. SeenOK'
  BY <1>1, <1>5 DEF SyncOK, SeenOK, IInv, TypeOK
<1>9. AskedOK'
  BY <1>1 DEF SyncOK, AskedOK
<1>10. RepliesInStep'
  BY <1>1, <1>3, <1>7 DEF RepliesInStep
<1>11. ASSUME NEW u \in Token, cache'[u] # NULL, known'[u] = "active"
       PROVE  \/ InStep(u)'
              \/ \E d \in Thread :
                   /\ reply'[d] # NULL /\ call'[d].token = u
                   /\ \/ reply'[d].kind \in RegistrationKinds
                      \/ /\ reply'[d].kind = "NotifyCheck"
                         /\ cache'[u].last <= last'[u] /\ cache'[u].binding = bound'[u]
  <2>1. CASE u # t
    BY <1>1, <1>5, <1>6, <1>11, <2>1 DEF InStep
  <2>2. CASE u = t
    <3>1. known[t] = "active" /\ InStep(t) /\ cache'[t] = cache[t]
      BY <1>1, <1>5, <1>6, <1>11, <2>2
    <3>2. CASE r.op \in StoreOperation
      BY <1>1, <1>3, <1>4, <1>7, <2>2, <3>1, <3>2
    <3>3. CASE r.op = "check"
      <4>1. last[t] <= generation /\ cache[t].last = last[t] /\ cache[t].binding = bound[t]
        BY <1>1, <3>1 DEF InStep, SyncOK, SeenOK
      <4> QED BY <1>1, <1>3, <1>4, <1>5, <1>7, <2>2, <3>1, <3>3, <4>1
    <3>4. CASE r.op \notin StoreOperation \cup {"check"}
      BY <1>5, <2>2, <3>1, <3>4 DEF InStep
    <3> QED BY <3>2, <3>3, <3>4
  <2> QED BY <2>1, <2>2
<1>12. TableInStep'
  BY <1>11 DEF TableInStep
<1> QED BY <1>1, <1>8, <1>9, <1>10, <1>12 DEF SyncOK

LEMMA RefuseSync ==
    ASSUME Sequential, IInv, SyncOK, NEW c \in Thread, Refuse(c)
    PROVE  SyncOK'
<1>1. /\ reply[c] = NULL
      /\ UNCHANGED <<cache, call, late, known, bound, last, first, generation>>
  BY DEF Refuse, daemonVars
<1>2. PICK p \in Refusals : reply' = [reply EXCEPT ![c] = p]
  BY DEF Refuse
<1>3. reply'[c] = p /\ \A d \in Thread : d = c
  BY <1>2 DEF IInv, TypeOK, Sequential
<1>4. p.kind \notin RegistrationKinds \cup {"NotifyCheck"}
  BY DEF Refusals, RegistrationKinds
<1>5. TableInStep'
  BY <1>1, NoAnswer DEF TableInStep, InStep
<1>6. RepliesInStep'
  BY <1>3, <1>4 DEF RepliesInStep, AnswerInStep
<1> QED BY <1>1, <1>5, <1>6 DEF SyncOK, SeenOK, AskedOK

LEMMA DaemonSync ==
    ASSUME Sequential, IInv, SyncOK, HandleLate \/ Post \/ Restart
    PROVE  SyncOK'
<1>1. /\ UNCHANGED <<cache, call, reply, late, bound, last, first>> /\ generation' >= generation
      /\ generation' \in Nat /\ \A t \in Token : known'[t] = "active" => known[t] = "active"
  BY DEF HandleLate, Post, Restart, SyncOK, clientVars, IInv, TypeOK
<1>2. SeenOK'
  BY <1>1 DEF SyncOK, SeenOK, IInv, TypeOK
<1>3. TableInStep'
  BY <1>1 DEF SyncOK, TableInStep, InStep
<1> QED BY <1>1, <1>2, <1>3 DEF SyncOK, AskedOK, RepliesInStep, AnswerInStep

\* The answer to a check of a cached registration is always merged.
LEMMA CheckMerges ==
    ASSUME NEW p \in Profile, p.kind = "NotifyCheck", NEW cached \in Registration,
           NEW outcome \in NotifyOutcomes(p)
    PROVE  /\ Transition("check", outcome, cached).ok
           /\ Transition("check", outcome, cached).registration = Merged(p, cached)
           /\ Transition("check", outcome, cached).changed = Changed(p, cached)
<1>1. /\ outcome.kind = "check" /\ outcome.registration = p.registration
      /\ outcome.generation = p.generation /\ outcome.changed = p.changed
  BY DEF NotifyOutcomes, RegistrationKinds
<1>2. Merged(outcome, cached) = Merged(p, cached) /\ Changed(outcome, cached) = Changed(p, cached)
  BY <1>1 DEF Merged, Changed
<1>3. Transition("check", outcome, cached)
        = Caching(Merged(outcome, cached), Changed(outcome, cached), NULL)
  BY <1>1, NullIsNoRegistration
  DEF Transition, HandleSuccess, ExpectedKind, StoreOperation
<1> QED BY <1>2, <1>3 DEF Caching

\* A thread that gets the answer to its check caches what the daemon has, and is
\* told of the change if there was one.
LEMMA CheckReturns ==
    ASSUME IInv, SyncOK, NEW c \in Thread, Apply(c) \/ Ignore(c),
           reply[c].kind = "NotifyCheck"
    PROVE  /\ cache' = [cache EXCEPT ![call[c].token] = Merged(reply[c], @)]
           /\ result'[c].changed = reply[c].changed
<1> DEFINE t == call[c].token
           p == reply[c]
<1>1. /\ p \in Profile /\ p # NULL /\ call[c] # NULL /\ t \in Token /\ call[c].op = "check"
      /\ cache[t] \in Registration
      /\ p.changed => cache[t].first \/ p.generation > cache[t].last
  <2>1. p # NULL
    BY DEF Apply, Ignore
  <2>2. p \in Profile /\ t \in Token /\ cache[t] \in Registration \cup {NULL} /\ call[c] # NULL
    BY <2>1, Pending DEF IInv, ReplyOK
  <2>3. call[c].op = "check" /\ (p.changed => cache[t].first \/ p.generation > cache[t].last)
    BY <2>1 DEF SyncOK, RepliesInStep, AnswerInStep
  <2> QED BY <2>1, <2>2, <2>3 DEF SyncOK, AskedOK
<1>2. Apply(c)
  BY <1>1 DEF Ignore, NotifyOutcomes, RegistrationKinds
<1>3. PICK outcome \in NotifyOutcomes(p) :
        LET tr == Transition(call[c].op, outcome, cache[t]) IN
        IF tr.ok
        THEN /\ cache' = [cache EXCEPT ![t] = tr.registration]
             /\ result' = [result EXCEPT ![c] = [changed |-> tr.changed, valid |-> tr.valid]]
             /\ Account(c, t, tr)
        ELSE UNCHANGED <<cache, result, history>>
  BY <1>2 DEF Apply
<1> DEFINE tr == Transition("check", outcome, cache[t])
<1>4. tr.ok /\ tr.registration = Merged(p, cache[t]) /\ tr.changed = Changed(p, cache[t])
  BY <1>1, CheckMerges
<1>5. /\ cache' = [cache EXCEPT ![t] = Merged(p, cache[t])]
      /\ result'[c].changed = Changed(p, cache[t])
  BY <1>1, <1>3, <1>4 DEF IInv, TypeOK
<1>6. p.changed \in BOOLEAN
  BY <1>1 DEF Profile, RegistrationKinds
<1>7. Changed(p, cache[t]) = p.changed
  BY <1>1, <1>6, Zenon DEF Changed
<1> QED BY <1>1, <1>5, <1>7 DEF IInv, TypeOK

\* A thread that gets a registration to store caches it.
LEMMA StoreReturns ==
    ASSUME IInv, SyncOK, NEW c \in Thread, Apply(c) \/ Ignore(c),
           reply[c].kind \in RegistrationKinds
    PROVE  cache' = [cache EXCEPT ![call[c].token] = reply[c].registration]
<1> DEFINE t == call[c].token
           p == reply[c]
<1>1. p # NULL /\ call[c].op \in StoreOperation
  BY DEF Apply, Ignore, SyncOK, RepliesInStep, AnswerInStep
<1>2. NotifyOutcomes(p) = {[kind |-> "registration", registration |-> p.registration]}
  BY DEF NotifyOutcomes, RegistrationKinds
<1>3. Apply(c)
  BY <1>2 DEF Ignore
<1>4. PICK outcome \in NotifyOutcomes(p) :
        LET tr == Transition(call[c].op, outcome, cache[t]) IN
        IF tr.ok
        THEN /\ cache' = [cache EXCEPT ![t] = tr.registration]
             /\ result' = [result EXCEPT ![c] = [changed |-> tr.changed, valid |-> tr.valid]]
             /\ Account(c, t, tr)
        ELSE UNCHANGED <<cache, result, history>>
  BY <1>3 DEF Apply
<1>5. outcome.kind = "registration" /\ outcome.registration = p.registration
  BY <1>2, <1>4
<1>6. Transition(call[c].op, outcome, cache[t]) = Caching(p.registration, NULL, NULL)
  BY <1>1, <1>5 DEF Transition, HandleSuccess, ExpectedKind
<1> QED BY <1>4, <1>6 DEF Caching

LEMMA ReturnSync ==
    ASSUME Sequential, IInv, SyncOK, NEW c \in Thread, Apply(c) \/ Ignore(c)
    PROVE  SyncOK'
<1> DEFINE t == call[c].token
           p == reply[c]
<1>1. /\ p # NULL /\ UNCHANGED <<late, known, bound, last, first, generation>>
      /\ call' = [call EXCEPT ![c] = NULL] /\ reply' = [reply EXCEPT ![c] = NULL]
  BY DEF Apply, Ignore, Return, daemonVars
<1>2. /\ p \in Profile /\ t \in Token /\ AnswerOK(p, t) /\ AnswerInStep(p, call[c].op, t)
      /\ cache \in [Token -> Registration \cup {NULL}]
      /\ last \in [Token -> Nat] /\ first \in [Token -> BOOLEAN]
  BY <1>1, Pending DEF IInv, SyncOK, RepliesInStep, TypeOK
<1>3. \A d \in Thread : d = c /\ call'[d] = NULL /\ reply'[d] = NULL
  BY <1>1 DEF Sequential, IInv, TypeOK
<1>4. AskedOK' /\ RepliesInStep'
  BY <1>3 DEF AskedOK, RepliesInStep
<1>5. ASSUME NEW u \in Token, cache'[u] # NULL, known[u] = "active"
      PROVE  cache'[u] = [binding |-> bound[u], last |-> last[u], first |-> first[u]]
  <2>1. CASE p.kind = "NotifyCheck"
    <3>1. cache' = [cache EXCEPT ![t] = Merged(p, cache[t])]
      BY <1>2, <2>1, CheckReturns
    <3>2. CASE u # t
      BY <1>2, <1>3, <1>5, <3>1, <3>2 DEF SyncOK, TableInStep, InStep
    <3>3. CASE u = t
      <4>1. /\ p.registration \in Registration /\ p.generation = last[t]
            /\ p.registration.last = last[t] /\ p.registration.first = first[t]
            /\ p.registration.binding \in {NULL, bound[t]} /\ first[t] = FALSE
        BY <1>2, <2>1 DEF Profile, RegistrationKinds, AnswerInStep, AnswerOK, Registration
      <4>2. cache[t] \in Registration
        BY <1>1, <1>2, <2>1 DEF SyncOK, AskedOK, AnswerInStep, IInv, ReplyOK
      <4>3. cache[t].last <= last[t] /\ cache[t].binding = bound[t]
        <5>1. InStep(t) \/ (cache[t].last <= last[t] /\ cache[t].binding = bound[t])
          BY <1>2, <1>3, <1>5, <2>1, <3>3, <4>2, NullIsNoRegistration
          DEF SyncOK, TableInStep, RegistrationKinds
        <5> QED BY <1>2, <5>1 DEF InStep
      <4>4. Merged(p, cache[t]).last = last[t]
        BY <1>2, <4>1, <4>2, <4>3 DEF Merged, Max3, AtLeast, Registration
      <4>5. Merged(p, cache[t]).binding = bound[t]
        BY <4>1, <4>2, <4>3 DEF Merged
      <4>6. Merged(p, cache[t]).first = first[t]
        BY <4>1 DEF Merged
      <4>7. Merged(p, cache[t])
              = [binding |-> bound[t], last |-> last[t], first |-> first[t]]
        BY <4>4, <4>5, <4>6 DEF Merged
      <4> QED BY <1>2, <3>1, <3>3, <4>7
    <3> QED BY <3>2, <3>3
  <2>2. CASE p.kind \in RegistrationKinds
    <3>1. cache' = [cache EXCEPT ![t] = p.registration]
      BY <2>2, StoreReturns
    <3>2. CASE u # t
      BY <1>2, <1>3, <1>5, <3>1, <3>2 DEF SyncOK, TableInStep, InStep
    <3>3. CASE u = t
      <4>1. p.registration \in Registration
        BY <1>2, <2>2 DEF Profile, RegistrationKinds
      <4>2. /\ p.registration.binding = bound[t] /\ p.registration.last = last[t]
            /\ p.registration.first = first[t]
        BY <1>2, <2>2 DEF AnswerInStep
      <4> QED BY <1>2, <3>1, <3>3, <4>1, <4>2 DEF Registration
    <3> QED BY <3>2, <3>3
  <2>3. CASE p.kind \notin RegistrationKinds \cup {"NotifyCheck"}
    <3>1. \A v \in Token : cache[v] # NULL /\ known[v] = "active" => InStep(v)
      BY <1>3, <2>3 DEF SyncOK, TableInStep
    <3>2. CASE cache'[u] = cache[u]
      BY <1>5, <3>1, <3>2 DEF InStep
    <3>3. CASE cache'[u] # cache[u]
      <4>1. PICK tr : Applied(c, tr)
        BY <3>3, ApplyEffect DEF IInv, Ignore
      <4>2. u = t /\ cache'[t] = tr.registration /\ Effects(call[c].op, p, cache[t], tr)
        BY <1>2, <3>3, <4>1 DEF Applied
      <4> QED BY <1>5, <2>3, <3>3, <4>2 DEF Effects, Stores, Merges, Keeps, Discards
    <3> QED BY <3>2, <3>3
  <2> QED BY <2>1, <2>2, <2>3
<1>6. TableInStep'
  BY <1>1, <1>5 DEF TableInStep, InStep
<1> QED BY <1>1, <1>4, <1>6 DEF SyncOK, SeenOK

LEMMA SyncInductive ==
    ASSUME Sequential
    PROVE  IInv /\ SyncOK /\ [Next]_vars => SyncOK'
<1> SUFFICES ASSUME IInv, SyncOK, [Next]_vars PROVE SyncOK'
  OBVIOUS
<1>1. CASE UNCHANGED vars
  BY <1>1 DEF vars, clientVars, daemonVars, SyncOK, SeenOK, AskedOK, TableInStep, InStep, RepliesInStep, AnswerInStep
<1>2. CASE Next
  <2>1. ~ \E c \in Thread : TimeOut(c)
    BY DEF Sequential, TimeOut
  <2> QED BY <1>2, <2>1, AskSync, HandleSync, RefuseSync, ReturnSync, DaemonSync DEF Next
<1> QED BY <1>1, <1>2

LEMMA SyncInvariance ==
    ASSUME Sequential
    PROVE  Spec => [](IInv /\ SyncOK)
<1>1. IInv /\ SyncOK /\ [Next]_vars => SyncOK'
  BY SyncInductive
<1> QED BY <1>1, Start, SyncStart, Inductive, PTL DEF Spec

\* For one thread and any number of tokens, posts and restarts of the daemon:
\* between calls, what is cached of a token is what the daemon has of it.
THEOREM StaysInStep ==
    ASSUME Sequential
    PROVE  Spec => []CacheInStep
<1>1. IInv /\ SyncOK => CacheInStep
  BY DEF IInv, ReplyOK, SyncOK, TableInStep, InStep, CacheInStep
<1> QED BY <1>1, SyncInvariance, PTL

LEMMA ReportStep ==
    ASSUME Sequential, IInv, SyncOK, Next, NEW c \in Thread, reply[c] # NULL, reply'[c] = NULL,
           reply[c].kind = "NotifyCheck"
    PROVE  result'[c].changed = reply[c].changed
<1>1. PICK d \in Thread : Apply(d) \/ Ignore(d)
  BY DEF Next, Ask, Handle, Refuse, TimeOut, Sequential, HandleLate, Post, Restart, clientVars
<1>2. d = c
  BY DEF Sequential
<1> QED BY <1>1, <1>2, CheckReturns

\* For one thread: no change that the daemon tells of is lost in the merge.
THEOREM ChangesReported ==
    ASSUME Sequential
    PROVE  Spec => ChangeReported
<1>1. IInv /\ SyncOK /\ [Next]_vars =>
        [\A c \in Thread :
          /\ reply[c] # NULL /\ reply'[c] = NULL
          /\ reply[c].kind = "NotifyCheck"
          => result'[c].changed = reply[c].changed]_vars
  BY ReportStep
<1> QED BY <1>1, SyncInvariance, PTL DEF Spec, ChangeReported
=============================================================================
