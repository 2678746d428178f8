--------------------------- MODULE NotifyTransition ---------------------------
(***************************************************************************)
(* The pure part of the notify client in FXCFControlPacket.c: the outcome  *)
(* of a classified response (_FXCFControlNotifyOutcomeInit) and what it    *)
(* does to the cached registration (_FXCFControlNotifyTransitionInit).     *)
(*                                                                         *)
(* A registration is what the rules read of it: the local transport        *)
(* binding, the last generation seen, and whether the first check is       *)
(* pending.  Session, scope, name and token are copied from the response   *)
(* and stand for themselves.  NULL is an absent field.                     *)
(***************************************************************************)
EXTENDS Integers

CONSTANTS Binding, NULL

ASSUME NullAssumption == NULL \notin Binding \cup BOOLEAN

Registration == [binding : Binding \cup {NULL}, last : Nat, first : BOOLEAN]

ASSUME NullIsNoRegistration == NULL \notin Registration

Operation == {"registration_store", "registration_update", "check", "cancel",
              "get_state", "is_valid_token"}

-----------------------------------------------------------------------------
(* Responses, as _FXCFControlResponseProfileInit classifies them.          *)

Cause == {"invalid_name", "invalid_token", "invalid_signal",
          "invalid_client_registration_id", "transport_binding_in_use",
          "unknown_transport_binding", "transport_failed"}
Code == {"notify_failed", "invalid_request", "unsupported_method", "internal"}

RegistrationKinds == {"NotifyRegistration", "NotifyRegistrationWrapper"}

\* causes is the set of causes the error message contains.  GenericObject is
\* any response that is none of the others, or is one of them but for a field of
\* another type.
Profile ==
    [kind : RegistrationKinds, registration : Registration]
    \cup [kind : {"NotifyCheck"}, registration : Registration,
          generation : Nat, changed : BOOLEAN]
    \cup [kind : {"NotifyValidity"}, valid : BOOLEAN]
    \cup [kind : {"NotifyCancel"}, canceled : BOOLEAN]
    \cup [kind : {"NotifyNameState", "NotifyPost", "GenericObject"}]
    \cup [kind : {"Error"}, code : Code, causes : SUBSET Cause]

Family == {"ok", "invalid_name", "invalid_token", "invalid_signal",
           "invalid_request", "invalid_file", "failed"}

\* The causes are looked for in this order.
NotifyFailedFamily(causes) ==
    IF "invalid_name" \in causes THEN "invalid_name"
    ELSE IF "invalid_token" \in causes THEN "invalid_token"
    ELSE IF "invalid_signal" \in causes THEN "invalid_signal"
    ELSE IF "invalid_client_registration_id" \in causes THEN "invalid_request"
    ELSE IF causes # {} THEN "invalid_file" ELSE "failed"

StatusFamilyForError(code, causes) ==
    IF code = "notify_failed" THEN NotifyFailedFamily(causes)
    ELSE IF code \in {"invalid_request", "unsupported_method"} THEN "invalid_request"
    ELSE "failed"

\* An outcome has the fields of its kind; without memory for the texts of an
\* error its family is "failed".  {} is a response that makes no outcome.
NotifyOutcomes(p) ==
    IF p.kind = "Error"
    THEN {[kind |-> "error", family |-> f] :
             f \in {StatusFamilyForError(p.code, p.causes), "failed"}}
    ELSE IF p.kind \in RegistrationKinds
    THEN {[kind |-> "registration", registration |-> p.registration]}
    ELSE IF p.kind = "NotifyCheck"
    THEN {[kind |-> "check", registration |-> p.registration,
           generation |-> p.generation, changed |-> p.changed]}
    ELSE IF p.kind = "NotifyValidity" THEN {[kind |-> "validity", valid |-> p.valid]}
    ELSE IF p.kind = "NotifyCancel" THEN {[kind |-> "cancel", canceled |-> p.canceled]}
    ELSE IF p.kind = "NotifyNameState" THEN {[kind |-> "name_state"]}
    ELSE IF p.kind = "NotifyPost" THEN {[kind |-> "post"]}
    ELSE {}

-----------------------------------------------------------------------------
(* Transitions.  The registration of a transition is the one to cache from *)
(* now on; released is a binding handed back to the caller; changed and    *)
(* valid are results of notify_check and notify_is_valid_token.            *)

TransitionRecord ==
    [ok : BOOLEAN, registration : Registration \cup {NULL},
     released : Binding \cup {NULL},
     changed : BOOLEAN \cup {NULL}, valid : BOOLEAN \cup {NULL}]

Failure == [ok |-> FALSE, registration |-> NULL, released |-> NULL,
            changed |-> NULL, valid |-> NULL]

\* The actions store, merge and keep.
Caching(registration, changed, valid) ==
    [ok |-> TRUE, registration |-> registration, released |-> NULL,
     changed |-> changed, valid |-> valid]

ReleasedBinding(cached) == IF cached = NULL THEN NULL ELSE cached.binding

\* Mutant: the binding of a discarded registration is forgotten.
MutDiscardForgets(cached, valid) == Caching(NULL, NULL, valid)
Discard(cached, valid) ==
    [ok |-> TRUE, registration |-> NULL, released |-> ReleasedBinding(cached),
     changed |-> NULL, valid |-> valid]

\* Mutants: any error discards; without an answer a token passes for valid.
MutHandleErrorDiscards(op, family, cached) ==
    Discard(cached, IF op = "is_valid_token" THEN FALSE ELSE NULL)
MutHandleErrorTrusts(op, family, cached) ==
    IF family = "invalid_token"
    THEN Discard(cached, IF op = "is_valid_token" THEN FALSE ELSE NULL)
    ELSE Caching(cached, NULL, IF op = "is_valid_token" THEN TRUE ELSE NULL)
HandleError(op, family, cached) ==
    IF family = "invalid_token"
    THEN Discard(cached, IF op = "is_valid_token" THEN FALSE ELSE NULL)
    ELSE Caching(cached, NULL, IF op = "is_valid_token" THEN cached # NULL ELSE NULL)

AtLeast(x, y) == IF x >= y THEN x ELSE y
Max3(left, middle, right) == AtLeast(AtLeast(left, middle), right)

\* Mutants: the first check is not told from later ones; the answer is not
\* compared with the cache.
MutChangedIgnoresFirst(outcome, cached) ==
    outcome.changed /\ outcome.generation > cached.last
MutChangedByAnswer(outcome, cached) == outcome.changed
Changed(outcome, cached) ==
    outcome.changed /\ (cached.first \/ outcome.generation > cached.last)

\* Mutants: the answer replaces the cached generation; its pending flag is
\* ignored.
MutMergedLatest(outcome, cached) ==
    [binding |-> IF outcome.registration.binding # NULL
                 THEN outcome.registration.binding ELSE cached.binding,
     last |-> outcome.generation,
     first |-> outcome.registration.first /\ cached.first]
MutMergedSticky(outcome, cached) ==
    [binding |-> IF outcome.registration.binding # NULL
                 THEN outcome.registration.binding ELSE cached.binding,
     last |-> Max3(outcome.registration.last, cached.last, outcome.generation),
     first |-> cached.first]
Merged(outcome, cached) ==
    [binding |-> IF outcome.registration.binding # NULL
                 THEN outcome.registration.binding ELSE cached.binding,
     last |-> Max3(outcome.registration.last, cached.last, outcome.generation),
     first |-> outcome.registration.first /\ cached.first]

StoreOperation == {"registration_store", "registration_update"}

ExpectedKind(op) ==
    IF op \in StoreOperation THEN "registration"
    ELSE IF op = "get_state" THEN "name_state"
    ELSE IF op = "is_valid_token" THEN "validity" ELSE op

HandleValidity(outcome, cached) ==
    IF outcome.valid THEN Caching(cached, NULL, TRUE) ELSE Discard(cached, FALSE)

HandleSuccess(op, outcome, cached) ==
    IF outcome.kind # ExpectedKind(op) \/ (op \notin StoreOperation /\ cached = NULL)
    THEN Failure
    ELSE IF op \in StoreOperation THEN Caching(outcome.registration, NULL, NULL)
    ELSE IF op = "check"
         THEN Caching(Merged(outcome, cached), Changed(outcome, cached), NULL)
    ELSE IF op = "cancel" THEN Discard(cached, NULL)
    ELSE IF op = "get_state" THEN Caching(cached, NULL, NULL)
    ELSE HandleValidity(outcome, cached)

Transition(op, outcome, cached) ==
    IF outcome.kind = "error" THEN HandleError(op, outcome.family, cached)
    ELSE HandleSuccess(op, outcome, cached)
=============================================================================
