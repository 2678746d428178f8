---------------------------- MODULE ControlPacket ----------------------------
(***************************************************************************)
(* FXCFControlPacket.c, the receiving side: how the data of a packet       *)
(* becomes a request, a routed request, a response, a response profile or  *)
(* a notify outcome.  A call is a sequence of stages, one for each function *)
(* and one for each kind of response that is tried; a stage is a chain of  *)
(* lookups that ends at the first one that fails, and what the ones before *)
(* it have stored stays stored.                                            *)
(*                                                                         *)
(* A value is tagged with its type; a string stands for its text, and NULL *)
(* for a value that is absent and for a field that is zero.                *)
(***************************************************************************)
EXTENDS Integers, Sequences, FiniteSets, TLC

CONSTANTS
    Payloads,  \* what the data of a packet may decode to; NULL if it does not
    NULL

VARIABLES
    call,     \* the function that was called
    stage,    \* what it does next; or "idle", "succeeded", "failed"
    root,     \* what its payload decodes to
    refs,     \* the references to the decoded packet that it and its result hold
    view,     \* the fields of its result
    has,      \* the fields whose has... flag is set
    kind,     \* the kind of the route or of the profile
    outcome,  \* the kind of the outcome
    error,    \* errorOut->kind
    refused   \* history: some lookup of this call had no memory for its key

vars == <<call, stage, root, refs, view, has, kind, outcome, error, refused>>

Calls == {"request", "route", "response", "profile", "outcome"}

Flagged == {"generation", "state", "currentState", "token", "valid", "changed",
            "canceled", "pendingGeneration", "signal", "targetPID",
            "reuseExistingBinding"}
Fields ==
    Flagged \cup
    {"packet", "protocolVersion", "service", "method", "params", "status", "result",
     "errorPayload", "errorCode", "errorMessage",
     "resultObject", "resultArray", "registration", "nameObject", "capabilities",
     "health", "daemon", "notifyNames", "deliveredTokens", "featureFlags", "reasons",
     "name", "scope", "expectedSessionID", "clientRegistrationID", "queueName",
     "sessionID", "bindingID", "bindingHandle", "viewToken", "lastSeenGeneration",
     "firstCheckPending"}

Empty == [f \in Fields |-> NULL]

-----------------------------------------------------------------------------
(* Values.                                                                 *)

Types == {"dict", "array", "string", "integer", "double", "bool", "date", "data"}

Is(v, type) == v # NULL /\ type \in DOMAIN v
Get(v, key) == IF Is(v, "dict") /\ key \in DOMAIN v.dict THEN v.dict[key] ELSE NULL

\* What CFPropertyListCreateWithData makes of the data: a value has one type, a
\* dictionary has finitely many keys, which are strings.  (Needed of the result of
\* a response and the parameters of a request only.)
Decoded(v) ==
    /\ v = NULL \/ \E type \in Types : DOMAIN v = {type}
    /\ Is(v, "dict") => IsFiniteSet(DOMAIN v.dict) /\ DOMAIN v.dict \subseteq STRING
ASSUME PayloadsDecoded ==
    \A p \in Payloads : Decoded(Get(p, "result")) /\ Decoded(Get(p, "params"))
\* Nothing is no value.
ASSUME NullIsNoValue ==
    NULL \notin {[integer |-> 1], [string |-> "ok"], [string |-> "error"]}
                \cup [string : STRING]

\* A string, or a key, that has no UTF-8: it holds a surrogate without its partner.
Spoken(t) == t # "unpaired"

\* v has all these keys, with values of these types.
Typed(v, shape) == \A key \in DOMAIN shape : Is(Get(v, key), shape[key])
Elements(v) == {v.array[i] : i \in DOMAIN v.array}

NameShape == [scope |-> "string", name |-> "string", generation |-> "integer",
              state |-> "integer", updated_at |-> "date", last_posted_at |-> "date"]
ValidName(v) == Typed(v, NameShape)
ValidNames(v) == Is(v, "array") /\ \A item \in Elements(v) : ValidName(item)
\* __FXCFControlPacketCopyNameSummaryText: the texts of the names can be copied.
SpokenNames(v) ==
    \A item \in Elements(v) : Spoken(Get(item, "scope").string) /\ Spoken(Get(item, "name").string)

RegistrationShape ==
    [delivery_method |-> "string", scope |-> "string", delivery_state |-> "string",
     name |-> "string", session_id |-> "string", token |-> "integer",
     suspend_depth |-> "integer", last_seen_generation |-> "integer",
     created_at |-> "date", valid |-> "bool", first_check_pending |-> "bool"]
ValidRegistration(v) ==
    /\ Typed(v, RegistrationShape)
    /\ Get(v, "pending_generation") # NULL => Is(Get(v, "pending_generation"), "integer")

OutputStatusShape == [state |-> "string", dirty |-> "bool", retry_scheduled |-> "bool"]

CapabilitiesShape ==
    [supports_native_macos_passthrough |-> "bool", supports_userspace_jobs |-> "bool",
     supports_userspace_notify |-> "bool", supports_cluster_overlay |-> "bool",
     supports_notify_fast_path |-> "bool", supports_launchctl_wrapper |-> "bool"]
ValidCapabilities(v) ==
    /\ Is(Get(v, "feature_flags"), "array")
    /\ \A item \in Elements(Get(v, "feature_flags")) : Is(item, "string")
    /\ Typed(v, CapabilitiesShape)

ReasonShape == [component |-> "string", issue |-> "string"]
HealthShape == [state |-> "string", observed_at |-> "date"]
ValidHealth(v) ==
    /\ Typed(v, HealthShape)
    /\ Is(Get(v, "reasons"), "array")
    /\ \A item \in Elements(Get(v, "reasons")) : Typed(item, ReasonShape)
    /\ \A key \in {"job_persistence", "notify_persistence", "notify_fast_path"} :
        Typed(Get(v, key), OutputStatusShape)

DaemonShape ==
    [daemon_id |-> "string", node_id |-> "string", hostname |-> "string",
     runtime_mode |-> "string", version |-> "string", control_socket_path |-> "string",
     started_at |-> "date", cluster_enabled |-> "bool",
     notify_fast_path_enabled |-> "bool"]
ValidDiagnostics(v) ==
    /\ Typed(Get(v, "daemon"), DaemonShape)
    /\ ValidHealth(Get(v, "health"))
    /\ ValidCapabilities(Get(v, "capabilities"))
    /\ Is(Get(v, "jobs"), "array")
    /\ ValidNames(Get(v, "notify_names"))

-----------------------------------------------------------------------------
(* Lookups.  Each makes a key first, for which there may be no memory.     *)

Lookup(v, f, ok, e) ==
    [value |-> v, into |-> f, ok |-> ok, error |-> e, resets |-> FALSE, asks |-> TRUE]

\* The field is stored when there is a value of the type.
Require(v, type, f) == Lookup(v, f, Is(v, type), "missing_key")
RequireValue(v, f) == Lookup(v, f, v # NULL, "missing_key")
\* The field and its flag are reset first; a value of another type is an error.
Optional(v, type, f) ==
    [Lookup(v, f, v = NULL \/ Is(v, type), "invalid_packet") EXCEPT !.resets = TRUE]
\* A function of lookups whose results are not kept.
Valid(b) == Lookup(NULL, "nothing", b, "invalid_packet")
\* A condition without a lookup.
Test(b, e) == [Lookup(NULL, "nothing", b, e) EXCEPT !.asks = FALSE]

\* Chains, where lookup number cut finds no memory; none does if cut is 0.
Cuts(chain) == {0} \cup {i \in DOMAIN chain : chain[i].asks}
Succeeded(chain, cut) == {i \in DOMAIN chain : \A j \in 1..i : chain[j].ok /\ j # cut}
Whole(chain, cut) == Succeeded(chain, cut) = DOMAIN chain
\* The lookup that fails, if one does.
Stop(chain, cut) == Cardinality(Succeeded(chain, cut)) + 1
Refuses(chain, cut) == cut = Stop(chain, cut)
ErrorOf(chain, cut) ==
    IF Refuses(chain, cut) THEN "invalid_packet" ELSE chain[Stop(chain, cut)].error

\* What a chain has stored, and the flags.
Stored(chain, cut) ==
    LET done == Succeeded(chain, cut)
        reset == {i \in DOMAIN chain : chain[i].resets /\ i <= Stop(chain, cut)}
        At(f, s) == {i \in s : chain[i].into = f}
    IN  [f \in Fields |-> IF At(f, done) # {} THEN chain[CHOOSE i \in At(f, done) : TRUE].value
                          ELSE IF At(f, reset) # {} THEN NULL
                          ELSE view[f]]
FlagsAfter(chain, cut) ==
    LET reset == {i \in DOMAIN chain : chain[i].resets /\ i <= Stop(chain, cut)}
        found == {i \in reset \cap Succeeded(chain, cut) : chain[i].value # NULL}
    IN  (has \ {chain[i].into : i \in reset}) \cup (Flagged \cap {chain[i].into : i \in found})

-----------------------------------------------------------------------------
(* Envelopes.                                                              *)

Version(p) ==
    <<Require(Get(p, "protocol_version"), "integer", "protocolVersion"),
      Test(Get(p, "protocol_version") = [integer |-> 1], "unsupported_version")>>

\* __FXCFControlPacketValidateRequest, and the same again in RequestInit.
RequestChain(p) ==
    Version(p) \o
    <<Require(Get(p, "service"), "string", "service"),
      Require(Get(p, "method"), "string", "method"),
      Require(Get(p, "params"), "dict", "params")>>

\* __FXCFControlPacketValidateResponse, and the same again in ResponseInit.  The
\* text of the status is copied.
ResponseChain(p) ==
    LET status == Get(p, "status")
        payload == Get(p, "error")
    IN  Version(p) \o <<Require(status, "string", "status"), Valid(TRUE)>> \o
        CASE status = [string |-> "ok"] -> <<RequireValue(Get(p, "result"), "result")>>
          [] status = [string |-> "error"] ->
                <<Require(payload, "dict", "errorPayload"),
                  Require(Get(payload, "code"), "string", "errorCode"),
                  Require(Get(payload, "message"), "string", "errorMessage")>>
          [] OTHER -> <<Test(FALSE, "invalid_packet")>>

Envelope == IF call \in {"request", "route"} THEN RequestChain(root) ELSE ResponseChain(root)

-----------------------------------------------------------------------------
(* Routes: __FXCFControlRequestRouteKindForEnvelope.  The kind is named by *)
(* its method.                                                             *)

Methods ==
    [control |-> {"capabilities", "health"},
     diagnostics |-> {"snapshot"},
     notify |-> {"cancel", "check", "get_state", "is_valid_token", "list_names", "post",
                 "prepare_file_descriptor_delivery", "register_check",
                 "register_dispatch", "register_file_descriptor", "register_signal",
                 "resume", "set_state", "suspend"}]
RouteKind(service, method) ==
    IF service \in DOMAIN Methods /\ method \in Methods[service] THEN method ELSE "invalid"

\* The typed parameters of _FXCFControlRequestRouteInit.
Params(p) ==
    <<Optional(Get(p, "name"), "string", "name"),
      Optional(Get(p, "scope"), "string", "scope"),
      Optional(Get(p, "expected_session_id"), "string", "expectedSessionID"),
      Optional(Get(p, "client_registration_id"), "string", "clientRegistrationID"),
      Optional(Get(p, "queue_name"), "string", "queueName"),
      Optional(Get(p, "token"), "integer", "token"),
      Optional(Get(p, "signal"), "integer", "signal"),
      Optional(Get(p, "target_pid"), "integer", "targetPID"),
      Optional(Get(p, "state"), "integer", "state"),
      Optional(Get(p, "reuse_existing_binding"), "bool", "reuseExistingBinding")>>

-----------------------------------------------------------------------------
(* Profiles: the kinds in the order they are tried, and how.               *)

ProbeOrder ==
    <<"NotifyCancel", "NotifyCheck", "NotifyPost", "NotifyNameState",
      "NotifyRegistrationWrapper", "NotifyRegistration", "NotifyValidity",
      "ControlCapabilities", "ControlHealth", "DiagnosticsSnapshot", "GenericObject">>
ProbeKinds == {ProbeOrder[i] : i \in DOMAIN ProbeOrder}
Place(k) == CHOOSE i \in DOMAIN ProbeOrder : ProbeOrder[i] = k

CancelProbe(r) ==
    <<Optional(Get(r, "registration"), "dict", "registration"),
      Test(Get(r, "registration") # NULL, "none"),
      Optional(Get(r, "canceled"), "bool", "canceled"),
      Test(Get(r, "canceled") # NULL, "none"),
      Valid(ValidRegistration(Get(r, "registration")))>>
CheckProbe(r) ==
    <<Require(Get(r, "registration"), "dict", "registration"),
      Optional(Get(r, "generation"), "integer", "generation"),
      Optional(Get(r, "current_state"), "integer", "currentState"),
      Optional(Get(r, "changed"), "bool", "changed"),
      Test(NULL \notin {Get(r, "generation"), Get(r, "current_state"), Get(r, "changed")},
           "none"),
      Valid(ValidRegistration(Get(r, "registration")))>>
PostProbe(r) ==
    <<Require(Get(r, "name"), "dict", "nameObject"),
      Require(Get(r, "delivered_tokens"), "array", "deliveredTokens"),
      Require(Get(r, "generation"), "integer", "generation"),
      Optional(Get(r, "posted_at"), "date", "nothing"),
      Test(Get(r, "posted_at") # NULL, "none"),
      Valid(ValidName(Get(r, "name")))>>
NameStateProbe(r) ==
    <<Require(Get(r, "name"), "dict", "nameObject"),
      Require(Get(r, "state"), "integer", "state"),
      Valid(ValidName(Get(r, "name")))>>
WrapperProbe(r) ==
    <<Require(Get(r, "registration"), "dict", "registration"),
      Valid(ValidRegistration(Get(r, "registration")))>>
ValidityProbe(r) ==
    <<Test(Cardinality(DOMAIN r.dict) = 1, "none"),
      Optional(Get(r, "valid"), "bool", "valid"),
      Test(Get(r, "valid") # NULL, "none")>>
CapabilitiesProbe(r) ==
    <<Valid(ValidCapabilities(r)),
      Require(Get(r, "feature_flags"), "array", "featureFlags")>>
HealthProbe(r) ==
    <<Valid(ValidHealth(r)),
      Require(Get(r, "reasons"), "array", "reasons"),
      Require(Get(r, "job_persistence"), "dict", "health")>>
DiagnosticsProbe(r) ==
    <<Valid(ValidDiagnostics(r)),
      Require(Get(r, "daemon"), "dict", "daemon"),
      Require(Get(r, "capabilities"), "dict", "capabilities"),
      Require(Get(r, "health"), "dict", "health"),
      Require(Get(r, "notify_names"), "array", "notifyNames")>>

Probe(k, r) ==
    CASE k = "NotifyCancel" -> CancelProbe(r)
      [] k = "NotifyCheck" -> CheckProbe(r)
      [] k = "NotifyPost" -> PostProbe(r)
      [] k = "NotifyNameState" -> NameStateProbe(r)
      [] k = "NotifyRegistrationWrapper" -> WrapperProbe(r)
      [] k = "NotifyRegistration" -> <<Valid(ValidRegistration(r))>>
      [] k = "NotifyValidity" -> ValidityProbe(r)
      [] k = "ControlCapabilities" -> CapabilitiesProbe(r)
      [] k = "ControlHealth" -> HealthProbe(r)
      [] k = "DiagnosticsSnapshot" -> DiagnosticsProbe(r)
      [] k = "GenericObject" -> <<>>

\* Mutant: the generation of a name's state is looked for in the object.
MutFollowUp(k, r) ==
    CASE k = "NotifyPost" -> <<Require(Get(Get(r, "name"), "state"), "integer", "state")>>
      [] k = "NotifyNameState" ->
            <<Require(Get(r, "generation"), "integer", "generation")>>
      [] OTHER -> <<>>
\* The lookups that follow once a kind is found; if one fails, so does the call.
FollowUp(k, r) ==
    CASE k = "NotifyPost" -> <<Require(Get(Get(r, "name"), "state"), "integer", "state")>>
      [] k = "NotifyNameState" ->
            <<Require(Get(Get(r, "name"), "generation"), "integer", "generation")>>
      [] OTHER -> <<>>

\* What is assigned without a lookup, with the flags of what is there.
OfRegistration(v) == [token |-> Get(v, "token"), valid |-> Get(v, "valid")]
\* Mutant: the health stays what the last lookup has stored.
MutAssigned(k, r) ==
    CASE k \in {"NotifyCancel", "NotifyCheck", "NotifyRegistrationWrapper"} ->
            OfRegistration(Get(r, "registration"))
      [] k = "NotifyRegistration" ->
            [registration |-> r, pendingGeneration |-> Get(r, "pending_generation"),
             token |-> Get(r, "token"), valid |-> Get(r, "valid")]
      [] k = "ControlCapabilities" -> [capabilities |-> r]
      [] OTHER -> <<>>
Assigned(k, r) ==
    CASE k \in {"NotifyCancel", "NotifyCheck", "NotifyRegistrationWrapper"} ->
            OfRegistration(Get(r, "registration"))
      [] k = "NotifyRegistration" ->
            [registration |-> r, pendingGeneration |-> Get(r, "pending_generation"),
             token |-> Get(r, "token"), valid |-> Get(r, "valid")]
      [] k = "ControlCapabilities" -> [capabilities |-> r]
      [] k = "ControlHealth" -> [health |-> r]
      [] OTHER -> <<>>
AssignedFlags(k, r) ==
    {f \in Flagged \cap DOMAIN Assigned(k, r) : Assigned(k, r)[f] # NULL}
    \cup IF k \in {"NotifyPost", "NotifyNameState"} THEN {"generation", "state"} ELSE {}

-----------------------------------------------------------------------------
(* Outcomes.                                                               *)

NameChain(name) ==
    <<Require(Get(name, "name"), "string", "name"),
      Require(Get(name, "scope"), "string", "scope")>>

\* Mutant: a registration without a local binding is refused.
MutRegistrationViewChain(v) ==
    <<Require(Get(v, "token"), "integer", "viewToken"),
      Require(Get(v, "session_id"), "string", "sessionID"),
      Require(Get(v, "scope"), "string", "scope"),
      Require(Get(v, "name"), "string", "name"),
      Require(Get(v, "local_transport_binding_id"), "string", "bindingID"),
      Optional(Get(v, "local_transport_handle"), "string", "bindingHandle"),
      Require(Get(v, "last_seen_generation"), "integer", "lastSeenGeneration"),
      Require(Get(v, "first_check_pending"), "bool", "firstCheckPending")>>
\* __FXCFControlNotifyRegistrationViewInit.
RegistrationViewChain(v) ==
    <<Require(Get(v, "token"), "integer", "viewToken"),
      Require(Get(v, "session_id"), "string", "sessionID"),
      Require(Get(v, "scope"), "string", "scope"),
      Require(Get(v, "name"), "string", "name"),
      Optional(Get(v, "local_transport_binding_id"), "string", "bindingID"),
      Optional(Get(v, "local_transport_handle"), "string", "bindingHandle"),
      Require(Get(v, "last_seen_generation"), "integer", "lastSeenGeneration"),
      Require(Get(v, "first_check_pending"), "bool", "firstCheckPending")>>

\* The outcome of each kind of profile, and the lookups it takes.
OutcomeKind ==
    [Error |-> "error", NotifyPost |-> "post", NotifyRegistrationWrapper |-> "registration",
     NotifyRegistration |-> "registration", NotifyCheck |-> "check",
     NotifyCancel |-> "cancel", NotifyNameState |-> "name_state",
     NotifyValidity |-> "validity"]
OutcomeChain ==
    CASE kind \in {"NotifyPost", "NotifyNameState"} -> NameChain(view.nameObject)
      [] kind \in {"NotifyRegistrationWrapper", "NotifyRegistration", "NotifyCheck"} ->
            RegistrationViewChain(view.registration)
      [] OTHER -> <<>>

-----------------------------------------------------------------------------
(* The stages.                                                             *)

Init ==
    /\ call \in Calls /\ stage = "idle" /\ root = NULL /\ refs = 0
    /\ view = Empty /\ has = {} /\ kind = "invalid" /\ outcome = "invalid"
    /\ error = "none" /\ refused = FALSE

\* A call zeroes its result; errorOut still has what the last call left.
Call ==
    /\ stage = "idle"
    /\ call' \in Calls /\ root' \in Payloads /\ stage' = "decode"
    /\ UNCHANGED <<refs, view, has, kind, outcome, error, refused>>

\* Mutant: the result is zeroed before the packet would be released.
MutClear ==
    UNCHANGED refs /\ view' = Empty /\ has' = {} /\ kind' = "invalid" /\ outcome' = "invalid"
\* The Clear function of whatever there is: the packet is released, and the
\* result zeroed.
Clear ==
    refs' = 0 /\ view' = Empty /\ has' = {} /\ kind' = "invalid" /\ outcome' = "invalid"

Fail(e) == stage' = "failed" /\ error' = e /\ Clear

\* _FXCFControlPacketDecodeEnvelope.
DecodeEnvelope ==
    /\ stage = "decode"
    /\ IF ~Is(root, "dict")
       THEN Fail("invalid_packet") /\ UNCHANGED refused
       ELSE \E cut \in Cuts(Envelope) :
        /\ refused' = Refuses(Envelope, cut)
        /\ IF Whole(Envelope, cut)
           THEN stage' = "read" /\ refs' = 1 /\ error' = "none"
                /\ UNCHANGED <<view, has, kind, outcome>>
           ELSE Fail(ErrorOf(Envelope, cut))
    /\ UNCHANGED <<call, root>>

\* The rest of _FXCFControlRequestInit and _FXCFControlResponseInit.
ReadEnvelope ==
    /\ stage = "read"
    /\ \E cut \in Cuts(Envelope) :
        /\ refused' = Refuses(Envelope, cut)
        /\ IF Whole(Envelope, cut)
           THEN /\ stage' = CASE call \in {"request", "response"} -> "succeeded"
                              [] call = "route" -> "route"
                              [] OTHER -> "profile"
                /\ view' = [Stored(Envelope, cut) EXCEPT !.packet = root]
                /\ UNCHANGED <<refs, has, kind, outcome, error>>
           ELSE Fail(ErrorOf(Envelope, cut))
    /\ UNCHANGED <<call, root>>

\* _FXCFControlRequestRouteInit.  Without memory for its texts a request has no
\* route.
Route ==
    /\ stage = "route"
    /\ \E cut \in Cuts(Params(view.params)), texts \in BOOLEAN :
        LET params == Params(view.params)
            found == RouteKind(view.service.string, view.method.string)
        IN  /\ refused' = (~texts \/ Refuses(params, cut))
            /\ IF ~texts \/ found = "invalid" THEN Fail("invalid_packet")
               ELSE IF ~Whole(params, cut) THEN Fail(ErrorOf(params, cut))
               ELSE /\ stage' = "succeeded" /\ kind' = found
                    /\ view' = Stored(params, cut) /\ has' = FlagsAfter(params, cut)
                    /\ UNCHANGED <<refs, outcome, error>>
    /\ UNCHANGED <<call, root>>

Profiled == IF call = "outcome" THEN "outcome" ELSE "succeeded"

\* _FXCFControlResponseProfileInit: what is no dictionary.
Profile ==
    /\ stage = "profile"
    /\ \/ /\ view.status = [string |-> "error"]
          /\ kind' = "Error" /\ stage' = Profiled
          /\ UNCHANGED <<refs, view, has, outcome, error, refused>>
       \/ /\ Is(view.result, "array")
          /\ \E memory \in BOOLEAN :
              IF memory /\ ValidNames(view.result) /\ SpokenNames(view.result)
              THEN /\ kind' = "NotifyNameList" /\ stage' = Profiled
                   /\ view' = [view EXCEPT !.resultArray = view.result,
                                           !.notifyNames = view.result]
                   /\ UNCHANGED <<refs, has, outcome, error, refused>>
              ELSE Fail("invalid_packet") /\ refused' = ~memory
       \/ /\ Is(view.result, "dict")
          /\ stage' = ProbeOrder[1]
          /\ view' = [view EXCEPT !.resultObject = view.result]
          /\ UNCHANGED <<refs, has, kind, outcome, error, refused>>
       \/ /\ view.result # NULL /\ ~Is(view.result, "array") /\ ~Is(view.result, "dict")
          /\ Fail("invalid_packet")
          /\ UNCHANGED refused
    /\ UNCHANGED <<call, root>>

\* One kind is tried.  A lookup without memory counts as a value that is not
\* there, and its error goes nowhere.
Try ==
    /\ stage \in ProbeKinds
    /\ LET r == view.resultObject
           probe == Probe(stage, r)
           next == FollowUp(stage, r)
           assigned == Assigned(stage, r)
       IN  \E cut \in Cuts(probe) :
            \/ /\ ~Whole(probe, cut)
               /\ stage' = ProbeOrder[Place(stage) + 1]
               /\ view' = Stored(probe, cut) /\ has' = FlagsAfter(probe, cut)
               /\ refused' = (refused \/ Refuses(probe, cut))
               /\ UNCHANGED <<refs, kind, outcome, error>>
            \/ /\ Whole(probe, cut)
               /\ \E after \in Cuts(next) :
                   /\ refused' = (refused \/ Refuses(next, after))
                   /\ IF ~Whole(next, after) THEN Fail("invalid_packet")
                      ELSE LET stored == Stored(probe \o next, cut) IN
                           /\ stage' = Profiled /\ kind' = stage
                           /\ view' = [f \in Fields |-> IF f \in DOMAIN assigned
                                                        THEN assigned[f] ELSE stored[f]]
                           /\ has' = FlagsAfter(probe, cut) \cup AssignedFlags(stage, r)
                           /\ UNCHANGED <<refs, outcome, error>>
    /\ UNCHANGED <<call, root>>

\* The rest of _FXCFControlNotifyOutcomeInit.  A name that is not found gives one
\* error, a registration the error of the lookup.
Outcome ==
    /\ stage = "outcome"
    /\ \E cut \in Cuts(OutcomeChain) :
        /\ refused' = (refused \/ Refuses(OutcomeChain, cut))
        /\ IF kind \notin DOMAIN OutcomeKind THEN Fail("invalid_packet")
           ELSE IF ~Whole(OutcomeChain, cut)
           THEN Fail(IF kind \in {"NotifyPost", "NotifyNameState"} THEN "invalid_packet"
                     ELSE ErrorOf(OutcomeChain, cut))
           ELSE /\ stage' = "succeeded" /\ outcome' = OutcomeKind[kind]
                /\ view' = Stored(OutcomeChain, cut)
                /\ UNCHANGED <<refs, has, kind, error>>
    /\ UNCHANGED <<call, root>>

\* The caller is done with the result and the data.
Done ==
    /\ stage \in {"succeeded", "failed"}
    /\ stage' = "idle" /\ Clear /\ root' = NULL /\ refused' = FALSE
    /\ UNCHANGED <<call, error>>

Next ==
    \/ Call
    \/ DecodeEnvelope \/ ReadEnvelope \/ Route \/ Profile \/ Try \/ Outcome \/ Done

Spec == Init /\ [][Next]_vars
-----------------------------------------------------------------------------
(* Properties.                                                             *)

TypeOK ==
    /\ call \in Calls /\ refs \in {0, 1} /\ refused \in BOOLEAN
    /\ stage \in {"idle", "decode", "read", "route", "profile", "outcome", "succeeded",
                  "failed"} \cup ProbeKinds
    /\ DOMAIN view = Fields /\ has \subseteq Flagged
    /\ error \in {"none", "missing_key", "unsupported_version", "invalid_packet"}

\* A field of the result is a part of the packet only while the call or its
\* result holds the packet; a call that fails, at whatever lookup, has given the
\* packet back and left nothing in the result, and one that succeeds hands over
\* the one reference there is, with the packet for Clear to find.
PacketOwned ==
    /\ TypeOK
    /\ view # Empty => refs = 1 /\ view.packet = root
    /\ stage \in {"idle", "failed"} => refs = 0 /\ has = {} /\ kind = "invalid"
    /\ stage = "succeeded" => refs = 1 /\ view.packet = root

\* What the kinds of object promise to those who read the profile.
Fits(k, r) ==
    LET registered == ValidRegistration(Get(r, "registration"))
        named == ValidName(Get(r, "name"))
    IN  CASE k = "NotifyCancel" -> registered /\ Is(Get(r, "canceled"), "bool")
          [] k = "NotifyCheck" ->
                registered /\ Typed(r, [generation |-> "integer", current_state |-> "integer",
                                        changed |-> "bool"])
          [] k = "NotifyPost" ->
                named /\ Typed(r, [generation |-> "integer", delivered_tokens |-> "array",
                                   posted_at |-> "date"])
          [] k = "NotifyNameState" -> named /\ Is(Get(r, "state"), "integer")
          [] k = "NotifyRegistrationWrapper" -> registered
          [] k = "NotifyRegistration" -> ValidRegistration(r)
          [] k = "NotifyValidity" -> DOMAIN r.dict = {"valid"} /\ Is(Get(r, "valid"), "bool")
          [] k = "ControlCapabilities" -> ValidCapabilities(r)
          [] k = "ControlHealth" -> ValidHealth(r)
          [] k = "DiagnosticsSnapshot" -> ValidDiagnostics(r)
          [] k = "GenericObject" -> TRUE

\* An object is given a kind that it fits; the first one in the order, unless
\* memory ran out while an earlier one was tried.
KindFits ==
    kind \in ProbeKinds =>
        /\ Fits(kind, view.result)
        /\ ~refused => \A k \in ProbeKinds :
                         Fits(k, view.result) => Place(kind) <= Place(k)

\* Where the values of a profile come from: a key of the object, of its name or
\* of its registration.
Source(k, r) ==
    LET name == Get(r, "name")
        registration == IF k = "NotifyRegistration" THEN r ELSE Get(r, "registration")
        token == Get(registration, "token")
        valid == Get(registration, "valid")
    IN  CASE k = "NotifyCancel" ->
                [canceled |-> Get(r, "canceled"), token |-> token, valid |-> valid]
          [] k = "NotifyCheck" ->
                [generation |-> Get(r, "generation"), changed |-> Get(r, "changed"),
                 currentState |-> Get(r, "current_state"), token |-> token, valid |-> valid]
          [] k = "NotifyPost" ->
                [generation |-> Get(r, "generation"), state |-> Get(name, "state")]
          [] k = "NotifyNameState" ->
                [generation |-> Get(name, "generation"), state |-> Get(r, "state")]
          [] k \in {"NotifyRegistrationWrapper", "NotifyRegistration"} ->
                [token |-> token, valid |-> valid]
          [] k = "NotifyValidity" -> [valid |-> Get(r, "valid")]
          [] OTHER -> <<>>

\* An object that fits several kinds is always given the same, and the values of
\* a profile are those of its kind, whatever the kinds that were tried before it
\* have left behind: posting and reading a name take generation and state from
\* opposite places.  The readers of the outcome find every value they ask for
\* flagged, and no flag stands for a value that is not there.
FieldsAgree ==
    /\ KindFits
    /\ kind \in ProbeKinds =>
        LET source == Source(kind, view.result) IN
        \A f \in DOMAIN source : view[f] = source[f] /\ f \in has
    /\ \A f \in has : view[f] # NULL
    /\ outcome \in {"registration", "check"} =>
        view.viewToken = view.token /\ view.registration # NULL

\* The packets that a call should take.
Envelopes(c, p) ==
    /\ Get(p, "protocol_version") = [integer |-> 1]
    /\ IF c \in {"request", "route"}
       THEN Typed(p, [service |-> "string", method |-> "string", params |-> "dict"])
       ELSE \/ Get(p, "status") = [string |-> "ok"] /\ Get(p, "result") # NULL
            \/ /\ Get(p, "status") = [string |-> "error"]
               /\ Typed(Get(p, "error"), [code |-> "string", message |-> "string"])

TypedParams(v) ==
    LET May(key, type) == Get(v, key) = NULL \/ Is(Get(v, key), type) IN
    /\ \A key \in {"name", "scope", "expected_session_id", "client_registration_id",
                    "queue_name"} : May(key, "string")
    /\ \A key \in {"token", "signal", "target_pid", "state"} : May(key, "integer")
    /\ May("reuse_existing_binding", "bool")

BindingTyped(v) ==
    \A key \in {"local_transport_binding_id", "local_transport_handle"} :
        Get(v, key) = NULL \/ Is(Get(v, key), "string")

Acceptable(c, p) ==
    LET result == Get(p, "result")
        First == CHOOSE k \in ProbeKinds :
                    Fits(k, result) /\ \A j \in ProbeKinds : Fits(j, result) => Place(k) <= Place(j)
    IN  /\ Envelopes(c, p)
        /\ c = "route" =>
            /\ RouteKind(Get(p, "service").string, Get(p, "method").string) # "invalid"
            /\ TypedParams(Get(p, "params"))
        /\ c \in {"profile", "outcome"} /\ Get(p, "status") = [string |-> "ok"] =>
            Is(result, "dict") \/ (ValidNames(result) /\ SpokenNames(result))
        /\ c = "outcome" /\ Get(p, "status") = [string |-> "ok"] =>
            /\ Is(result, "dict") /\ First \in DOMAIN OutcomeKind
            /\ First \in {"NotifyCheck", "NotifyRegistrationWrapper"} =>
                BindingTyped(Get(result, "registration"))
            /\ First = "NotifyRegistration" => BindingTyped(result)

\* A call fails exactly when its packet is not acceptable or memory has run out,
\* and then errorOut says so; after a success it says nothing, also when the
\* call before had failed.
ErrorTellsFailure ==
    /\ stage = "failed" => error # "none" /\ (Acceptable(call, root) => refused)
    /\ stage = "succeeded" => error = "none" /\ Envelopes(call, root)
    /\ stage = "succeeded" /\ ~refused => Acceptable(call, root)
    /\ stage = "failed" /\ error = "unsupported_version" =>
        Is(Get(root, "protocol_version"), "integer")
=============================================================================
