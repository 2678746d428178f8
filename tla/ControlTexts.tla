---------------------------- MODULE ControlTexts ----------------------------
(***************************************************************************)
(* FXCFControlPacket.c: the texts that a caller copies out of a result of  *)
(* ControlPacket, in JSON or as a summary of a line, and of an error.      *)
(*                                                                         *)
(* A text is made of the values it looks up once more in the packet and of *)
(* the strings it copies: with all of them it is given, or not at all.     *)
(* That the summaries with a buffer of fixed size are cut when a number is *)
(* too long for it (lines 2747 to 2785, and 4175) is left out.  How the    *)
(* JSON is put together is CanonicalText.                                  *)
(***************************************************************************)
EXTENDS ControlPacket

VARIABLE text  \* the text that was asked for last

NoText == [of |-> "nothing", got |-> TRUE, starved |-> FALSE]

-----------------------------------------------------------------------------
(* What texts are made of.                                                 *)

\* found: what is looked up has its type.
Made(found, copies) == [found |-> found, copies |-> copies]
Copies(strings) == Made(TRUE, strings)

\* Strings that are looked up, then copied.
Strings(v, keys) ==
    Made(\A key \in keys : Is(Get(v, key), "string"), {Get(v, key) : key \in keys})
Both(m, n) == Made(m.found /\ n.found, m.copies \cup n.copies)

\* __FXCFControlPacketCopySortedKeys and __FXCFControlPacketCopySortedStringArray.
Keys(v) == {[string |-> key] : key \in DOMAIN v.dict}
Items(v) == IF Is(v, "array") THEN Elements(v) ELSE {}
\* __FXCFControlRequestRouteAppendOptionalStringJSON: nothing without the string.
Present(strings) == strings \ {NULL}

\* All that is looked up has its type, and all that is copied has UTF-8.
Readable(m) ==
    /\ m.found
    /\ \A s \in m.copies : Is(s, "string") /\ Spoken(s.string)

-----------------------------------------------------------------------------
(* Requests and routes.                                                    *)

Method == {view.service, view.method}
RequestJSON == Copies(Keys(view.params) \cup Method)
RouteJSON ==
    Copies(Keys(view.params) \cup Method
           \cup Present({view.clientRegistrationID, view.expectedSessionID, view.name,
                         view.queueName, view.scope}))

-----------------------------------------------------------------------------
(* Responses and their profiles.                                           *)

Failed == view.status = [string |-> "error"]
ErrorStrings == {view.errorCode, view.errorMessage}

ResponseJSON ==
    Copies(IF Failed THEN ErrorStrings
           ELSE IF Is(view.result, "dict") THEN Keys(view.result) ELSE {})

Statuses == {"job_persistence", "notify_persistence", "notify_fast_path"}
\* __FXCFControlPacketCopySortedReasonSummaries.
Reasons(v) ==
    Made(Is(v, "array") /\ \A item \in Items(v) : Typed(item, ReasonShape),
         {Get(item, key) : item \in Items(v), key \in DOMAIN ReasonShape})
HealthJSON(v) ==
    Both(Both(Strings(v, {"state"}), Reasons(Get(v, "reasons"))),
         Made(\A key \in Statuses : Is(Get(Get(v, key), "state"), "string"),
              {Get(Get(v, key), "state") : key \in Statuses}))
DiagnosticsJSON(r) ==
    LET flags == Get(Get(r, "capabilities"), "feature_flags") IN
        Both(Both(Strings(view.daemon, {"daemon_id"}), Strings(Get(r, "health"), {"state"})),
             Made(Is(flags, "array") /\ Is(Get(r, "jobs"), "array"), Items(flags)))

\* The texts of the list are made again as they were for the profile.
NameListJSON(v) ==
    Made(Is(v, "array") /\ \A item \in Items(v) : Typed(item, NameShape),
         {Get(item, key) : item \in Items(v), key \in {"scope", "name"}})

\* _FXCFControlResponseProfileCopyCanonicalJSON.
ProfileJSON ==
    CASE kind = "Error" -> Copies(ErrorStrings)
      [] kind \in {"NotifyRegistrationWrapper", "NotifyRegistration", "NotifyCancel",
                   "NotifyCheck"} -> Strings(view.registration, {"delivery_method", "scope"})
      [] kind \in {"NotifyPost", "NotifyNameState"} -> Strings(view.nameObject, {"name", "scope"})
      [] kind = "NotifyValidity" -> Copies({})
      [] kind = "NotifyNameList" -> NameListJSON(view.notifyNames)
      [] kind = "ControlCapabilities" ->
            Made(Typed(view.capabilities, CapabilitiesShape), Items(view.featureFlags))
      [] kind = "ControlHealth" -> HealthJSON(view.health)
      [] kind = "DiagnosticsSnapshot" -> DiagnosticsJSON(view.resultObject)
      [] kind = "GenericObject" -> Copies(Keys(view.resultObject))

\* _FXCFControlResponseProfileCopySummary.
ProfileSummary ==
    CASE kind = "Error" -> Copies({view.errorCode})
      [] kind = "ControlHealth" -> Strings(view.health, {"state"})
      [] kind = "DiagnosticsSnapshot" ->
            Made(Is(Get(view.resultObject, "jobs"), "array"), {})
      [] OTHER -> Copies({})

-----------------------------------------------------------------------------
(* Outcomes.                                                               *)

\* _FXCFControlNotifyOutcomeCopyCanonicalJSON.
OutcomeJSON ==
    CASE outcome = "error" -> Copies(ErrorStrings)
      [] outcome \in {"post", "name_state"} -> Copies({view.name, view.scope})
      [] outcome \in {"registration", "check"} ->
            Copies({view.name, view.scope, view.sessionID}
                   \cup Present({view.bindingHandle, view.bindingID}))
      [] OTHER -> Copies({})
OutcomeSummary ==
    CASE outcome = "error" -> Copies({view.errorCode})
      [] outcome = "registration" -> Copies({view.sessionID})
      [] OTHER -> Copies({})

-----------------------------------------------------------------------------
(* The calls.                                                              *)

JSON ==
    CASE call = "request" -> RequestJSON
      [] call = "route" -> RouteJSON
      [] call = "response" -> ResponseJSON
      [] call = "profile" -> ProfileJSON
      [] call = "outcome" -> OutcomeJSON
Summary ==
    CASE call = "request" -> Copies(Method)
      [] call = "route" -> Copies(Keys(view.params))
      [] call = "response" -> Copies(IF Failed THEN {view.errorCode} ELSE {})
      [] call = "profile" -> ProfileSummary
      [] call = "outcome" -> OutcomeSummary

\* _FXCFControlPacketCopyAcceptedSummary, of the packet itself.
Accepted ==
    LET p == view.packet
        payload == Get(p, "error")
    IN  IF call \in {"request", "route"} THEN Strings(p, {"service", "method"})
        ELSE IF Failed
        THEN Both(Strings(p, {"status"}),
                  Strings(payload, {"code"}))
        ELSE Strings(p, {"status"})

\* Any of the allocations on the way may be refused, and then there is no text.
CopyText(of, readable) ==
    /\ text' \in {[of |-> of, got |-> readable, starved |-> FALSE],
                  [of |-> of, got |-> FALSE, starved |-> TRUE]}
    /\ UNCHANGED vars

CopyJSON == stage = "succeeded" /\ CopyText("json", Readable(JSON))
CopySummary == stage = "succeeded" /\ CopyText("summary", Readable(Summary))
CopyAccepted == stage = "succeeded" /\ CopyText("accepted", Readable(Accepted))
\* _FXCFControlPacketCopyErrorJSON and ...ErrorSummary: the error has its own text.
CopyError == stage = "failed" /\ CopyText("error", error # "none")

TextsInit == Init /\ text = NoText
TextsNext ==
    \/ CopyJSON \/ CopySummary \/ CopyAccepted \/ CopyError
    \/ Next /\ text' = NoText

TextsSpec == TextsInit /\ [][TextsNext]_<<vars, text>>

-----------------------------------------------------------------------------
(* Properties.                                                             *)

\* What an array or a dictionary holds.
Held(v) == Items(v) \cup IF Is(v, "dict") THEN {v.dict[key] : key \in DOMAIN v.dict} ELSE {}
WithParts(S) == S \cup UNION {Held(v) : v \in S}

\* The values of the packet, as deep as a text looks: down to the flags in the
\* capabilities in the diagnostics in the result.
Values == WithParts(WithParts(WithParts(WithParts({root}))))

\* A string or a key among them has no UTF-8.
Unspoken ==
    \E v \in Values :
        \/ Is(v, "string") /\ ~Spoken(v.string)
        \/ Is(v, "dict") /\ \E key \in DOMAIN v.dict : ~Spoken(key)

\* The texts ask for no more than the checks of the call have found, wherever the
\* kinds that were tried before have left other values in the result: what was
\* accepted has all its texts, what was rejected has its error, unless a string
\* of the packet has no UTF-8, or memory runs out.  A result that has its JSON has
\* its summaries.
TextsReadable ==
    /\ ~text.got => text.starved \/ (stage = "succeeded" /\ Unspoken)
    /\ stage = "succeeded" /\ Readable(JSON) => Readable(Summary) /\ Readable(Accepted)
=============================================================================
