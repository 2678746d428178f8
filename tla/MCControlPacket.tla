--------------------------- MODULE MCControlPacket ---------------------------
(***************************************************************************)
(* Packets of every kind, complete, and with a key missing or of another   *)
(* type; and results that mix the keys of the notify kinds in all ways.    *)
(* Values that stand in two places differ.  Any string or key of an        *)
(* acceptable packet may have no UTF-8.                                    *)
(***************************************************************************)
EXTENDS ControlTexts

S(t) == [string |-> t]
I(n) == [integer |-> n]
B(b) == [bool |-> b]
D(f) == [dict |-> f]
A(s) == [array |-> s]
Date == [date |-> 0]
Bad == [data |-> 0]

Example(type) ==
    CASE type = "string" -> S("text") [] type = "integer" -> I(7)
      [] type = "bool" -> B(TRUE) [] type = "date" -> Date
Complete(shape) == [key \in DOMAIN shape |-> Example(shape[key])]

\* f without a key, or with a value of another type under it.
Damaged(f) ==
    {[key \in DOMAIN f \ {k} |-> f[key]] : k \in DOMAIN f}
    \cup {[f EXCEPT ![k] = Bad] : k \in DOMAIN f}

Name == [Complete(NameShape) EXCEPT !.generation = I(2), !.state = I(3)]
Registration ==
    [local_transport_binding_id |-> S("binding"), local_transport_handle |-> S("handle"),
     pending_generation |-> I(6)] @@ Complete(RegistrationShape)
Capabilities == [feature_flags |-> A(<<S("flag")>>)] @@ Complete(CapabilitiesShape)
Health ==
    [reasons |-> A(<<D(Complete(ReasonShape))>>),
     job_persistence |-> D(Complete(OutputStatusShape)),
     notify_persistence |-> D(Complete(OutputStatusShape)),
     notify_fast_path |-> D(Complete(OutputStatusShape))] @@ Complete(HealthShape)
Diagnostics ==
    [daemon |-> D(Complete(DaemonShape)), health |-> D(Health),
     capabilities |-> D(Capabilities), jobs |-> A(<<>>), notify_names |-> A(<<D(Name)>>)]

\* Results with any of the keys of the notify kinds.
Drop(f) == [key \in {k \in DOMAIN f : f[k] # NULL} |-> f[key]]
Mixed ==
    {Drop(f) : f \in
        [registration : {NULL, D(Registration)}, canceled : {NULL, B(FALSE)},
         generation : {NULL, I(4)}, current_state : {I(5)},
         changed : {NULL, B(TRUE)}, name : {NULL, D(Name)},
         delivered_tokens : {NULL, A(<<I(1)>>)}, posted_at : {NULL, Date},
         state : {NULL, I(8)}]}

\* With broken parts.
Notify ==
    [registration |-> D(Registration), canceled |-> B(FALSE), generation |-> I(4),
     current_state |-> I(5), changed |-> B(TRUE), name |-> D(Name),
     delivered_tokens |-> A(<<>>), posted_at |-> Date, state |-> I(8)]
Broken ==
    Damaged(Notify)
    \cup {[Notify EXCEPT !.canceled = Bad, ![k] = Bad] : k \in DOMAIN Notify}
    \cup {[Notify EXCEPT !.registration = D(f)] : f \in Damaged(Registration)}
    \cup {[Notify EXCEPT !.name = D(f), !.registration = D([token |-> I(1)])] :
            f \in Damaged(Name)}
    \cup {[registration |-> D(f)] : f \in Damaged(Registration)}
    \cup Damaged(Registration) \cup {Registration}
    \cup {Capabilities, Health, Diagnostics} \cup Damaged(Capabilities)
    \cup Damaged(Health) \cup Damaged(Diagnostics)
    \cup {[Diagnostics EXCEPT !.daemon = D(f)] : f \in Damaged(Complete(DaemonShape))}
    \cup {[valid |-> B(TRUE)], [valid |-> Bad], [valid |-> B(TRUE), name |-> S("text")]}

\* A value with one of its strings or keys without UTF-8; In changes a part.
Unpair(v, In(_)) ==
    CASE Is(v, "string") -> {S("unpaired")}
      [] Is(v, "array") ->
            UNION {{A([v.array EXCEPT ![i] = u]) : u \in In(v.array[i])} : i \in DOMAIN v.array}
      [] Is(v, "dict") ->
            {D([unpaired |-> B(TRUE)] @@ v.dict)}
            \cup UNION {{D([v.dict EXCEPT ![k] = u]) : u \in In(v.dict[k])} : k \in DOMAIN v.dict}
      [] OTHER -> {}
Strings1(v) == Unpair(v, LAMBDA w : {})
Strings2(v) == Unpair(v, Strings1)
Strings3(v) == Unpair(v, Strings2)
Strings4(v) == Unpair(v, Strings3)
Unpairings(v) == Unpair(v, Strings4)

Results ==
    {D(f) : f \in Mixed \cup Broken}
    \cup UNION {Unpairings(D(f)) : f \in {[registration |-> D(Registration), changed |-> B(TRUE),
                                           generation |-> I(4), current_state |-> I(5)],
                                         [name |-> D(Name), state |-> I(8)], Registration,
                                         Capabilities, Health, Diagnostics}}
    \cup Unpairings(A(<<D(Name)>>))
    \cup {A(<<>>), A(<<D(Name)>>), A(<<D(Name), I(1)>>), S("text")}

OK == [protocol_version |-> I(1), status |-> S("ok"), result |-> S("text")]
Failure ==
    [protocol_version |-> I(1), status |-> S("error"),
     error |-> D([code |-> S("notify_failed"), message |-> S("text")])]
Request ==
    [protocol_version |-> I(1), service |-> S("notify"), method |-> S("post"),
     params |-> D([name |-> S("text"), token |-> I(4), reuse_existing_binding |-> B(TRUE),
                   target_pid |-> I(5)])]

MCPayloads ==
    {NULL, S("text"), D([OK EXCEPT !.status = S("pending")]),
     D([OK EXCEPT !.protocol_version = I(2)]), D(Request)}
    \cup {D([OK EXCEPT !.result = r]) : r \in Results}
    \cup {D(f) : f \in Damaged(OK) \cup Damaged(Failure) \cup Damaged(Request) \cup {Failure}}
    \cup {D([Failure EXCEPT !.error = D(f)]) : f \in Damaged(Failure.error.dict)}
    \cup {D([Request EXCEPT !.params = D(f)]) : f \in Damaged(Request.params.dict)}
    \cup Unpairings(D(Request)) \cup Unpairings(D(Failure))
    \cup {D([Request EXCEPT !.service = S("control")]),
          D([Request EXCEPT !.service = S("none")]),
          D([Request EXCEPT !.service = S("control"), !.method = S("health")])}
=============================================================================
