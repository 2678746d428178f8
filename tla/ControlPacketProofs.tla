------------------------- MODULE ControlPacketProofs -------------------------
(***************************************************************************)
(* What a call leaves in its result, for every packet and however its      *)
(* lookups fail.                                                           *)
(*                                                                         *)
(* The result holds the packet (Owned): no chain of lookups stores into    *)
(* the field packet, so that only the stages that mean to do it change it. *)
(*                                                                         *)
(* A profile agrees with its kind and a failure is told (Agree, Tells):    *)
(* each chain is evaluated once, to what it asks of the packet, where it   *)
(* stores and which flags it sets; with memory, a chain is passed by the   *)
(* packets that fit and by no others; and JInv says what the stages before *)
(* have established.                                                       *)
(*                                                                         *)
(* The texts of a result can be made (TextsGiven): Shown says which values *)
(* of the packet the fields hold, what was checked of them gives them      *)
(* their types, and their place in the packet is among its Values.         *)
(***************************************************************************)
EXTENDS ControlTexts, FiniteSetTheorems, TLAPS

Errors == {"none", "missing_key", "unsupported_version", "invalid_packet"}

\* A lookup, and a chain of lookups, that leaves the packet alone.
KeepsPacket(l) == l.into # "packet" /\ l.error \in Errors
Keeping(chain) == \E S : chain \in Seq(S) /\ \A l \in S : KeepsPacket(l)

\* Nothing is held before the packet is decoded and after a failure; after it
\* the call has one reference, and from the next stage on the result has the
\* packet.
IInv ==
    /\ PacketOwned
    /\ stage = "decode" => refs = 0 /\ has = {} /\ kind = "invalid"
    /\ stage \notin {"idle", "decode", "failed"} => refs = 1
    /\ stage = "read" => view = Empty
    /\ stage \notin {"idle", "decode", "failed", "read"} => view.packet = root

-----------------------------------------------------------------------------
(* Lookups and chains.                                                     *)

\* Each kind of lookup keeps the packet unless its field is the packet.
LEMMA RequireKeeps ==
    ASSUME NEW v, NEW type, NEW f, f # "packet"
    PROVE  KeepsPacket(Require(v, type, f)) /\ KeepsPacket(RequireValue(v, f))
BY DEF Require, RequireValue, KeepsPacket, Lookup, Errors

LEMMA OptionalKeeps ==
    ASSUME NEW v, NEW type, NEW f, f # "packet"
    PROVE  KeepsPacket(Optional(v, type, f))
BY DEF Optional, KeepsPacket, Lookup, Errors

LEMMA TestKeeps ==
    ASSUME NEW b
    PROVE  /\ KeepsPacket(Valid(b))
           /\ \A e \in Errors : KeepsPacket(Test(b, e))
BY DEF Valid, Test, KeepsPacket, Lookup, Errors

\* A sequence of such lookups is such a chain, and so are two, one after the other.
LEMMA KeepingOf ==
    ASSUME NEW S, NEW chain \in Seq(S), \A l \in S : KeepsPacket(l)
    PROVE  Keeping(chain)
BY DEF Keeping

LEMMA EmptyKeeps == Keeping(<<>>)
<1>. DEFINE S == {}
<1>1. <<>> \in Seq(S)
  OBVIOUS
<1>2. \A l \in S : KeepsPacket(l)
  OBVIOUS
<1>. HIDE DEF S
<1>. QED BY <1>1, <1>2, KeepingOf

LEMMA Keeps1 ==
    ASSUME NEW a,
           KeepsPacket(a)
    PROVE  Keeping(<<a>>)
<1>. DEFINE S == {a}
<1>1. <<a>> \in Seq(S)
  OBVIOUS
<1>2. \A l \in S : KeepsPacket(l)
  OBVIOUS
<1>. HIDE DEF S
<1>. QED BY <1>1, <1>2, KeepingOf

LEMMA Keeps2 ==
    ASSUME NEW a, NEW b,
           KeepsPacket(a) /\ KeepsPacket(b)
    PROVE  Keeping(<<a, b>>)
<1>. DEFINE S == {a, b}
<1>1. <<a, b>> \in Seq(S)
  OBVIOUS
<1>2. \A l \in S : KeepsPacket(l)
  OBVIOUS
<1>. HIDE DEF S
<1>. QED BY <1>1, <1>2, KeepingOf

LEMMA Keeps3 ==
    ASSUME NEW a, NEW b, NEW c,
           KeepsPacket(a) /\ KeepsPacket(b) /\ KeepsPacket(c)
    PROVE  Keeping(<<a, b, c>>)
<1>. DEFINE S == {a, b, c}
<1>1. <<a, b, c>> \in Seq(S)
  OBVIOUS
<1>2. \A l \in S : KeepsPacket(l)
  OBVIOUS
<1>. HIDE DEF S
<1>. QED BY <1>1, <1>2, KeepingOf

LEMMA Keeps5 ==
    ASSUME NEW a, NEW b, NEW c, NEW d, NEW e,
           KeepsPacket(a) /\ KeepsPacket(b) /\ KeepsPacket(c) /\ KeepsPacket(d) /\ KeepsPacket(e)
    PROVE  Keeping(<<a, b, c, d, e>>)
<1>. DEFINE S == {a, b, c, d, e}
<1>1. <<a, b, c, d, e>> \in Seq(S)
  OBVIOUS
<1>2. \A l \in S : KeepsPacket(l)
  OBVIOUS
<1>. HIDE DEF S
<1>. QED BY <1>1, <1>2, KeepingOf

LEMMA Keeps6 ==
    ASSUME NEW a, NEW b, NEW c, NEW d, NEW e, NEW f,
           KeepsPacket(a) /\ KeepsPacket(b) /\ KeepsPacket(c) /\ KeepsPacket(d) /\ KeepsPacket(e) /\
           KeepsPacket(f)
    PROVE  Keeping(<<a, b, c, d, e, f>>)
<1>. DEFINE S == {a, b, c, d, e, f}
<1>1. <<a, b, c, d, e, f>> \in Seq(S)
  OBVIOUS
<1>2. \A l \in S : KeepsPacket(l)
  OBVIOUS
<1>. HIDE DEF S
<1>. QED BY <1>1, <1>2, KeepingOf

LEMMA Keeps8 ==
    ASSUME NEW a, NEW b, NEW c, NEW d, NEW e, NEW f, NEW g, NEW h,
           KeepsPacket(a) /\ KeepsPacket(b) /\ KeepsPacket(c) /\ KeepsPacket(d) /\ KeepsPacket(e) /\
           KeepsPacket(f) /\ KeepsPacket(g) /\ KeepsPacket(h)
    PROVE  Keeping(<<a, b, c, d, e, f, g, h>>)
<1>. DEFINE S == {a, b, c, d, e, f, g, h}
<1>1. <<a, b, c, d, e, f, g, h>> \in Seq(S)
  OBVIOUS
<1>2. \A l \in S : KeepsPacket(l)
  OBVIOUS
<1>. HIDE DEF S
<1>. QED BY <1>1, <1>2, KeepingOf

LEMMA Keeps10 ==
    ASSUME NEW a, NEW b, NEW c, NEW d, NEW e, NEW f, NEW g, NEW h, NEW i, NEW j,
           KeepsPacket(a) /\ KeepsPacket(b) /\ KeepsPacket(c) /\ KeepsPacket(d) /\ KeepsPacket(e) /\
           KeepsPacket(f) /\ KeepsPacket(g) /\ KeepsPacket(h) /\ KeepsPacket(i) /\ KeepsPacket(j)
    PROVE  Keeping(<<a, b, c, d, e, f, g, h, i, j>>)
<1>. DEFINE S == {a, b, c, d, e, f, g, h, i, j}
<1>1. <<a, b, c, d, e, f, g, h, i, j>> \in Seq(S)
  OBVIOUS
<1>2. \A l \in S : KeepsPacket(l)
  OBVIOUS
<1>. HIDE DEF S
<1>. QED BY <1>1, <1>2, KeepingOf

LEMMA ConcatKeeps ==
    ASSUME NEW a, NEW b, Keeping(a), Keeping(b)
    PROVE  Keeping(a \o b)
<1>1. PICK S : a \in Seq(S) /\ \A l \in S : KeepsPacket(l)
  BY DEF Keeping
<1>2. PICK T : b \in Seq(T) /\ \A l \in T : KeepsPacket(l)
  BY DEF Keeping
<1>3. a \in Seq(S \cup T) /\ b \in Seq(S \cup T)
  BY <1>1, <1>2
<1>4. a \o b \in Seq(S \cup T)
  BY <1>3
<1>. QED BY <1>1, <1>2, <1>4 DEF Keeping

\* What such a chain stores has all fields and the packet of the view, the error
\* it stops with is one of the errors, and its flags are flags.
LEMMA StoredKeeps ==
    ASSUME NEW chain, Keeping(chain), NEW cut
    PROVE  DOMAIN Stored(chain, cut) = Fields /\ Stored(chain, cut).packet = view.packet
<1>1. PICK S : chain \in Seq(S) /\ \A l \in S : KeepsPacket(l)
  BY DEF Keeping
<1>2. \A i \in DOMAIN chain : chain[i].into # "packet"
  BY <1>1 DEF KeepsPacket
<1>3. "packet" \in Fields
  BY DEF Fields
<1>4. \A i \in Succeeded(chain, cut) : i \in DOMAIN chain
  BY DEF Succeeded
<1>. QED BY <1>2, <1>3, <1>4, Zenon DEF Stored

LEMMA ErrorTyped ==
    ASSUME NEW chain, Keeping(chain), NEW cut, ~Whole(chain, cut)
    PROVE  ErrorOf(chain, cut) \in Errors
<1>. DEFINE done == Succeeded(chain, cut)
<1>1. PICK S : chain \in Seq(S) /\ \A l \in S : KeepsPacket(l)
  BY DEF Keeping
<1>2. DOMAIN chain = 1..Len(chain) /\ Len(chain) \in Nat
  BY <1>1
<1>3. done \subseteq 1..Len(chain) /\ done # 1..Len(chain)
  BY <1>2 DEF Succeeded, Whole
<1>4. IsFiniteSet(1..Len(chain)) /\ Cardinality(1..Len(chain)) = Len(chain)
  <2>1. 1 \in Int /\ Len(chain) \in Int
    BY <1>2
  <2>2. /\ IsFiniteSet(1..Len(chain))
        /\ Cardinality(1..Len(chain)) = IF 1 > Len(chain) THEN 0 ELSE Len(chain) - 1 + 1
    BY <2>1, FS_Interval, Zenon
  <2>. QED BY <1>2, <2>2
<1>5. Cardinality(done) \in Nat /\ Cardinality(done) < Len(chain)
  <2>1. IsFiniteSet(done) /\ Cardinality(done) <= Len(chain) /\ Cardinality(done) # Len(chain)
    BY <1>3, <1>4, FS_Subset
  <2>2. Cardinality(done) \in Nat
    BY <2>1, FS_CardinalityType
  <2>. QED BY <1>2, <2>1, <2>2
<1>6. Stop(chain, cut) \in DOMAIN chain
  BY <1>2, <1>5 DEF Stop
<1>7. chain[Stop(chain, cut)].error \in Errors
  BY <1>1, <1>6 DEF KeepsPacket
<1>. QED BY <1>7 DEF ErrorOf, Errors

LEMMA FlagsTyped ==
    ASSUME NEW chain, NEW cut, has \subseteq Flagged
    PROVE  FlagsAfter(chain, cut) \subseteq Flagged
BY DEF FlagsAfter

-----------------------------------------------------------------------------
(* The chains of the code.                                                 *)

LEMMA EnvelopeKeeps == Keeping(Envelope)
<1>1. ASSUME NEW p PROVE Keeping(Version(p))
  <2>1. KeepsPacket(Version(p)[1]) /\ KeepsPacket(Version(p)[2])
    BY RequireKeeps, TestKeeps DEF Version, Errors
  <2>. QED BY <2>1, Keeps2 DEF Version
<1>2. ASSUME NEW p PROVE Keeping(RequestChain(p))
  <2>. DEFINE rest == <<Require(Get(p, "service"), "string", "service"),
                        Require(Get(p, "method"), "string", "method"),
                        Require(Get(p, "params"), "dict", "params")>>
  <2>1. KeepsPacket(rest[1]) /\ KeepsPacket(rest[2]) /\ KeepsPacket(rest[3])
    BY RequireKeeps
  <2>2. Keeping(rest)
    BY <2>1, Keeps1, Keeps2, Keeps3
  <2>. QED BY <1>1, <2>2, ConcatKeeps DEF RequestChain
<1>3. ASSUME NEW p PROVE Keeping(ResponseChain(p))
  <2>. DEFINE first == <<Require(Get(p, "status"), "string", "status"), Valid(TRUE)>>
              ok == <<RequireValue(Get(p, "result"), "result")>>
              failed == <<Require(Get(p, "error"), "dict", "errorPayload"),
                          Require(Get(Get(p, "error"), "code"), "string", "errorCode"),
                          Require(Get(Get(p, "error"), "message"), "string", "errorMessage")>>
              other == <<Test(FALSE, "invalid_packet")>>
  <2>1. Keeping(first)
    <3>1. KeepsPacket(first[1]) /\ KeepsPacket(first[2])
      BY RequireKeeps, TestKeeps
    <3>. QED BY <3>1, Keeps1, Keeps2, Keeps3
  <2>2. Keeping(ok)
    <3>1. KeepsPacket(ok[1])
      BY RequireKeeps
    <3>. QED BY <3>1, Keeps1, Keeps2, Keeps3
  <2>3. Keeping(failed)
    <3>1. KeepsPacket(failed[1]) /\ KeepsPacket(failed[2]) /\ KeepsPacket(failed[3])
      BY RequireKeeps
    <3>. QED BY <3>1, Keeps1, Keeps2, Keeps3
  <2>4. Keeping(other)
    <3>1. KeepsPacket(other[1])
      BY TestKeeps DEF Errors
    <3>. QED BY <3>1, Keeps1, Keeps2, Keeps3
  <2>5. Keeping(Version(p) \o first)
    BY <1>1, <2>1, ConcatKeeps
  <2>6. \/ ResponseChain(p) = (Version(p) \o first) \o ok
        \/ ResponseChain(p) = (Version(p) \o first) \o failed
        \/ ResponseChain(p) = (Version(p) \o first) \o other
    BY DEF ResponseChain
  <2>. QED BY <2>2, <2>3, <2>4, <2>5, <2>6, ConcatKeeps
<1>. QED BY <1>2, <1>3 DEF Envelope

\* The parameters of a route.
LEMMA ParamsKeep == ASSUME NEW p PROVE Keeping(Params(p))
BY OptionalKeeps, Keeps10 DEF Params

\* A kind that is tried, and the lookups after it.
LEMMA ProbeKeeps == ASSUME NEW r, NEW k \in ProbeKinds PROVE Keeping(Probe(k, r))
<1>1. Keeping(CancelProbe(r))
  BY OptionalKeeps, TestKeeps, Keeps5 DEF CancelProbe, Errors
<1>2. Keeping(CheckProbe(r))
  BY RequireKeeps, OptionalKeeps, TestKeeps, Keeps6 DEF CheckProbe, Errors
<1>3. Keeping(PostProbe(r))
  BY RequireKeeps, OptionalKeeps, TestKeeps, Keeps6 DEF PostProbe, Errors
<1>4. Keeping(NameStateProbe(r))
  BY RequireKeeps, TestKeeps, Keeps3 DEF NameStateProbe
<1>5. Keeping(WrapperProbe(r))
  BY RequireKeeps, TestKeeps, Keeps2 DEF WrapperProbe
<1>6. Keeping(<<Valid(ValidRegistration(r))>>)
  BY TestKeeps, Keeps1
<1>7. Keeping(ValidityProbe(r))
  BY OptionalKeeps, TestKeeps, Keeps3 DEF ValidityProbe, Errors
<1>8. Keeping(CapabilitiesProbe(r))
  BY RequireKeeps, TestKeeps, Keeps2 DEF CapabilitiesProbe
<1>9. Keeping(HealthProbe(r))
  BY RequireKeeps, TestKeeps, Keeps3 DEF HealthProbe
<1>10. Keeping(DiagnosticsProbe(r))
  BY RequireKeeps, TestKeeps, Keeps5 DEF DiagnosticsProbe
<1>11. Keeping(<<>>)
  BY EmptyKeeps
<1>12. k \in {"NotifyCancel", "NotifyCheck", "NotifyPost", "NotifyNameState",
              "NotifyRegistrationWrapper", "NotifyRegistration", "NotifyValidity",
              "ControlCapabilities", "ControlHealth", "DiagnosticsSnapshot",
              "GenericObject"}
  BY DEF ProbeKinds, ProbeOrder
<1>. QED
  BY <1>1, <1>2, <1>3, <1>4, <1>5, <1>6, <1>7, <1>8, <1>9, <1>10, <1>11, <1>12 DEF Probe

LEMMA FollowUpKeeps == ASSUME NEW r, NEW k PROVE Keeping(FollowUp(k, r))
<1>1. Keeping(<<Require(Get(Get(r, "name"), "state"), "integer", "state")>>)
  BY RequireKeeps, Keeps1
<1>2. Keeping(<<Require(Get(Get(r, "name"), "generation"), "integer", "generation")>>)
  BY RequireKeeps, Keeps1
<1>. QED BY <1>1, <1>2, EmptyKeeps DEF FollowUp

\* The lookups of an outcome.
LEMMA OutcomeKeeps == Keeping(OutcomeChain)
<1>1. ASSUME NEW v PROVE Keeping(NameChain(v))
  BY RequireKeeps, Keeps2 DEF NameChain
<1>2. ASSUME NEW v PROVE Keeping(RegistrationViewChain(v))
  BY RequireKeeps, OptionalKeeps, Keeps8 DEF RegistrationViewChain
<1>. QED BY <1>1, <1>2, EmptyKeeps DEF OutcomeChain

\* What is assigned without a lookup.
LEMMA AssignedKeeps ==
    ASSUME NEW r, NEW k
    PROVE  /\ DOMAIN Assigned(k, r) \subseteq Fields \ {"packet"}
           /\ AssignedFlags(k, r) \subseteq Flagged
<1>1. ASSUME NEW v PROVE DOMAIN OfRegistration(v) = {"token", "valid"}
  BY DEF OfRegistration
<1>2. {"token", "valid", "registration", "pendingGeneration", "capabilities", "health"}
        \subseteq Fields \ {"packet"}
  BY DEF Fields, Flagged
<1>3. DOMAIN Assigned(k, r)
        \subseteq {"token", "valid", "registration", "pendingGeneration", "capabilities",
                    "health"}
  BY <1>1 DEF Assigned
<1>4. {"generation", "state"} \subseteq Flagged
  BY DEF Flagged
<1>5. AssignedFlags(k, r) \subseteq Flagged
  BY <1>4, Zenon DEF AssignedFlags
<1>. QED BY <1>2, <1>3, <1>5

-----------------------------------------------------------------------------
(* The stages.                                                             *)

\* The kind after one that was tried in vain.
LEMMA NextKind ==
    ASSUME NEW k \in ProbeKinds, k # "GenericObject"
    PROVE  ProbeOrder[Place(k) + 1] \in ProbeKinds
<1>1. DOMAIN ProbeOrder = 1..11 /\ ProbeOrder[11] = "GenericObject"
  BY DEF ProbeOrder
<1>2. \E i \in DOMAIN ProbeOrder : ProbeOrder[i] = k
  BY DEF ProbeKinds
<1>3. Place(k) \in DOMAIN ProbeOrder /\ ProbeOrder[Place(k)] = k
  BY <1>2 DEF Place
<1>4. Place(k) # 11
  BY <1>1, <1>3
<1>5. Place(k) + 1 \in DOMAIN ProbeOrder
  BY <1>1, <1>3, <1>4
<1>. QED BY <1>5 DEF ProbeKinds

\* The last kind fits everything.
LEMMA LastKind ==
    ASSUME NEW r, NEW cut \in Cuts(Probe("GenericObject", r))
    PROVE  Whole(Probe("GenericObject", r), cut)
BY DEF Probe, Whole, Succeeded

\* A call that fails has given everything back.
LEMMA FailKeeps ==
    ASSUME IInv, NEW e \in Errors, Fail(e), refused' \in BOOLEAN, UNCHANGED <<call, root>>
    PROVE  IInv'
<1>1. DOMAIN Empty = Fields
  BY DEF Empty
<1>. QED
  BY <1>1 DEF IInv, PacketOwned, TypeOK, Fail, Clear, Errors, ProbeKinds, ProbeOrder

LEMMA InitOK == Init => IInv
<1>1. DOMAIN Empty = Fields
  BY DEF Empty
<1>. QED BY <1>1 DEF Init, IInv, PacketOwned, TypeOK, ProbeKinds, ProbeOrder

LEMMA CallOK == IInv /\ Call => IInv'
BY DEF IInv, PacketOwned, TypeOK, Call, ProbeKinds, ProbeOrder

LEMMA DecodeOK == IInv /\ DecodeEnvelope => IInv'
<1>. SUFFICES ASSUME IInv, DecodeEnvelope PROVE IInv'
  OBVIOUS
<1>1. CASE ~Is(root, "dict")
  BY <1>1, FailKeeps DEF DecodeEnvelope, IInv, PacketOwned, TypeOK, Errors
<1>2. CASE Is(root, "dict")
  <2>1. PICK cut \in Cuts(Envelope) :
          /\ refused' = Refuses(Envelope, cut)
          /\ IF Whole(Envelope, cut)
             THEN /\ stage' = "read" /\ refs' = 1 /\ error' = "none"
                  /\ UNCHANGED <<view, has, kind, outcome>>
             ELSE Fail(ErrorOf(Envelope, cut))
    BY <1>2 DEF DecodeEnvelope
  <2>2. refused' \in BOOLEAN
    BY <2>1 DEF Refuses
  <2>3. CASE Whole(Envelope, cut)
    BY <2>1, <2>2, <2>3 DEF DecodeEnvelope, IInv, PacketOwned, TypeOK, ProbeKinds, ProbeOrder
  <2>4. CASE ~Whole(Envelope, cut)
    BY <2>1, <2>2, <2>4, EnvelopeKeeps, ErrorTyped, FailKeeps DEF DecodeEnvelope
  <2>. QED BY <2>3, <2>4
<1>. QED BY <1>1, <1>2

LEMMA ReadOK == IInv /\ ReadEnvelope => IInv'
<1>. SUFFICES ASSUME IInv, ReadEnvelope PROVE IInv'
  OBVIOUS
<1>1. PICK cut \in Cuts(Envelope) :
        /\ refused' = Refuses(Envelope, cut)
        /\ IF Whole(Envelope, cut)
           THEN /\ stage' = CASE call \in {"request", "response"} -> "succeeded"
                              [] call = "route" -> "route"
                              [] OTHER -> "profile"
                /\ view' = [Stored(Envelope, cut) EXCEPT !.packet = root]
                /\ UNCHANGED <<refs, has, kind, outcome, error>>
           ELSE Fail(ErrorOf(Envelope, cut))
  BY DEF ReadEnvelope
<1>2. refused' \in BOOLEAN
  BY <1>1 DEF Refuses
<1>3. CASE Whole(Envelope, cut)
  <2>1. stage' \in {"succeeded", "route", "profile"}
    BY <1>1, <1>3
  <2>2. DOMAIN view' = Fields /\ view'.packet = root
    <3>1. DOMAIN Stored(Envelope, cut) = Fields /\ "packet" \in Fields
      BY EnvelopeKeeps, StoredKeeps DEF Fields
    <3>. QED BY <1>1, <1>3, <3>1
  <2>. QED BY <1>1, <1>2, <1>3, <2>1, <2>2 DEF ReadEnvelope, IInv, PacketOwned, TypeOK
<1>4. CASE ~Whole(Envelope, cut)
  BY <1>1, <1>2, <1>4, EnvelopeKeeps, ErrorTyped, FailKeeps DEF ReadEnvelope
<1>. QED BY <1>3, <1>4

LEMMA RouteOK == IInv /\ Route => IInv'
<1>. SUFFICES ASSUME IInv, Route PROVE IInv'
  OBVIOUS
<1>. DEFINE params == Params(view.params)
            found == RouteKind(view.service.string, view.method.string)
<1>1. PICK cut \in Cuts(params), texts \in BOOLEAN :
        /\ refused' = (~texts \/ Refuses(params, cut))
        /\ IF ~texts \/ found = "invalid" THEN Fail("invalid_packet")
           ELSE IF ~Whole(params, cut) THEN Fail(ErrorOf(params, cut))
           ELSE /\ stage' = "succeeded" /\ kind' = found
                /\ view' = Stored(params, cut) /\ has' = FlagsAfter(params, cut)
                /\ UNCHANGED <<refs, outcome, error>>
  BY DEF Route
<1>2. Keeping(params)
  BY ParamsKeep
<1>. HIDE DEF params, found
<1>3. refused' \in BOOLEAN /\ stage = "route" /\ UNCHANGED <<call, root>>
  BY <1>1 DEF Route, Refuses
<1>4. CASE ~texts \/ found = "invalid"
  BY <1>1, <1>3, <1>4, FailKeeps DEF Errors
<1>5. CASE ~(~texts \/ found = "invalid") /\ ~Whole(params, cut)
  BY <1>1, <1>2, <1>3, <1>5, ErrorTyped, FailKeeps
<1>6. CASE ~(~texts \/ found = "invalid") /\ Whole(params, cut)
  <2>1. DOMAIN view' = Fields /\ view'.packet = root
    BY <1>1, <1>2, <1>3, <1>6, StoredKeeps DEF IInv
  <2>2. has' \subseteq Flagged
    BY <1>1, <1>6, FlagsTyped DEF IInv, PacketOwned, TypeOK
  <2>. QED BY <1>1, <1>3, <1>6, <2>1, <2>2 DEF IInv, PacketOwned, TypeOK
<1>. QED BY <1>4, <1>5, <1>6

LEMMA ProfileOK == IInv /\ Profile => IInv'
<1>. SUFFICES ASSUME IInv, Profile PROVE IInv'
  OBVIOUS
<1>1. /\ stage = "profile" /\ UNCHANGED <<call, root>>
      /\ refs = 1 /\ view.packet = root /\ DOMAIN view = Fields
  BY DEF Profile, IInv, PacketOwned, TypeOK
<1>2. Profiled \in {"outcome", "succeeded"}
  BY DEF Profiled
<1>3. CASE /\ kind' = "Error" /\ stage' = Profiled
           /\ UNCHANGED <<refs, view, has, outcome, error, refused>>
  BY <1>1, <1>2, <1>3 DEF IInv, PacketOwned, TypeOK
<1>4. ASSUME NEW memory \in BOOLEAN,
             IF memory /\ ValidNames(view.result) /\ SpokenNames(view.result)
             THEN /\ kind' = "NotifyNameList" /\ stage' = Profiled
                  /\ view' = [view EXCEPT !.resultArray = view.result,
                                          !.notifyNames = view.result]
                  /\ UNCHANGED <<refs, has, outcome, error, refused>>
             ELSE Fail("invalid_packet") /\ refused' = ~memory
      PROVE  IInv'
  <2>1. CASE Fail("invalid_packet") /\ refused' = ~memory
    BY <1>1, <2>1, FailKeeps DEF Errors
  <2>2. CASE /\ kind' = "NotifyNameList" /\ stage' = Profiled
             /\ view' = [view EXCEPT !.resultArray = view.result,
                                     !.notifyNames = view.result]
             /\ UNCHANGED <<refs, has, outcome, error, refused>>
    <3>1. DOMAIN view' = Fields /\ view'.packet = root
      BY <1>1, <2>2 DEF Fields
    <3>. QED BY <1>1, <1>2, <2>2, <3>1 DEF IInv, PacketOwned, TypeOK
  <2>. QED BY <1>4, <2>1, <2>2
<1>5. CASE /\ stage' = ProbeOrder[1]
           /\ view' = [view EXCEPT !.resultObject = view.result]
           /\ UNCHANGED <<refs, has, kind, outcome, error, refused>>
  <2>1. DOMAIN view' = Fields /\ view'.packet = root
    BY <1>1, <1>5 DEF Fields
  <2>2. stage' = "NotifyCancel" /\ stage' \in ProbeKinds
    BY <1>5 DEF ProbeKinds, ProbeOrder
  <2>. QED BY <1>1, <1>5, <2>1, <2>2 DEF IInv, PacketOwned, TypeOK
<1>6. CASE Fail("invalid_packet") /\ UNCHANGED refused
  BY <1>1, <1>6, FailKeeps DEF IInv, PacketOwned, TypeOK, Errors
<1>. QED BY <1>3, <1>4, <1>5, <1>6, Zenon DEF Profile

LEMMA TryOK == IInv /\ Try => IInv'
<1>. SUFFICES ASSUME IInv, Try PROVE IInv'
  OBVIOUS
<1>. DEFINE r == view.resultObject
            probe == Probe(stage, r)
            next == FollowUp(stage, r)
            assigned == Assigned(stage, r)
<1>1. /\ stage \in ProbeKinds /\ UNCHANGED <<call, root>>
      /\ refs = 1 /\ view.packet = root /\ DOMAIN view = Fields
      /\ has \subseteq Flagged /\ refused \in BOOLEAN
  BY DEF Try, IInv, PacketOwned, TypeOK, ProbeKinds, ProbeOrder
<1>2. Keeping(probe) /\ Keeping(next) /\ Keeping(probe \o next)
  BY <1>1, ProbeKeeps, FollowUpKeeps, ConcatKeeps
<1>3. /\ DOMAIN assigned \subseteq Fields \ {"packet"}
      /\ AssignedFlags(stage, r) \subseteq Flagged
  BY AssignedKeeps
<1>4. PICK cut \in Cuts(probe) :
        \/ /\ ~Whole(probe, cut)
           /\ stage' = ProbeOrder[Place(stage) + 1]
           /\ view' = Stored(probe, cut) /\ has' = FlagsAfter(probe, cut)
           /\ refused' = (refused \/ Refuses(probe, cut))
           /\ UNCHANGED <<refs, kind, outcome, error>>
        \/ /\ Whole(probe, cut)
           /\ \E after \in Cuts(next) :
               /\ refused' = (refused \/ Refuses(next, after))
               /\ IF ~Whole(next, after) THEN Fail("invalid_packet")
                  ELSE /\ stage' = Profiled /\ kind' = stage
                       /\ view' = [f \in Fields |->
                                      IF f \in DOMAIN assigned THEN assigned[f]
                                      ELSE Stored(probe \o next, cut)[f]]
                       /\ has' = FlagsAfter(probe, cut) \cup AssignedFlags(stage, r)
                       /\ UNCHANGED <<refs, outcome, error>>
  BY DEF Try
<1>5. stage = "GenericObject" => Whole(probe, cut)
  BY <1>4, LastKind
<1>. HIDE DEF r, probe, next, assigned
<1>6. FlagsAfter(probe, cut) \subseteq Flagged
  BY <1>1, FlagsTyped
<1>7. refused' \in BOOLEAN
  BY <1>1, <1>4 DEF Refuses
<1>8. CASE /\ ~Whole(probe, cut)
           /\ stage' = ProbeOrder[Place(stage) + 1]
           /\ view' = Stored(probe, cut) /\ has' = FlagsAfter(probe, cut)
           /\ UNCHANGED <<refs, kind, outcome, error>>
  <2>1. stage' \in ProbeKinds
    BY <1>1, <1>5, <1>8, NextKind
  <2>2. DOMAIN view' = Fields /\ view'.packet = root
    BY <1>1, <1>2, <1>8, StoredKeeps
  <2>3. stage' \notin {"idle", "decode", "failed", "read", "succeeded"}
    BY <2>1 DEF ProbeKinds, ProbeOrder
  <2>. QED BY <1>1, <1>6, <1>7, <1>8, <2>1, <2>2, <2>3 DEF IInv, PacketOwned, TypeOK
<1>9. CASE /\ Whole(probe, cut)
           /\ stage' = Profiled /\ kind' = stage
           /\ view' = [f \in Fields |-> IF f \in DOMAIN assigned THEN assigned[f]
                                        ELSE Stored(probe \o next, cut)[f]]
           /\ has' = FlagsAfter(probe, cut) \cup AssignedFlags(stage, r)
           /\ UNCHANGED <<refs, outcome, error>>
  <2>1. Stored(probe \o next, cut).packet = view.packet
    BY <1>2, StoredKeeps
  <2>2. "packet" \in Fields /\ "packet" \notin DOMAIN assigned
    BY <1>3 DEF Fields
  <2>3. DOMAIN view' = Fields /\ view'.packet = root
    BY <1>1, <1>9, <2>1, <2>2
  <2>4. Profiled \in {"outcome", "succeeded"}
    BY DEF Profiled
  <2>. QED BY <1>1, <1>3, <1>6, <1>7, <1>9, <2>3, <2>4 DEF IInv, PacketOwned, TypeOK
<1>10. CASE Fail("invalid_packet")
  BY <1>1, <1>7, <1>10, FailKeeps DEF Errors
<1>. QED BY <1>4, <1>8, <1>9, <1>10

LEMMA OutcomeOK == IInv /\ Outcome => IInv'
<1>. SUFFICES ASSUME IInv, Outcome PROVE IInv'
  OBVIOUS
<1>1. /\ stage = "outcome" /\ UNCHANGED <<call, root>>
      /\ refs = 1 /\ view.packet = root /\ refused \in BOOLEAN
  BY DEF Outcome, IInv, PacketOwned, TypeOK
<1>2. PICK cut \in Cuts(OutcomeChain) :
        /\ refused' = (refused \/ Refuses(OutcomeChain, cut))
        /\ IF kind \notin DOMAIN OutcomeKind THEN Fail("invalid_packet")
           ELSE IF ~Whole(OutcomeChain, cut)
           THEN Fail(IF kind \in {"NotifyPost", "NotifyNameState"} THEN "invalid_packet"
                     ELSE ErrorOf(OutcomeChain, cut))
           ELSE /\ stage' = "succeeded" /\ outcome' = OutcomeKind[kind]
                /\ view' = Stored(OutcomeChain, cut)
                /\ UNCHANGED <<refs, has, kind, error>>
  BY DEF Outcome
<1>3. refused' \in BOOLEAN
  BY <1>1, <1>2 DEF Refuses
<1>4. CASE Fail("invalid_packet")
  BY <1>1, <1>3, <1>4, FailKeeps DEF Errors
<1>5. CASE ~Whole(OutcomeChain, cut) /\ Fail(ErrorOf(OutcomeChain, cut))
  BY <1>1, <1>3, <1>5, OutcomeKeeps, ErrorTyped, FailKeeps
<1>6. CASE /\ stage' = "succeeded" /\ outcome' = OutcomeKind[kind]
           /\ view' = Stored(OutcomeChain, cut)
           /\ UNCHANGED <<refs, has, kind, error>>
  <2>1. DOMAIN view' = Fields /\ view'.packet = root
    BY <1>1, <1>6, OutcomeKeeps, StoredKeeps
  <2>. QED BY <1>1, <1>3, <1>6, <2>1 DEF IInv, PacketOwned, TypeOK
<1>. QED BY <1>2, <1>4, <1>5, <1>6, Zenon

LEMMA DoneOK == IInv /\ Done => IInv'
<1>1. DOMAIN Empty = Fields
  BY DEF Empty
<1>. QED BY <1>1 DEF IInv, PacketOwned, TypeOK, Done, Clear, ProbeKinds, ProbeOrder

\* Every behaviour: the result holds the packet exactly from the stage that reads
\* the envelope until it is cleared, whatever the packet and whichever lookup is
\* refused; a call that fails leaves nothing (FXCFControlPacket.c, the Init and
\* Clear functions).
THEOREM Owned == Spec => []PacketOwned
<1>1. Init => IInv
  BY InitOK
<1>2. IInv /\ [Next]_vars => IInv'
  <2>1. IInv /\ UNCHANGED vars => IInv'
    BY DEF IInv, PacketOwned, TypeOK, vars
  <2>. QED
    BY <2>1, CallOK, DecodeOK, ReadOK, RouteOK, ProfileOK, TryOK, OutcomeOK, DoneOK DEF Next
<1>3. IInv => PacketOwned
  BY DEF IInv
<1>. QED BY <1>1, <1>2, <1>3, PTL DEF Spec

-----------------------------------------------------------------------------
(* Chains: what they ask, store and flag.                                  *)

Chain(c) == \E S : c \in Seq(S)
AllOk(c) == \A i \in DOMAIN c : c[i].ok

Into(c) == {c[i].into : i \in DOMAIN c}

\* No two lookups of a chain store into the same field, and one that does not
\* reset a flagged field needs a value.
Tidy(c) ==
    /\ Chain(c)
    /\ \A i \in DOMAIN c : \A j \in DOMAIN c :
        c[i].into \in Fields /\ c[j].into = c[i].into => j = i
    /\ \A i \in DOMAIN c :
        c[i].into \in Flagged /\ c[i].ok /\ ~c[i].resets => c[i].value # NULL

\* What a lookup of each kind asks for, stores and reports.
LEMMA RequireIs ==
    ASSUME NEW v, NEW type, NEW f
    PROVE  /\ Require(v, type, f).ok <=> Is(v, type)
           /\ Require(v, type, f).into = f /\ Require(v, type, f).value = v
           /\ ~Require(v, type, f).resets /\ Require(v, type, f).error = "missing_key"
BY DEF Require, Lookup

LEMMA RequireValueIs ==
    ASSUME NEW v, NEW f
    PROVE  /\ RequireValue(v, f).ok <=> v # NULL
           /\ RequireValue(v, f).into = f /\ RequireValue(v, f).value = v
           /\ ~RequireValue(v, f).resets /\ RequireValue(v, f).error = "missing_key"
BY DEF RequireValue, Lookup

LEMMA OptionalIs ==
    ASSUME NEW v, NEW type, NEW f
    PROVE  /\ Optional(v, type, f).ok <=> v = NULL \/ Is(v, type)
           /\ Optional(v, type, f).into = f /\ Optional(v, type, f).value = v
           /\ Optional(v, type, f).resets /\ Optional(v, type, f).error = "invalid_packet"
BY DEF Optional, Lookup

LEMMA ValidIs ==
    ASSUME NEW b
    PROVE  /\ Valid(b).ok <=> b
           /\ Valid(b).into = "nothing"
           /\ ~Valid(b).resets /\ Valid(b).error = "invalid_packet"
BY DEF Valid, Lookup

LEMMA TestIs ==
    ASSUME NEW b, NEW e
    PROVE  /\ Test(b, e).ok <=> b
           /\ Test(b, e).into = "nothing"
           /\ ~Test(b, e).resets /\ Test(b, e).error = e
BY DEF Test, Lookup

\* A chain is passed when all its lookups succeed and have memory; one that is
\* not, without being refused memory, has a lookup that fails.
LEMMA WholeIff ==
    ASSUME NEW c, Chain(c), NEW cut \in Cuts(c)
    PROVE  Whole(c, cut) <=> cut = 0 /\ AllOk(c)
<1>1. PICK n \in Nat : DOMAIN c = 1..n
  <2>1. PICK S : c \in Seq(S)
    BY DEF Chain
  <2>. QED BY <2>1
<1>2. ASSUME Whole(c, cut) PROVE cut = 0 /\ AllOk(c)
  <2>1. ASSUME NEW i \in DOMAIN c PROVE c[i].ok /\ i # cut
    <3>1. i \in Succeeded(c, cut)
      BY <1>2 DEF Whole
    <3>2. i \in 1..i
      BY <1>1
    <3>. QED BY <3>1, <3>2 DEF Succeeded
  <2>. QED BY <2>1 DEF Cuts, AllOk
<1>3. ASSUME cut = 0, AllOk(c) PROVE Whole(c, cut)
  <2>1. ASSUME NEW i \in DOMAIN c, NEW j \in 1..i PROVE c[j].ok /\ j # cut
    BY <1>1, <1>3 DEF AllOk
  <2>. QED BY <2>1, Zenon DEF Whole, Succeeded
<1>. QED BY <1>2, <1>3

LEMMA RefusedOrFails ==
    ASSUME NEW c, Chain(c), NEW cut \in Cuts(c), ~Whole(c, cut), AllOk(c)
    PROVE  Refuses(c, cut)
<1>1. PICK n \in Nat : DOMAIN c = 1..n
  <2>1. PICK S : c \in Seq(S)
    BY DEF Chain
  <2>. QED BY <2>1
<1>2. cut \in DOMAIN c
  BY WholeIff DEF Cuts
<1>3. cut - 1 \in Nat /\ cut \in Int
  BY <1>1, <1>2
<1>4. Succeeded(c, cut) = 1..(cut - 1)
  <2>1. ASSUME NEW i \in Succeeded(c, cut) PROVE i \in 1..(cut - 1)
    <3>1. i \in 1..n /\ \A j \in 1..i : j # cut
      BY <1>1, <2>1 DEF Succeeded
    <3>. QED BY <1>1, <1>2, <3>1
  <2>2. ASSUME NEW i \in 1..(cut - 1) PROVE i \in Succeeded(c, cut)
    <3>1. i \in DOMAIN c /\ \A j \in 1..i : j \in DOMAIN c /\ j # cut
      BY <1>1, <1>2
    <3>. QED BY <3>1, Zenon DEF Succeeded, AllOk
  <2>. QED BY <2>1, <2>2
<1>5. Cardinality(1..(cut - 1)) = cut - 1
  <2>1. 1 \in Int /\ cut - 1 \in Int
    BY <1>3
  <2>2. Cardinality(1..(cut - 1)) = IF 1 > cut - 1 THEN 0 ELSE cut - 1 - 1 + 1
    BY <2>1, FS_Interval, Zenon
  <2>. QED BY <1>3, <2>2
<1>. QED BY <1>3, <1>4, <1>5 DEF Refuses, Stop

\* A lookup that has succeeded comes before the one that stops the chain.
LEMMA SucceededBefore ==
    ASSUME NEW c, Chain(c), NEW cut, NEW i \in Succeeded(c, cut)
    PROVE  i \in DOMAIN c /\ i <= Stop(c, cut) /\ c[i].ok
<1>1. PICK n \in Nat : DOMAIN c = 1..n
  <2>1. PICK S : c \in Seq(S)
    BY DEF Chain
  <2>. QED BY <2>1
<1>. DEFINE done == Succeeded(c, cut)
<1>2. done \subseteq 1..n /\ i \in 1..n
  BY <1>1 DEF Succeeded
<1>3. 1..i \subseteq done
  <2>1. ASSUME NEW k \in 1..i PROVE k \in done
    <3>1. k \in DOMAIN c /\ \A j \in 1..k : j \in 1..i
      BY <1>1, <1>2
    <3>2. \A j \in 1..i : c[j].ok /\ j # cut
      BY DEF Succeeded
    <3>. QED BY <3>1, <3>2, Zenon DEF Succeeded
  <2>. QED BY <2>1
<1>4. IsFiniteSet(1..n) /\ Cardinality(1..i) = i
  <2>1. 1 \in Int /\ i \in Int /\ n \in Int
    BY <1>1, <1>2
  <2>2. Cardinality(1..i) = IF 1 > i THEN 0 ELSE i - 1 + 1
    BY <2>1, FS_Interval, Zenon
  <2>3. IsFiniteSet(1..n)
    BY <2>1, FS_Interval, Zenon
  <2>. QED BY <1>1, <1>2, <2>2, <2>3
<1>5. IsFiniteSet(done)
  BY <1>2, <1>4, FS_Subset
<1>6. i <= Cardinality(done) /\ Cardinality(done) \in Nat
  BY <1>3, <1>4, <1>5, FS_Subset, FS_CardinalityType
<1>7. i \in 1..i
  BY <1>2
<1>8. c[i].ok
  BY <1>7 DEF Succeeded
<1>. QED BY <1>1, <1>2, <1>6, <1>8 DEF Stop

\* A chain that is passed has stored its values; what it has no lookup for it
\* leaves alone, passed or not.
LEMMA StoredValue ==
    ASSUME NEW c, NEW cut, Whole(c, cut), NEW f \in Fields, NEW i \in DOMAIN c,
           c[i].into = f, \A j \in DOMAIN c : c[j].into = f => j = i
    PROVE  Stored(c, cut)[f] = c[i].value
<1>. DEFINE at == {j \in Succeeded(c, cut) : c[j].into = f}
            got == CHOOSE j \in at : TRUE
            reset == {j \in {k \in DOMAIN c : c[k].resets /\ k <= Stop(c, cut)} : c[j].into = f}
<1>1. Stored(c, cut)[f] = IF at # {} THEN c[got].value
                          ELSE IF reset # {} THEN NULL ELSE view[f]
  BY Zenon DEF Stored
<1>2. at = {i}
  BY DEF Whole
<1>3. got = i
  BY <1>2
<1>. HIDE DEF at, got, reset
<1>. QED BY <1>1, <1>2, <1>3

LEMMA TidyStored ==
    ASSUME NEW c, Tidy(c), NEW cut, Whole(c, cut), NEW f \in Fields, NEW i \in DOMAIN c,
           c[i].into = f
    PROVE  Stored(c, cut)[f] = c[i].value
<1>1. \A j \in DOMAIN c : c[j].into = f => j = i
  BY DEF Tidy
<1>. QED BY <1>1, StoredValue

LEMMA StoredElse ==
    ASSUME NEW c, NEW cut, NEW f \in Fields \ Into(c)
    PROVE  Stored(c, cut)[f] = view[f]
<1>1. \A i \in Succeeded(c, cut) : i \in DOMAIN c
  BY DEF Succeeded
<1>. QED BY <1>1, Zenon DEF Stored, Into

\* A flag that is up after a chain, passed or not, stands for a value.
LEMMA FlagsStored ==
    ASSUME NEW c, Tidy(c), NEW cut, has \subseteq Flagged, \A f \in has : view[f] # NULL
    PROVE  \A f \in FlagsAfter(c, cut) : Stored(c, cut)[f] # NULL
<1>. SUFFICES ASSUME NEW f \in FlagsAfter(c, cut) PROVE Stored(c, cut)[f] # NULL
  OBVIOUS
<1>. DEFINE done == Succeeded(c, cut)
            reset == {i \in DOMAIN c : c[i].resets /\ i <= Stop(c, cut)}
            found == {i \in reset \cap done : c[i].value # NULL}
            At(s) == {i \in s : c[i].into = f}
            got == CHOOSE i \in At(done) : TRUE
<1>1. f \in Flagged /\ f \in Fields
  BY DEF FlagsAfter, Fields
<1>2. Stored(c, cut)[f] = IF At(done) # {} THEN c[got].value
                          ELSE IF At(reset) # {} THEN NULL ELSE view[f]
  BY <1>1, Zenon DEF Stored
<1>3. \/ f \in has /\ \A i \in reset : c[i].into # f
      \/ \E i \in found : c[i].into = f
  BY DEF FlagsAfter
<1>4. CASE \E i \in found : c[i].into = f
  <2>1. PICK i \in found : c[i].into = f
    BY <1>4
  <2>2. i \in At(done) /\ i \in DOMAIN c
    BY <2>1
  <2>3. got \in At(done)
    BY <2>2
  <2>4. got \in DOMAIN c /\ c[got].into = c[i].into
    BY <2>1, <2>3 DEF Succeeded
  <2>5. got = i
    BY <1>1, <2>1, <2>2, <2>4, Zenon DEF Tidy
  <2>. QED BY <1>2, <2>1, <2>2, <2>5
<1>5. CASE f \in has /\ \A i \in reset : c[i].into # f
  <2>1. CASE At(done) # {}
    <3>1. got \in done /\ c[got].into = f
      BY <2>1
    <3>2. got \in DOMAIN c /\ got <= Stop(c, cut) /\ c[got].ok
      BY <3>1, SucceededBefore DEF Tidy
    <3>3. ~c[got].resets
      BY <1>5, <3>1, <3>2
    <3>. HIDE DEF got
    <3>. QED BY <1>1, <1>2, <2>1, <3>1, <3>2, <3>3 DEF Tidy
  <2>2. CASE At(done) = {}
    <3>1. At(reset) = {}
      BY <1>5
    <3>. QED BY <1>2, <1>5, <2>2, <3>1
  <2>. QED BY <2>1, <2>2
<1>. QED BY <1>3, <1>4, <1>5

\* A chain that is passed sets the flags of the values it has found, and no
\* chain sets others than those of its fields.
LEMMA FlagsFound ==
    ASSUME NEW c, Chain(c), NEW cut, Whole(c, cut), NEW f \in Flagged, NEW i \in DOMAIN c,
           c[i].into = f, c[i].resets, c[i].value # NULL
    PROVE  f \in FlagsAfter(c, cut)
<1>1. i \in Succeeded(c, cut)
  BY DEF Whole
<1>2. i <= Stop(c, cut)
  BY <1>1, SucceededBefore
<1>. QED BY <1>1, <1>2 DEF FlagsAfter

LEMMA FlagsFrom ==
    ASSUME NEW c, NEW cut
    PROVE  FlagsAfter(c, cut) \subseteq has \cup (Flagged \cap Into(c))
BY DEF FlagsAfter, Into

\* Sequences with the same elements are the same.
LEMMA SameSequence ==
    ASSUME NEW S, NEW s \in Seq(S), NEW t \in Seq(S), Len(s) = Len(t),
           \A i \in 1..Len(t) : s[i] = t[i]
    PROVE  s = t
<1>1. s \in [1..Len(t) -> S]
  OBVIOUS
<1>2. t \in [1..Len(t) -> S]
  OBVIOUS
<1>3. PICK D : D = 1..Len(t)
  OBVIOUS
<1>4. s \in [D -> S] /\ t \in [D -> S] /\ \A i \in D : s[i] = t[i]
  BY <1>1, <1>2, <1>3
<1>5. s = [i \in D |-> s[i]] /\ t = [i \in D |-> t[i]]
  BY <1>4, Zenon
<1>. QED BY <1>4, <1>5, Zenon

\* One sequence after the other.
LEMMA ConcatIs ==
    ASSUME NEW S, NEW s \in Seq(S), NEW t \in Seq(S), NEW st \in Seq(S),
           Len(st) = Len(s) + Len(t),
           \A i \in 1..Len(st) : st[i] = IF i <= Len(s) THEN s[i] ELSE t[i - Len(s)]
    PROVE  s \o t = st
<1>1. /\ s \o t \in Seq(S) /\ Len(s \o t) = Len(st)
      /\ Len(s) \in Nat /\ Len(t) \in Nat
  OBVIOUS
<1>2. ASSUME NEW i \in 1..Len(st) PROVE (s \o t)[i] = st[i]
  OBVIOUS
<1>. QED BY <1>1, <1>2, SameSequence, Zenon

LEMMA Concat6And1 ==
    ASSUME NEW a, NEW b, NEW c, NEW d, NEW e, NEW f, NEW g
    PROVE  <<a, b, c, d, e, f>> \o <<g>> = <<a, b, c, d, e, f, g>>
<1>. DEFINE s == <<a, b, c, d, e, f>>
            t == <<g>>
            st == <<a, b, c, d, e, f, g>>
            S == {a, b, c, d, e, f, g}
<1>1. s \in Seq(S) /\ t \in Seq(S) /\ st \in Seq(S)
  OBVIOUS
<1>2. Len(s) = 6 /\ Len(t) = 1 /\ Len(st) = 7
  OBVIOUS
<1>3. /\ s[1] = a /\ s[2] = b /\ s[3] = c /\ s[4] = d /\ s[5] = e /\ s[6] = f
      /\ t[1] = g
      /\ st[1] = a /\ st[2] = b /\ st[3] = c /\ st[4] = d /\ st[5] = e /\ st[6] = f /\ st[7] = g
  OBVIOUS
<1>. HIDE DEF s, t, st, S
<1>4. \A i \in 1..Len(st) : st[i] = IF i <= Len(s) THEN s[i] ELSE t[i - Len(s)]
  BY <1>2, <1>3
<1>5. Len(st) = Len(s) + Len(t)
  BY <1>2
<1>6. s \o t = st
  BY <1>1, <1>4, <1>5, ConcatIs, Zenon
<1>. QED BY <1>6 DEF s, t, st

LEMMA Concat3And1 ==
    ASSUME NEW a, NEW b, NEW c, NEW d
    PROVE  <<a, b, c>> \o <<d>> = <<a, b, c, d>>
<1>. DEFINE s == <<a, b, c>>
            t == <<d>>
            st == <<a, b, c, d>>
            S == {a, b, c, d}
<1>1. s \in Seq(S) /\ t \in Seq(S) /\ st \in Seq(S)
  OBVIOUS
<1>2. Len(s) = 3 /\ Len(t) = 1 /\ Len(st) = 4
  OBVIOUS
<1>3. /\ s[1] = a /\ s[2] = b /\ s[3] = c
      /\ t[1] = d
      /\ st[1] = a /\ st[2] = b /\ st[3] = c /\ st[4] = d
  OBVIOUS
<1>. HIDE DEF s, t, st, S
<1>4. \A i \in 1..Len(st) : st[i] = IF i <= Len(s) THEN s[i] ELSE t[i - Len(s)]
  BY <1>2, <1>3
<1>5. Len(st) = Len(s) + Len(t)
  BY <1>2
<1>6. s \o t = st
  BY <1>1, <1>4, <1>5, ConcatIs, Zenon
<1>. QED BY <1>6 DEF s, t, st

LEMMA Concat2And2 ==
    ASSUME NEW a, NEW b, NEW c, NEW d
    PROVE  <<a, b>> \o <<c, d>> = <<a, b, c, d>>
<1>. DEFINE s == <<a, b>>
            t == <<c, d>>
            st == <<a, b, c, d>>
            S == {a, b, c, d}
<1>1. s \in Seq(S) /\ t \in Seq(S) /\ st \in Seq(S)
  OBVIOUS
<1>2. Len(s) = 2 /\ Len(t) = 2 /\ Len(st) = 4
  OBVIOUS
<1>3. /\ s[1] = a /\ s[2] = b
      /\ t[1] = c /\ t[2] = d
      /\ st[1] = a /\ st[2] = b /\ st[3] = c /\ st[4] = d
  OBVIOUS
<1>. HIDE DEF s, t, st, S
<1>4. \A i \in 1..Len(st) : st[i] = IF i <= Len(s) THEN s[i] ELSE t[i - Len(s)]
  BY <1>2, <1>3
<1>5. Len(st) = Len(s) + Len(t)
  BY <1>2
<1>6. s \o t = st
  BY <1>1, <1>4, <1>5, ConcatIs, Zenon
<1>. QED BY <1>6 DEF s, t, st

LEMMA Concat2And3 ==
    ASSUME NEW a, NEW b, NEW c, NEW d, NEW e
    PROVE  <<a, b>> \o <<c, d, e>> = <<a, b, c, d, e>>
<1>. DEFINE s == <<a, b>>
            t == <<c, d, e>>
            st == <<a, b, c, d, e>>
            S == {a, b, c, d, e}
<1>1. s \in Seq(S) /\ t \in Seq(S) /\ st \in Seq(S)
  OBVIOUS
<1>2. Len(s) = 2 /\ Len(t) = 3 /\ Len(st) = 5
  OBVIOUS
<1>3. /\ s[1] = a /\ s[2] = b
      /\ t[1] = c /\ t[2] = d /\ t[3] = e
      /\ st[1] = a /\ st[2] = b /\ st[3] = c /\ st[4] = d /\ st[5] = e
  OBVIOUS
<1>. HIDE DEF s, t, st, S
<1>4. \A i \in 1..Len(st) : st[i] = IF i <= Len(s) THEN s[i] ELSE t[i - Len(s)]
  BY <1>2, <1>3
<1>5. Len(st) = Len(s) + Len(t)
  BY <1>2
<1>6. s \o t = st
  BY <1>1, <1>4, <1>5, ConcatIs, Zenon
<1>. QED BY <1>6 DEF s, t, st

LEMMA Concat4And1 ==
    ASSUME NEW a, NEW b, NEW c, NEW d, NEW e
    PROVE  <<a, b, c, d>> \o <<e>> = <<a, b, c, d, e>>
<1>. DEFINE s == <<a, b, c, d>>
            t == <<e>>
            st == <<a, b, c, d, e>>
            S == {a, b, c, d, e}
<1>1. s \in Seq(S) /\ t \in Seq(S) /\ st \in Seq(S)
  OBVIOUS
<1>2. Len(s) = 4 /\ Len(t) = 1 /\ Len(st) = 5
  OBVIOUS
<1>3. /\ s[1] = a /\ s[2] = b /\ s[3] = c /\ s[4] = d
      /\ t[1] = e
      /\ st[1] = a /\ st[2] = b /\ st[3] = c /\ st[4] = d /\ st[5] = e
  OBVIOUS
<1>. HIDE DEF s, t, st, S
<1>4. \A i \in 1..Len(st) : st[i] = IF i <= Len(s) THEN s[i] ELSE t[i - Len(s)]
  BY <1>2, <1>3
<1>5. Len(st) = Len(s) + Len(t)
  BY <1>2
<1>6. s \o t = st
  BY <1>1, <1>4, <1>5, ConcatIs, Zenon
<1>. QED BY <1>6 DEF s, t, st

LEMMA Concat4And3 ==
    ASSUME NEW a, NEW b, NEW c, NEW d, NEW e, NEW f, NEW g
    PROVE  <<a, b, c, d>> \o <<e, f, g>> = <<a, b, c, d, e, f, g>>
<1>. DEFINE s == <<a, b, c, d>>
            t == <<e, f, g>>
            st == <<a, b, c, d, e, f, g>>
            S == {a, b, c, d, e, f, g}
<1>1. s \in Seq(S) /\ t \in Seq(S) /\ st \in Seq(S)
  OBVIOUS
<1>2. Len(s) = 4 /\ Len(t) = 3 /\ Len(st) = 7
  OBVIOUS
<1>3. /\ s[1] = a /\ s[2] = b /\ s[3] = c /\ s[4] = d
      /\ t[1] = e /\ t[2] = f /\ t[3] = g
      /\ st[1] = a /\ st[2] = b /\ st[3] = c /\ st[4] = d /\ st[5] = e /\ st[6] = f /\ st[7] = g
  OBVIOUS
<1>. HIDE DEF s, t, st, S
<1>4. \A i \in 1..Len(st) : st[i] = IF i <= Len(s) THEN s[i] ELSE t[i - Len(s)]
  BY <1>2, <1>3
<1>5. Len(st) = Len(s) + Len(t)
  BY <1>2
<1>6. s \o t = st
  BY <1>1, <1>4, <1>5, ConcatIs, Zenon
<1>. QED BY <1>6 DEF s, t, st


\* The chains of the kinds, and of the two that have lookups after them.
LEMMA CancelChain ==
    ASSUME NEW r
    PROVE  /\ Tidy(CancelProbe(r))
           /\ Into(CancelProbe(r)) \subseteq {"registration", "nothing", "canceled"}
           /\ AllOk(CancelProbe(r)) <=>
                  /\ (Get(r, "registration") = NULL \/ Is(Get(r, "registration"), "dict"))
                  /\ Get(r, "registration") # NULL
                  /\ (Get(r, "canceled") = NULL \/ Is(Get(r, "canceled"), "bool"))
                  /\ Get(r, "canceled") # NULL
                  /\ ValidRegistration(Get(r, "registration"))
           /\ \A cut : Whole(CancelProbe(r), cut) =>
                  /\ Stored(CancelProbe(r), cut).registration = Get(r, "registration")
                  /\ Stored(CancelProbe(r), cut).canceled = Get(r, "canceled")
           /\ \A cut : Whole(CancelProbe(r), cut) =>
                  /\ Get(r, "canceled") # NULL => "canceled" \in FlagsAfter(CancelProbe(r), cut)
<1>. DEFINE chain == CancelProbe(r)
            a == Optional(Get(r, "registration"), "dict", "registration")
            b == Test(Get(r, "registration") # NULL, "none")
            c == Optional(Get(r, "canceled"), "bool", "canceled")
            d == Test(Get(r, "canceled") # NULL, "none")
            e == Valid(ValidRegistration(Get(r, "registration")))
<1>1. chain = <<a, b, c, d, e>>
  BY DEF CancelProbe
<1>2. /\ a.ok <=> Get(r, "registration") = NULL \/ Is(Get(r, "registration"), "dict")
      /\ a.into = "registration" /\ a.value = Get(r, "registration") /\ a.resets
  BY OptionalIs
<1>3. /\ b.ok <=> Get(r, "registration") # NULL
      /\ b.into = "nothing" /\ ~b.resets
  BY TestIs
<1>4. /\ c.ok <=> Get(r, "canceled") = NULL \/ Is(Get(r, "canceled"), "bool")
      /\ c.into = "canceled" /\ c.value = Get(r, "canceled") /\ c.resets
  BY OptionalIs
<1>5. /\ d.ok <=> Get(r, "canceled") # NULL
      /\ d.into = "nothing" /\ ~d.resets
  BY TestIs
<1>6. /\ e.ok <=> ValidRegistration(Get(r, "registration"))
      /\ e.into = "nothing" /\ ~e.resets
  BY ValidIs
<1>. HIDE DEF a, b, c, d, e, chain
<1>7. Chain(chain)
  <2>1. <<a, b, c, d, e>> \in Seq({a, b, c, d, e})
    OBVIOUS
  <2>. QED BY <1>1, <2>1 DEF Chain
<1>8. /\ DOMAIN chain = 1..5 /\ chain[1] = a /\ chain[2] = b /\ chain[3] = c /\ chain[4] = d
      /\ chain[5] = e
  BY <1>1
<1>9. Tidy(chain)
  <2>1. ASSUME NEW i \in DOMAIN chain, NEW j \in DOMAIN chain,
               chain[i].into \in Fields, chain[j].into = chain[i].into
        PROVE  j = i
    <3>1. "nothing" \notin Fields
      BY DEF Fields, Flagged
    <3>. QED BY <1>2, <1>3, <1>4, <1>5, <1>6, <1>8, <2>1, <3>1
  <2>2. ASSUME NEW i \in DOMAIN chain, chain[i].into \in Flagged,
               chain[i].ok, ~chain[i].resets
        PROVE  chain[i].value # NULL
    BY <1>2, <1>3, <1>4, <1>5, <1>6, <1>8, <2>2 DEF Flagged, Is
  <2>. QED BY <1>7, <2>1, <2>2 DEF Tidy
<1>10. Into(chain) \subseteq {"registration", "nothing", "canceled"}
  BY <1>2, <1>3, <1>4, <1>5, <1>6, <1>8 DEF Into
<1>11. AllOk(chain) <=>
           /\ (Get(r, "registration") = NULL \/ Is(Get(r, "registration"), "dict"))
           /\ Get(r, "registration") # NULL
           /\ (Get(r, "canceled") = NULL \/ Is(Get(r, "canceled"), "bool"))
           /\ Get(r, "canceled") # NULL
           /\ ValidRegistration(Get(r, "registration"))
  BY <1>2, <1>3, <1>4, <1>5, <1>6, <1>8 DEF AllOk
<1>12. ASSUME NEW cut, Whole(chain, cut)
      PROVE  /\ Stored(chain, cut).registration = Get(r, "registration")
             /\ Stored(chain, cut).canceled = Get(r, "canceled")
  <2>1. {"registration", "canceled"} \subseteq Fields
    BY DEF Fields, Flagged
  <2>2. Stored(chain, cut).registration = chain[1].value
    BY <1>2, <1>8, <1>9, <1>12, <2>1, TidyStored
  <2>3. Stored(chain, cut).canceled = chain[3].value
    BY <1>4, <1>8, <1>9, <1>12, <2>1, TidyStored
  <2>. QED BY <1>2, <1>3, <1>4, <1>5, <1>6, <1>8, <2>2, <2>3
<1>13. ASSUME NEW cut, Whole(chain, cut)
      PROVE  Get(r, "canceled") # NULL => "canceled" \in FlagsAfter(chain, cut)
  <2>1. {"canceled"} \subseteq Flagged
    BY DEF Flagged
  <2>2. Get(r, "canceled") # NULL => "canceled" \in FlagsAfter(chain, cut)
    BY <1>4, <1>7, <1>8, <1>13, <2>1, FlagsFound
  <2>. QED BY <2>2
<1>. QED BY <1>9, <1>10, <1>11, <1>12, <1>13 DEF chain

LEMMA CheckChain ==
    ASSUME NEW r
    PROVE  /\ Tidy(CheckProbe(r))
           /\ Into(CheckProbe(r)) \subseteq
                  {"registration", "generation", "currentState", "changed", "nothing"}
           /\ AllOk(CheckProbe(r)) <=>
                  /\ Is(Get(r, "registration"), "dict")
                  /\ (Get(r, "generation") = NULL \/ Is(Get(r, "generation"), "integer"))
                  /\ (Get(r, "current_state") = NULL \/ Is(Get(r, "current_state"), "integer"))
                  /\ (Get(r, "changed") = NULL \/ Is(Get(r, "changed"), "bool"))
                  /\ NULL \notin {Get(r, "generation"), Get(r, "current_state"), Get(r,
                         "changed")}
                  /\ ValidRegistration(Get(r, "registration"))
           /\ \A cut : Whole(CheckProbe(r), cut) =>
                  /\ Stored(CheckProbe(r), cut).registration = Get(r, "registration")
                  /\ Stored(CheckProbe(r), cut).generation = Get(r, "generation")
                  /\ Stored(CheckProbe(r), cut).currentState = Get(r, "current_state")
                  /\ Stored(CheckProbe(r), cut).changed = Get(r, "changed")
           /\ \A cut : Whole(CheckProbe(r), cut) =>
                  /\ Get(r, "generation") # NULL =>
                         "generation" \in FlagsAfter(CheckProbe(r), cut)
                  /\ Get(r, "current_state") # NULL =>
                         "currentState" \in FlagsAfter(CheckProbe(r), cut)
                  /\ Get(r, "changed") # NULL => "changed" \in FlagsAfter(CheckProbe(r), cut)
<1>. DEFINE chain == CheckProbe(r)
            a == Require(Get(r, "registration"), "dict", "registration")
            b == Optional(Get(r, "generation"), "integer", "generation")
            c == Optional(Get(r, "current_state"), "integer", "currentState")
            d == Optional(Get(r, "changed"), "bool", "changed")
            e == Test(NULL \notin {Get(r, "generation"), Get(r, "current_state"), Get(r,
                     "changed")}, "none")
            f == Valid(ValidRegistration(Get(r, "registration")))
<1>1. chain = <<a, b, c, d, e, f>>
  BY DEF CheckProbe
<1>2. /\ a.ok <=> Is(Get(r, "registration"), "dict")
      /\ a.into = "registration" /\ a.value = Get(r, "registration") /\ ~a.resets
  BY RequireIs
<1>3. /\ b.ok <=> Get(r, "generation") = NULL \/ Is(Get(r, "generation"), "integer")
      /\ b.into = "generation" /\ b.value = Get(r, "generation") /\ b.resets
  BY OptionalIs
<1>4. /\ c.ok <=> Get(r, "current_state") = NULL \/ Is(Get(r, "current_state"), "integer")
      /\ c.into = "currentState" /\ c.value = Get(r, "current_state") /\ c.resets
  BY OptionalIs
<1>5. /\ d.ok <=> Get(r, "changed") = NULL \/ Is(Get(r, "changed"), "bool")
      /\ d.into = "changed" /\ d.value = Get(r, "changed") /\ d.resets
  BY OptionalIs
<1>6. /\ e.ok <=> NULL \notin {Get(r, "generation"), Get(r, "current_state"), Get(r, "changed")}
      /\ e.into = "nothing" /\ ~e.resets
  BY TestIs
<1>7. /\ f.ok <=> ValidRegistration(Get(r, "registration"))
      /\ f.into = "nothing" /\ ~f.resets
  BY ValidIs
<1>. HIDE DEF a, b, c, d, e, f, chain
<1>8. Chain(chain)
  <2>1. <<a, b, c, d, e, f>> \in Seq({a, b, c, d, e, f})
    OBVIOUS
  <2>. QED BY <1>1, <2>1 DEF Chain
<1>9. /\ DOMAIN chain = 1..6 /\ chain[1] = a /\ chain[2] = b /\ chain[3] = c /\ chain[4] = d
      /\ chain[5] = e /\ chain[6] = f
  BY <1>1
<1>10. Tidy(chain)
  <2>1. ASSUME NEW i \in DOMAIN chain, NEW j \in DOMAIN chain,
               chain[i].into \in Fields, chain[j].into = chain[i].into
        PROVE  j = i
    <3>1. "nothing" \notin Fields
      BY DEF Fields, Flagged
    <3>. QED BY <1>2, <1>3, <1>4, <1>5, <1>6, <1>7, <1>9, <2>1, <3>1
  <2>2. ASSUME NEW i \in DOMAIN chain, chain[i].into \in Flagged,
               chain[i].ok, ~chain[i].resets
        PROVE  chain[i].value # NULL
    BY <1>2, <1>3, <1>4, <1>5, <1>6, <1>7, <1>9, <2>2 DEF Flagged, Is
  <2>. QED BY <1>8, <2>1, <2>2 DEF Tidy
<1>11. Into(chain) \subseteq
           {"registration", "generation", "currentState", "changed", "nothing"}
  BY <1>2, <1>3, <1>4, <1>5, <1>6, <1>7, <1>9 DEF Into
<1>12. AllOk(chain) <=>
           /\ Is(Get(r, "registration"), "dict")
           /\ (Get(r, "generation") = NULL \/ Is(Get(r, "generation"), "integer"))
           /\ (Get(r, "current_state") = NULL \/ Is(Get(r, "current_state"), "integer"))
           /\ (Get(r, "changed") = NULL \/ Is(Get(r, "changed"), "bool"))
           /\ NULL \notin {Get(r, "generation"), Get(r, "current_state"), Get(r, "changed")}
           /\ ValidRegistration(Get(r, "registration"))
  BY <1>2, <1>3, <1>4, <1>5, <1>6, <1>7, <1>9 DEF AllOk
<1>13. ASSUME NEW cut, Whole(chain, cut)
      PROVE  /\ Stored(chain, cut).registration = Get(r, "registration")
             /\ Stored(chain, cut).generation = Get(r, "generation")
             /\ Stored(chain, cut).currentState = Get(r, "current_state")
             /\ Stored(chain, cut).changed = Get(r, "changed")
  <2>1. {"registration", "generation", "currentState", "changed"} \subseteq Fields
    BY DEF Fields, Flagged
  <2>2. Stored(chain, cut).registration = chain[1].value
    BY <1>2, <1>9, <1>10, <1>13, <2>1, TidyStored
  <2>3. Stored(chain, cut).generation = chain[2].value
    BY <1>3, <1>9, <1>10, <1>13, <2>1, TidyStored
  <2>4. Stored(chain, cut).currentState = chain[3].value
    BY <1>4, <1>9, <1>10, <1>13, <2>1, TidyStored
  <2>5. Stored(chain, cut).changed = chain[4].value
    BY <1>5, <1>9, <1>10, <1>13, <2>1, TidyStored
  <2>. QED BY <1>2, <1>3, <1>4, <1>5, <1>6, <1>7, <1>9, <2>2, <2>3, <2>4, <2>5
<1>14. ASSUME NEW cut, Whole(chain, cut)
      PROVE  /\ Get(r, "generation") # NULL => "generation" \in FlagsAfter(chain, cut)
             /\ Get(r, "current_state") # NULL => "currentState" \in FlagsAfter(chain, cut)
             /\ Get(r, "changed") # NULL => "changed" \in FlagsAfter(chain, cut)
  <2>1. {"generation", "currentState", "changed"} \subseteq Flagged
    BY DEF Flagged
  <2>2. Get(r, "generation") # NULL => "generation" \in FlagsAfter(chain, cut)
    BY <1>3, <1>8, <1>9, <1>14, <2>1, FlagsFound
  <2>3. Get(r, "current_state") # NULL => "currentState" \in FlagsAfter(chain, cut)
    BY <1>4, <1>8, <1>9, <1>14, <2>1, FlagsFound
  <2>4. Get(r, "changed") # NULL => "changed" \in FlagsAfter(chain, cut)
    BY <1>5, <1>8, <1>9, <1>14, <2>1, FlagsFound
  <2>. QED BY <2>2, <2>3, <2>4
<1>. QED BY <1>10, <1>11, <1>12, <1>13, <1>14 DEF chain

LEMMA PostChain ==
    ASSUME NEW r
    PROVE  /\ Tidy(PostProbe(r))
           /\ Into(PostProbe(r)) \subseteq
                  {"nameObject", "deliveredTokens", "generation", "nothing"}
           /\ AllOk(PostProbe(r)) <=>
                  /\ Is(Get(r, "name"), "dict")
                  /\ Is(Get(r, "delivered_tokens"), "array")
                  /\ Is(Get(r, "generation"), "integer")
                  /\ (Get(r, "posted_at") = NULL \/ Is(Get(r, "posted_at"), "date"))
                  /\ Get(r, "posted_at") # NULL
                  /\ ValidName(Get(r, "name"))
<1>. DEFINE chain == PostProbe(r)
            a == Require(Get(r, "name"), "dict", "nameObject")
            b == Require(Get(r, "delivered_tokens"), "array", "deliveredTokens")
            c == Require(Get(r, "generation"), "integer", "generation")
            d == Optional(Get(r, "posted_at"), "date", "nothing")
            e == Test(Get(r, "posted_at") # NULL, "none")
            f == Valid(ValidName(Get(r, "name")))
<1>1. chain = <<a, b, c, d, e, f>>
  BY DEF PostProbe
<1>2. /\ a.ok <=> Is(Get(r, "name"), "dict")
      /\ a.into = "nameObject" /\ a.value = Get(r, "name") /\ ~a.resets
  BY RequireIs
<1>3. /\ b.ok <=> Is(Get(r, "delivered_tokens"), "array")
      /\ b.into = "deliveredTokens" /\ b.value = Get(r, "delivered_tokens") /\ ~b.resets
  BY RequireIs
<1>4. /\ c.ok <=> Is(Get(r, "generation"), "integer")
      /\ c.into = "generation" /\ c.value = Get(r, "generation") /\ ~c.resets
  BY RequireIs
<1>5. /\ d.ok <=> Get(r, "posted_at") = NULL \/ Is(Get(r, "posted_at"), "date")
      /\ d.into = "nothing" /\ d.resets
  BY OptionalIs
<1>6. /\ e.ok <=> Get(r, "posted_at") # NULL
      /\ e.into = "nothing" /\ ~e.resets
  BY TestIs
<1>7. /\ f.ok <=> ValidName(Get(r, "name"))
      /\ f.into = "nothing" /\ ~f.resets
  BY ValidIs
<1>. HIDE DEF a, b, c, d, e, f, chain
<1>8. Chain(chain)
  <2>1. <<a, b, c, d, e, f>> \in Seq({a, b, c, d, e, f})
    OBVIOUS
  <2>. QED BY <1>1, <2>1 DEF Chain
<1>9. /\ DOMAIN chain = 1..6 /\ chain[1] = a /\ chain[2] = b /\ chain[3] = c /\ chain[4] = d
      /\ chain[5] = e /\ chain[6] = f
  BY <1>1
<1>10. Tidy(chain)
  <2>1. ASSUME NEW i \in DOMAIN chain, NEW j \in DOMAIN chain,
               chain[i].into \in Fields, chain[j].into = chain[i].into
        PROVE  j = i
    <3>1. "nothing" \notin Fields
      BY DEF Fields, Flagged
    <3>. QED BY <1>2, <1>3, <1>4, <1>5, <1>6, <1>7, <1>9, <2>1, <3>1
  <2>2. ASSUME NEW i \in DOMAIN chain, chain[i].into \in Flagged,
               chain[i].ok, ~chain[i].resets
        PROVE  chain[i].value # NULL
    BY <1>2, <1>3, <1>4, <1>5, <1>6, <1>7, <1>9, <2>2 DEF Flagged, Is
  <2>. QED BY <1>8, <2>1, <2>2 DEF Tidy
<1>11. Into(chain) \subseteq {"nameObject", "deliveredTokens", "generation", "nothing"}
  BY <1>2, <1>3, <1>4, <1>5, <1>6, <1>7, <1>9 DEF Into
<1>12. AllOk(chain) <=>
           /\ Is(Get(r, "name"), "dict")
           /\ Is(Get(r, "delivered_tokens"), "array")
           /\ Is(Get(r, "generation"), "integer")
           /\ (Get(r, "posted_at") = NULL \/ Is(Get(r, "posted_at"), "date"))
           /\ Get(r, "posted_at") # NULL
           /\ ValidName(Get(r, "name"))
  BY <1>2, <1>3, <1>4, <1>5, <1>6, <1>7, <1>9 DEF AllOk
<1>. QED BY <1>10, <1>11, <1>12 DEF chain

LEMMA PostWhole ==
    ASSUME NEW r
    PROVE  /\ Tidy(PostProbe(r) \o FollowUp("NotifyPost", r))
           /\ Into(PostProbe(r) \o FollowUp("NotifyPost", r)) \subseteq
                  {"nameObject", "deliveredTokens", "generation", "nothing", "state"}
           /\ AllOk(PostProbe(r) \o FollowUp("NotifyPost", r)) <=>
                  /\ Is(Get(r, "name"), "dict")
                  /\ Is(Get(r, "delivered_tokens"), "array")
                  /\ Is(Get(r, "generation"), "integer")
                  /\ (Get(r, "posted_at") = NULL \/ Is(Get(r, "posted_at"), "date"))
                  /\ Get(r, "posted_at") # NULL
                  /\ ValidName(Get(r, "name"))
                  /\ Is(Get(Get(r, "name"), "state"), "integer")
           /\ \A cut : Whole(PostProbe(r) \o FollowUp("NotifyPost", r), cut) =>
                  /\ Stored(PostProbe(r) \o FollowUp("NotifyPost", r), cut).nameObject =
                         Get(r, "name")
                  /\ Stored(PostProbe(r) \o FollowUp("NotifyPost", r), cut).generation =
                         Get(r, "generation")
                  /\ Stored(PostProbe(r) \o FollowUp("NotifyPost", r), cut).state =
                         Get(Get(r, "name"), "state")
<1>. DEFINE chain == PostProbe(r) \o FollowUp("NotifyPost", r)
            a == Require(Get(r, "name"), "dict", "nameObject")
            b == Require(Get(r, "delivered_tokens"), "array", "deliveredTokens")
            c == Require(Get(r, "generation"), "integer", "generation")
            d == Optional(Get(r, "posted_at"), "date", "nothing")
            e == Test(Get(r, "posted_at") # NULL, "none")
            f == Valid(ValidName(Get(r, "name")))
            g == Require(Get(Get(r, "name"), "state"), "integer", "state")
<1>1. chain = <<a, b, c, d, e, f, g>>
  <2>1. PostProbe(r) = <<a, b, c, d, e, f>>
    BY DEF PostProbe
  <2>2. FollowUp("NotifyPost", r) = <<g>>
    BY DEF FollowUp
  <2>. HIDE DEF a, b, c, d, e, f, g
  <2>3. <<a, b, c, d, e, f>> \o <<g>> = <<a, b, c, d, e, f, g>>
    BY Concat6And1, Concat3And1
  <2>. QED BY <2>1, <2>2, <2>3
<1>2. /\ a.ok <=> Is(Get(r, "name"), "dict")
      /\ a.into = "nameObject" /\ a.value = Get(r, "name") /\ ~a.resets
  BY RequireIs
<1>3. /\ b.ok <=> Is(Get(r, "delivered_tokens"), "array")
      /\ b.into = "deliveredTokens" /\ b.value = Get(r, "delivered_tokens") /\ ~b.resets
  BY RequireIs
<1>4. /\ c.ok <=> Is(Get(r, "generation"), "integer")
      /\ c.into = "generation" /\ c.value = Get(r, "generation") /\ ~c.resets
  BY RequireIs
<1>5. /\ d.ok <=> Get(r, "posted_at") = NULL \/ Is(Get(r, "posted_at"), "date")
      /\ d.into = "nothing" /\ d.resets
  BY OptionalIs
<1>6. /\ e.ok <=> Get(r, "posted_at") # NULL
      /\ e.into = "nothing" /\ ~e.resets
  BY TestIs
<1>7. /\ f.ok <=> ValidName(Get(r, "name"))
      /\ f.into = "nothing" /\ ~f.resets
  BY ValidIs
<1>8. /\ g.ok <=> Is(Get(Get(r, "name"), "state"), "integer")
      /\ g.into = "state" /\ g.value = Get(Get(r, "name"), "state") /\ ~g.resets
  BY RequireIs
<1>. HIDE DEF a, b, c, d, e, f, g, chain
<1>9. Chain(chain)
  <2>1. <<a, b, c, d, e, f, g>> \in Seq({a, b, c, d, e, f, g})
    OBVIOUS
  <2>. QED BY <1>1, <2>1 DEF Chain
<1>10. /\ DOMAIN chain = 1..7 /\ chain[1] = a /\ chain[2] = b /\ chain[3] = c /\ chain[4] = d
       /\ chain[5] = e /\ chain[6] = f /\ chain[7] = g
  BY <1>1
<1>11. Tidy(chain)
  <2>1. ASSUME NEW i \in DOMAIN chain, NEW j \in DOMAIN chain,
               chain[i].into \in Fields, chain[j].into = chain[i].into
        PROVE  j = i
    <3>1. "nothing" \notin Fields
      BY DEF Fields, Flagged
    <3>. QED BY <1>2, <1>3, <1>4, <1>5, <1>6, <1>7, <1>8, <1>10, <2>1, <3>1
  <2>2. ASSUME NEW i \in DOMAIN chain, chain[i].into \in Flagged,
               chain[i].ok, ~chain[i].resets
        PROVE  chain[i].value # NULL
    BY <1>2, <1>3, <1>4, <1>5, <1>6, <1>7, <1>8, <1>10, <2>2 DEF Flagged, Is
  <2>. QED BY <1>9, <2>1, <2>2 DEF Tidy
<1>12. Into(chain) \subseteq {"nameObject", "deliveredTokens", "generation", "nothing", "state"}
  BY <1>2, <1>3, <1>4, <1>5, <1>6, <1>7, <1>8, <1>10 DEF Into
<1>13. AllOk(chain) <=>
           /\ Is(Get(r, "name"), "dict")
           /\ Is(Get(r, "delivered_tokens"), "array")
           /\ Is(Get(r, "generation"), "integer")
           /\ (Get(r, "posted_at") = NULL \/ Is(Get(r, "posted_at"), "date"))
           /\ Get(r, "posted_at") # NULL
           /\ ValidName(Get(r, "name"))
           /\ Is(Get(Get(r, "name"), "state"), "integer")
  BY <1>2, <1>3, <1>4, <1>5, <1>6, <1>7, <1>8, <1>10 DEF AllOk
<1>14. ASSUME NEW cut, Whole(chain, cut)
      PROVE  /\ Stored(chain, cut).nameObject = Get(r, "name")
             /\ Stored(chain, cut).generation = Get(r, "generation")
             /\ Stored(chain, cut).state = Get(Get(r, "name"), "state")
  <2>1. {"nameObject", "generation", "state"} \subseteq Fields
    BY DEF Fields, Flagged
  <2>2. Stored(chain, cut).nameObject = chain[1].value
    BY <1>2, <1>10, <1>11, <1>14, <2>1, TidyStored
  <2>3. Stored(chain, cut).generation = chain[3].value
    BY <1>4, <1>10, <1>11, <1>14, <2>1, TidyStored
  <2>4. Stored(chain, cut).state = chain[7].value
    BY <1>8, <1>10, <1>11, <1>14, <2>1, TidyStored
  <2>. QED BY <1>2, <1>3, <1>4, <1>5, <1>6, <1>7, <1>8, <1>10, <2>2, <2>3, <2>4
<1>. QED BY <1>11, <1>12, <1>13, <1>14 DEF chain

LEMMA NameStateChain ==
    ASSUME NEW r
    PROVE  /\ Tidy(NameStateProbe(r))
           /\ Into(NameStateProbe(r)) \subseteq {"nameObject", "state", "nothing"}
           /\ AllOk(NameStateProbe(r)) <=>
                  /\ Is(Get(r, "name"), "dict")
                  /\ Is(Get(r, "state"), "integer")
                  /\ ValidName(Get(r, "name"))
<1>. DEFINE chain == NameStateProbe(r)
            a == Require(Get(r, "name"), "dict", "nameObject")
            b == Require(Get(r, "state"), "integer", "state")
            c == Valid(ValidName(Get(r, "name")))
<1>1. chain = <<a, b, c>>
  BY DEF NameStateProbe
<1>2. /\ a.ok <=> Is(Get(r, "name"), "dict")
      /\ a.into = "nameObject" /\ a.value = Get(r, "name") /\ ~a.resets
  BY RequireIs
<1>3. /\ b.ok <=> Is(Get(r, "state"), "integer")
      /\ b.into = "state" /\ b.value = Get(r, "state") /\ ~b.resets
  BY RequireIs
<1>4. /\ c.ok <=> ValidName(Get(r, "name"))
      /\ c.into = "nothing" /\ ~c.resets
  BY ValidIs
<1>. HIDE DEF a, b, c, chain
<1>5. Chain(chain)
  <2>1. <<a, b, c>> \in Seq({a, b, c})
    OBVIOUS
  <2>. QED BY <1>1, <2>1 DEF Chain
<1>6. /\ DOMAIN chain = 1..3 /\ chain[1] = a /\ chain[2] = b /\ chain[3] = c
  BY <1>1
<1>7. Tidy(chain)
  <2>1. ASSUME NEW i \in DOMAIN chain, NEW j \in DOMAIN chain,
               chain[i].into \in Fields, chain[j].into = chain[i].into
        PROVE  j = i
    <3>1. "nothing" \notin Fields
      BY DEF Fields, Flagged
    <3>. QED BY <1>2, <1>3, <1>4, <1>6, <2>1, <3>1
  <2>2. ASSUME NEW i \in DOMAIN chain, chain[i].into \in Flagged,
               chain[i].ok, ~chain[i].resets
        PROVE  chain[i].value # NULL
    BY <1>2, <1>3, <1>4, <1>6, <2>2 DEF Flagged, Is
  <2>. QED BY <1>5, <2>1, <2>2 DEF Tidy
<1>8. Into(chain) \subseteq {"nameObject", "state", "nothing"}
  BY <1>2, <1>3, <1>4, <1>6 DEF Into
<1>9. AllOk(chain) <=>
          /\ Is(Get(r, "name"), "dict")
          /\ Is(Get(r, "state"), "integer")
          /\ ValidName(Get(r, "name"))
  BY <1>2, <1>3, <1>4, <1>6 DEF AllOk
<1>. QED BY <1>7, <1>8, <1>9 DEF chain

LEMMA NameStateWhole ==
    ASSUME NEW r
    PROVE  /\ Tidy(NameStateProbe(r) \o FollowUp("NotifyNameState", r))
           /\ Into(NameStateProbe(r) \o FollowUp("NotifyNameState", r)) \subseteq
                  {"nameObject", "state", "nothing", "generation"}
           /\ AllOk(NameStateProbe(r) \o FollowUp("NotifyNameState", r)) <=>
                  /\ Is(Get(r, "name"), "dict")
                  /\ Is(Get(r, "state"), "integer")
                  /\ ValidName(Get(r, "name"))
                  /\ Is(Get(Get(r, "name"), "generation"), "integer")
           /\ \A cut : Whole(NameStateProbe(r) \o FollowUp("NotifyNameState", r), cut) =>
                  /\ Stored(NameStateProbe(r) \o FollowUp("NotifyNameState", r), cut).nameObject
                      = Get(r, "name")
                  /\ Stored(NameStateProbe(r) \o FollowUp("NotifyNameState", r), cut).generation
                      = Get(Get(r, "name"), "generation")
                  /\ Stored(NameStateProbe(r) \o FollowUp("NotifyNameState", r), cut).state =
                         Get(r, "state")
<1>. DEFINE chain == NameStateProbe(r) \o FollowUp("NotifyNameState", r)
            a == Require(Get(r, "name"), "dict", "nameObject")
            b == Require(Get(r, "state"), "integer", "state")
            c == Valid(ValidName(Get(r, "name")))
            d == Require(Get(Get(r, "name"), "generation"), "integer", "generation")
<1>1. chain = <<a, b, c, d>>
  <2>1. NameStateProbe(r) = <<a, b, c>>
    BY DEF NameStateProbe
  <2>2. FollowUp("NotifyNameState", r) = <<d>>
    BY DEF FollowUp
  <2>. HIDE DEF a, b, c, d
  <2>3. <<a, b, c>> \o <<d>> = <<a, b, c, d>>
    BY Concat6And1, Concat3And1
  <2>. QED BY <2>1, <2>2, <2>3
<1>2. /\ a.ok <=> Is(Get(r, "name"), "dict")
      /\ a.into = "nameObject" /\ a.value = Get(r, "name") /\ ~a.resets
  BY RequireIs
<1>3. /\ b.ok <=> Is(Get(r, "state"), "integer")
      /\ b.into = "state" /\ b.value = Get(r, "state") /\ ~b.resets
  BY RequireIs
<1>4. /\ c.ok <=> ValidName(Get(r, "name"))
      /\ c.into = "nothing" /\ ~c.resets
  BY ValidIs
<1>5. /\ d.ok <=> Is(Get(Get(r, "name"), "generation"), "integer")
      /\ d.into = "generation" /\ d.value = Get(Get(r, "name"), "generation") /\ ~d.resets
  BY RequireIs
<1>. HIDE DEF a, b, c, d, chain
<1>6. Chain(chain)
  <2>1. <<a, b, c, d>> \in Seq({a, b, c, d})
    OBVIOUS
  <2>. QED BY <1>1, <2>1 DEF Chain
<1>7. /\ DOMAIN chain = 1..4 /\ chain[1] = a /\ chain[2] = b /\ chain[3] = c /\ chain[4] = d
  BY <1>1
<1>8. Tidy(chain)
  <2>1. ASSUME NEW i \in DOMAIN chain, NEW j \in DOMAIN chain,
               chain[i].into \in Fields, chain[j].into = chain[i].into
        PROVE  j = i
    <3>1. "nothing" \notin Fields
      BY DEF Fields, Flagged
    <3>. QED BY <1>2, <1>3, <1>4, <1>5, <1>7, <2>1, <3>1
  <2>2. ASSUME NEW i \in DOMAIN chain, chain[i].into \in Flagged,
               chain[i].ok, ~chain[i].resets
        PROVE  chain[i].value # NULL
    BY <1>2, <1>3, <1>4, <1>5, <1>7, <2>2 DEF Flagged, Is
  <2>. QED BY <1>6, <2>1, <2>2 DEF Tidy
<1>9. Into(chain) \subseteq {"nameObject", "state", "nothing", "generation"}
  BY <1>2, <1>3, <1>4, <1>5, <1>7 DEF Into
<1>10. AllOk(chain) <=>
           /\ Is(Get(r, "name"), "dict")
           /\ Is(Get(r, "state"), "integer")
           /\ ValidName(Get(r, "name"))
           /\ Is(Get(Get(r, "name"), "generation"), "integer")
  BY <1>2, <1>3, <1>4, <1>5, <1>7 DEF AllOk
<1>11. ASSUME NEW cut, Whole(chain, cut)
      PROVE  /\ Stored(chain, cut).nameObject = Get(r, "name")
             /\ Stored(chain, cut).generation = Get(Get(r, "name"), "generation")
             /\ Stored(chain, cut).state = Get(r, "state")
  <2>1. {"nameObject", "generation", "state"} \subseteq Fields
    BY DEF Fields, Flagged
  <2>2. Stored(chain, cut).nameObject = chain[1].value
    BY <1>2, <1>7, <1>8, <1>11, <2>1, TidyStored
  <2>3. Stored(chain, cut).generation = chain[4].value
    BY <1>5, <1>7, <1>8, <1>11, <2>1, TidyStored
  <2>4. Stored(chain, cut).state = chain[2].value
    BY <1>3, <1>7, <1>8, <1>11, <2>1, TidyStored
  <2>. QED BY <1>2, <1>3, <1>4, <1>5, <1>7, <2>2, <2>3, <2>4
<1>. QED BY <1>8, <1>9, <1>10, <1>11 DEF chain

LEMMA WrapperChain ==
    ASSUME NEW r
    PROVE  /\ Tidy(WrapperProbe(r))
           /\ Into(WrapperProbe(r)) \subseteq {"registration", "nothing"}
           /\ AllOk(WrapperProbe(r)) <=>
                  /\ Is(Get(r, "registration"), "dict")
                  /\ ValidRegistration(Get(r, "registration"))
           /\ \A cut : Whole(WrapperProbe(r), cut) =>
                  /\ Stored(WrapperProbe(r), cut).registration = Get(r, "registration")
<1>. DEFINE chain == WrapperProbe(r)
            a == Require(Get(r, "registration"), "dict", "registration")
            b == Valid(ValidRegistration(Get(r, "registration")))
<1>1. chain = <<a, b>>
  BY DEF WrapperProbe
<1>2. /\ a.ok <=> Is(Get(r, "registration"), "dict")
      /\ a.into = "registration" /\ a.value = Get(r, "registration") /\ ~a.resets
  BY RequireIs
<1>3. /\ b.ok <=> ValidRegistration(Get(r, "registration"))
      /\ b.into = "nothing" /\ ~b.resets
  BY ValidIs
<1>. HIDE DEF a, b, chain
<1>4. Chain(chain)
  <2>1. <<a, b>> \in Seq({a, b})
    OBVIOUS
  <2>. QED BY <1>1, <2>1 DEF Chain
<1>5. /\ DOMAIN chain = 1..2 /\ chain[1] = a /\ chain[2] = b
  BY <1>1
<1>6. Tidy(chain)
  <2>1. ASSUME NEW i \in DOMAIN chain, NEW j \in DOMAIN chain,
               chain[i].into \in Fields, chain[j].into = chain[i].into
        PROVE  j = i
    <3>1. "nothing" \notin Fields
      BY DEF Fields, Flagged
    <3>. QED BY <1>2, <1>3, <1>5, <2>1, <3>1
  <2>2. ASSUME NEW i \in DOMAIN chain, chain[i].into \in Flagged,
               chain[i].ok, ~chain[i].resets
        PROVE  chain[i].value # NULL
    BY <1>2, <1>3, <1>5, <2>2 DEF Flagged, Is
  <2>. QED BY <1>4, <2>1, <2>2 DEF Tidy
<1>7. Into(chain) \subseteq {"registration", "nothing"}
  BY <1>2, <1>3, <1>5 DEF Into
<1>8. AllOk(chain) <=>
          /\ Is(Get(r, "registration"), "dict")
          /\ ValidRegistration(Get(r, "registration"))
  BY <1>2, <1>3, <1>5 DEF AllOk
<1>9. ASSUME NEW cut, Whole(chain, cut)
      PROVE  Stored(chain, cut).registration = Get(r, "registration")
  <2>1. {"registration"} \subseteq Fields
    BY DEF Fields, Flagged
  <2>2. Stored(chain, cut).registration = chain[1].value
    BY <1>2, <1>5, <1>6, <1>9, <2>1, TidyStored
  <2>. QED BY <1>2, <1>3, <1>5, <2>2
<1>. QED BY <1>6, <1>7, <1>8, <1>9 DEF chain

LEMMA RegistrationChain ==
    ASSUME NEW r
    PROVE  /\ Tidy(<<Valid(ValidRegistration(r))>>)
           /\ Into(<<Valid(ValidRegistration(r))>>) \subseteq {"nothing"}
           /\ AllOk(<<Valid(ValidRegistration(r))>>) <=> ValidRegistration(r)
<1>. DEFINE chain == <<Valid(ValidRegistration(r))>>
            a == Valid(ValidRegistration(r))
<1>1. chain = <<a>>
  OBVIOUS
<1>2. /\ a.ok <=> ValidRegistration(r)
      /\ a.into = "nothing" /\ ~a.resets
  BY ValidIs
<1>. HIDE DEF a, chain
<1>3. Chain(chain)
  <2>1. <<a>> \in Seq({a})
    OBVIOUS
  <2>. QED BY <1>1, <2>1 DEF Chain
<1>4. /\ DOMAIN chain = 1..1 /\ chain[1] = a
  BY <1>1
<1>5. Tidy(chain)
  <2>1. ASSUME NEW i \in DOMAIN chain, NEW j \in DOMAIN chain,
               chain[i].into \in Fields, chain[j].into = chain[i].into
        PROVE  j = i
    <3>1. "nothing" \notin Fields
      BY DEF Fields, Flagged
    <3>. QED BY <1>2, <1>4, <2>1, <3>1
  <2>2. ASSUME NEW i \in DOMAIN chain, chain[i].into \in Flagged,
               chain[i].ok, ~chain[i].resets
        PROVE  chain[i].value # NULL
    BY <1>2, <1>4, <2>2 DEF Flagged, Is
  <2>. QED BY <1>3, <2>1, <2>2 DEF Tidy
<1>6. Into(chain) \subseteq {"nothing"}
  BY <1>2, <1>4 DEF Into
<1>7. AllOk(chain) <=> ValidRegistration(r)
  BY <1>2, <1>4 DEF AllOk
<1>. QED BY <1>5, <1>6, <1>7 DEF chain

LEMMA ValidityChain ==
    ASSUME NEW r
    PROVE  /\ Tidy(ValidityProbe(r))
           /\ Into(ValidityProbe(r)) \subseteq {"nothing", "valid"}
           /\ AllOk(ValidityProbe(r)) <=>
                  /\ Cardinality(DOMAIN r.dict) = 1
                  /\ (Get(r, "valid") = NULL \/ Is(Get(r, "valid"), "bool"))
                  /\ Get(r, "valid") # NULL
           /\ \A cut : Whole(ValidityProbe(r), cut) =>
                  /\ Stored(ValidityProbe(r), cut).valid = Get(r, "valid")
           /\ \A cut : Whole(ValidityProbe(r), cut) =>
                  /\ Get(r, "valid") # NULL => "valid" \in FlagsAfter(ValidityProbe(r), cut)
<1>. DEFINE chain == ValidityProbe(r)
            a == Test(Cardinality(DOMAIN r.dict) = 1, "none")
            b == Optional(Get(r, "valid"), "bool", "valid")
            c == Test(Get(r, "valid") # NULL, "none")
<1>1. chain = <<a, b, c>>
  BY DEF ValidityProbe
<1>2. /\ a.ok <=> Cardinality(DOMAIN r.dict) = 1
      /\ a.into = "nothing" /\ ~a.resets
  BY TestIs
<1>3. /\ b.ok <=> Get(r, "valid") = NULL \/ Is(Get(r, "valid"), "bool")
      /\ b.into = "valid" /\ b.value = Get(r, "valid") /\ b.resets
  BY OptionalIs
<1>4. /\ c.ok <=> Get(r, "valid") # NULL
      /\ c.into = "nothing" /\ ~c.resets
  BY TestIs
<1>. HIDE DEF a, b, c, chain
<1>5. Chain(chain)
  <2>1. <<a, b, c>> \in Seq({a, b, c})
    OBVIOUS
  <2>. QED BY <1>1, <2>1 DEF Chain
<1>6. /\ DOMAIN chain = 1..3 /\ chain[1] = a /\ chain[2] = b /\ chain[3] = c
  BY <1>1
<1>7. Tidy(chain)
  <2>1. ASSUME NEW i \in DOMAIN chain, NEW j \in DOMAIN chain,
               chain[i].into \in Fields, chain[j].into = chain[i].into
        PROVE  j = i
    <3>1. "nothing" \notin Fields
      BY DEF Fields, Flagged
    <3>. QED BY <1>2, <1>3, <1>4, <1>6, <2>1, <3>1
  <2>2. ASSUME NEW i \in DOMAIN chain, chain[i].into \in Flagged,
               chain[i].ok, ~chain[i].resets
        PROVE  chain[i].value # NULL
    BY <1>2, <1>3, <1>4, <1>6, <2>2 DEF Flagged, Is
  <2>. QED BY <1>5, <2>1, <2>2 DEF Tidy
<1>8. Into(chain) \subseteq {"nothing", "valid"}
  BY <1>2, <1>3, <1>4, <1>6 DEF Into
<1>9. AllOk(chain) <=>
          /\ Cardinality(DOMAIN r.dict) = 1
          /\ (Get(r, "valid") = NULL \/ Is(Get(r, "valid"), "bool"))
          /\ Get(r, "valid") # NULL
  BY <1>2, <1>3, <1>4, <1>6 DEF AllOk
<1>10. ASSUME NEW cut, Whole(chain, cut)
      PROVE  Stored(chain, cut).valid = Get(r, "valid")
  <2>1. {"valid"} \subseteq Fields
    BY DEF Fields, Flagged
  <2>2. Stored(chain, cut).valid = chain[2].value
    BY <1>3, <1>6, <1>7, <1>10, <2>1, TidyStored
  <2>. QED BY <1>2, <1>3, <1>4, <1>6, <2>2
<1>11. ASSUME NEW cut, Whole(chain, cut)
      PROVE  Get(r, "valid") # NULL => "valid" \in FlagsAfter(chain, cut)
  <2>1. {"valid"} \subseteq Flagged
    BY DEF Flagged
  <2>2. Get(r, "valid") # NULL => "valid" \in FlagsAfter(chain, cut)
    BY <1>3, <1>5, <1>6, <1>11, <2>1, FlagsFound
  <2>. QED BY <2>2
<1>. QED BY <1>7, <1>8, <1>9, <1>10, <1>11 DEF chain

LEMMA CapabilitiesChain ==
    ASSUME NEW r
    PROVE  /\ Tidy(CapabilitiesProbe(r))
           /\ Into(CapabilitiesProbe(r)) \subseteq {"nothing", "featureFlags"}
           /\ AllOk(CapabilitiesProbe(r)) <=>
                  /\ ValidCapabilities(r)
                  /\ Is(Get(r, "feature_flags"), "array")
           /\ \A cut : Whole(CapabilitiesProbe(r), cut) =>
                  /\ Stored(CapabilitiesProbe(r), cut).featureFlags = Get(r, "feature_flags")
<1>. DEFINE chain == CapabilitiesProbe(r)
            a == Valid(ValidCapabilities(r))
            b == Require(Get(r, "feature_flags"), "array", "featureFlags")
<1>1. chain = <<a, b>>
  BY DEF CapabilitiesProbe
<1>2. /\ a.ok <=> ValidCapabilities(r)
      /\ a.into = "nothing" /\ ~a.resets
  BY ValidIs
<1>3. /\ b.ok <=> Is(Get(r, "feature_flags"), "array")
      /\ b.into = "featureFlags" /\ b.value = Get(r, "feature_flags") /\ ~b.resets
  BY RequireIs
<1>. HIDE DEF a, b, chain
<1>4. Chain(chain)
  <2>1. <<a, b>> \in Seq({a, b})
    OBVIOUS
  <2>. QED BY <1>1, <2>1 DEF Chain
<1>5. /\ DOMAIN chain = 1..2 /\ chain[1] = a /\ chain[2] = b
  BY <1>1
<1>6. Tidy(chain)
  <2>1. ASSUME NEW i \in DOMAIN chain, NEW j \in DOMAIN chain,
               chain[i].into \in Fields, chain[j].into = chain[i].into
        PROVE  j = i
    <3>1. "nothing" \notin Fields
      BY DEF Fields, Flagged
    <3>. QED BY <1>2, <1>3, <1>5, <2>1, <3>1
  <2>2. ASSUME NEW i \in DOMAIN chain, chain[i].into \in Flagged,
               chain[i].ok, ~chain[i].resets
        PROVE  chain[i].value # NULL
    BY <1>2, <1>3, <1>5, <2>2 DEF Flagged, Is
  <2>. QED BY <1>4, <2>1, <2>2 DEF Tidy
<1>7. Into(chain) \subseteq {"nothing", "featureFlags"}
  BY <1>2, <1>3, <1>5 DEF Into
<1>8. AllOk(chain) <=>
          /\ ValidCapabilities(r)
          /\ Is(Get(r, "feature_flags"), "array")
  BY <1>2, <1>3, <1>5 DEF AllOk
<1>9. ASSUME NEW cut, Whole(chain, cut)
       PROVE  Stored(chain, cut).featureFlags = Get(r, "feature_flags")
  <2>1. {"featureFlags"} \subseteq Fields
    BY DEF Fields, Flagged
  <2>2. Stored(chain, cut).featureFlags = chain[2].value
    BY <1>2, <1>3, <1>5, <1>6, <1>9, <2>1, TidyStored
  <2>. QED BY <1>2, <1>3, <1>5, <2>2
<1>. QED BY <1>6, <1>7, <1>8, <1>9 DEF chain

LEMMA HealthChain ==
    ASSUME NEW r
    PROVE  /\ Tidy(HealthProbe(r))
           /\ Into(HealthProbe(r)) \subseteq {"nothing", "reasons", "health"}
           /\ AllOk(HealthProbe(r)) <=>
                  /\ ValidHealth(r)
                  /\ Is(Get(r, "reasons"), "array")
                  /\ Is(Get(r, "job_persistence"), "dict")
<1>. DEFINE chain == HealthProbe(r)
            a == Valid(ValidHealth(r))
            b == Require(Get(r, "reasons"), "array", "reasons")
            c == Require(Get(r, "job_persistence"), "dict", "health")
<1>1. chain = <<a, b, c>>
  BY DEF HealthProbe
<1>2. /\ a.ok <=> ValidHealth(r)
      /\ a.into = "nothing" /\ ~a.resets
  BY ValidIs
<1>3. /\ b.ok <=> Is(Get(r, "reasons"), "array")
      /\ b.into = "reasons" /\ b.value = Get(r, "reasons") /\ ~b.resets
  BY RequireIs
<1>4. /\ c.ok <=> Is(Get(r, "job_persistence"), "dict")
      /\ c.into = "health" /\ c.value = Get(r, "job_persistence") /\ ~c.resets
  BY RequireIs
<1>. HIDE DEF a, b, c, chain
<1>5. Chain(chain)
  <2>1. <<a, b, c>> \in Seq({a, b, c})
    OBVIOUS
  <2>. QED BY <1>1, <2>1 DEF Chain
<1>6. /\ DOMAIN chain = 1..3 /\ chain[1] = a /\ chain[2] = b /\ chain[3] = c
  BY <1>1
<1>7. Tidy(chain)
  <2>1. ASSUME NEW i \in DOMAIN chain, NEW j \in DOMAIN chain,
               chain[i].into \in Fields, chain[j].into = chain[i].into
        PROVE  j = i
    <3>1. "nothing" \notin Fields
      BY DEF Fields, Flagged
    <3>. QED BY <1>2, <1>3, <1>4, <1>6, <2>1, <3>1
  <2>2. ASSUME NEW i \in DOMAIN chain, chain[i].into \in Flagged,
               chain[i].ok, ~chain[i].resets
        PROVE  chain[i].value # NULL
    BY <1>2, <1>3, <1>4, <1>6, <2>2 DEF Flagged, Is
  <2>. QED BY <1>5, <2>1, <2>2 DEF Tidy
<1>8. Into(chain) \subseteq {"nothing", "reasons", "health"}
  BY <1>2, <1>3, <1>4, <1>6 DEF Into
<1>9. AllOk(chain) <=>
          /\ ValidHealth(r)
          /\ Is(Get(r, "reasons"), "array")
          /\ Is(Get(r, "job_persistence"), "dict")
  BY <1>2, <1>3, <1>4, <1>6 DEF AllOk
<1>. QED BY <1>7, <1>8, <1>9 DEF chain

LEMMA DiagnosticsChain ==
    ASSUME NEW r
    PROVE  /\ Tidy(DiagnosticsProbe(r))
           /\ Into(DiagnosticsProbe(r)) \subseteq
                  {"nothing", "daemon", "capabilities", "health", "notifyNames"}
           /\ AllOk(DiagnosticsProbe(r)) <=>
                  /\ ValidDiagnostics(r)
                  /\ Is(Get(r, "daemon"), "dict")
                  /\ Is(Get(r, "capabilities"), "dict")
                  /\ Is(Get(r, "health"), "dict")
                  /\ Is(Get(r, "notify_names"), "array")
           /\ \A cut : Whole(DiagnosticsProbe(r), cut) =>
                  /\ Stored(DiagnosticsProbe(r), cut).daemon = Get(r, "daemon")
<1>. DEFINE chain == DiagnosticsProbe(r)
            a == Valid(ValidDiagnostics(r))
            b == Require(Get(r, "daemon"), "dict", "daemon")
            c == Require(Get(r, "capabilities"), "dict", "capabilities")
            d == Require(Get(r, "health"), "dict", "health")
            e == Require(Get(r, "notify_names"), "array", "notifyNames")
<1>1. chain = <<a, b, c, d, e>>
  BY DEF DiagnosticsProbe
<1>2. /\ a.ok <=> ValidDiagnostics(r)
      /\ a.into = "nothing" /\ ~a.resets
  BY ValidIs
<1>3. /\ b.ok <=> Is(Get(r, "daemon"), "dict")
      /\ b.into = "daemon" /\ b.value = Get(r, "daemon") /\ ~b.resets
  BY RequireIs
<1>4. /\ c.ok <=> Is(Get(r, "capabilities"), "dict")
      /\ c.into = "capabilities" /\ c.value = Get(r, "capabilities") /\ ~c.resets
  BY RequireIs
<1>5. /\ d.ok <=> Is(Get(r, "health"), "dict")
      /\ d.into = "health" /\ d.value = Get(r, "health") /\ ~d.resets
  BY RequireIs
<1>6. /\ e.ok <=> Is(Get(r, "notify_names"), "array")
      /\ e.into = "notifyNames" /\ e.value = Get(r, "notify_names") /\ ~e.resets
  BY RequireIs
<1>. HIDE DEF a, b, c, d, e, chain
<1>7. Chain(chain)
  <2>1. <<a, b, c, d, e>> \in Seq({a, b, c, d, e})
    OBVIOUS
  <2>. QED BY <1>1, <2>1 DEF Chain
<1>8. /\ DOMAIN chain = 1..5 /\ chain[1] = a /\ chain[2] = b /\ chain[3] = c /\ chain[4] = d
      /\ chain[5] = e
  BY <1>1
<1>9. Tidy(chain)
  <2>1. ASSUME NEW i \in DOMAIN chain, NEW j \in DOMAIN chain,
               chain[i].into \in Fields, chain[j].into = chain[i].into
        PROVE  j = i
    <3>1. "nothing" \notin Fields
      BY DEF Fields, Flagged
    <3>. QED BY <1>2, <1>3, <1>4, <1>5, <1>6, <1>8, <2>1, <3>1
  <2>2. ASSUME NEW i \in DOMAIN chain, chain[i].into \in Flagged,
               chain[i].ok, ~chain[i].resets
        PROVE  chain[i].value # NULL
    BY <1>2, <1>3, <1>4, <1>5, <1>6, <1>8, <2>2 DEF Flagged, Is
  <2>. QED BY <1>7, <2>1, <2>2 DEF Tidy
<1>10. Into(chain) \subseteq {"nothing", "daemon", "capabilities", "health", "notifyNames"}
  BY <1>2, <1>3, <1>4, <1>5, <1>6, <1>8 DEF Into
<1>11. AllOk(chain) <=>
           /\ ValidDiagnostics(r)
           /\ Is(Get(r, "daemon"), "dict")
           /\ Is(Get(r, "capabilities"), "dict")
           /\ Is(Get(r, "health"), "dict")
           /\ Is(Get(r, "notify_names"), "array")
  BY <1>2, <1>3, <1>4, <1>5, <1>6, <1>8 DEF AllOk
<1>12. ASSUME NEW cut, Whole(chain, cut)
       PROVE  Stored(chain, cut).daemon = Get(r, "daemon")
  <2>1. {"daemon"} \subseteq Fields
    BY DEF Fields, Flagged
  <2>2. Stored(chain, cut).daemon = chain[2].value
    BY <1>2, <1>3, <1>8, <1>9, <1>12, <2>1, TidyStored
  <2>. QED BY <1>2, <1>3, <1>8, <2>2
<1>. QED BY <1>9, <1>10, <1>11, <1>12 DEF chain

\* The chains of the envelopes.
LEMMA RequestIs ==
    ASSUME NEW p
    PROVE  /\ Tidy(RequestChain(p))
           /\ Into(RequestChain(p)) \subseteq
                  {"protocolVersion", "nothing", "service", "method", "params"}
           /\ AllOk(RequestChain(p)) <=>
                  /\ Is(Get(p, "protocol_version"), "integer")
                  /\ Get(p, "protocol_version") = [integer |-> 1]
                  /\ Is(Get(p, "service"), "string")
                  /\ Is(Get(p, "method"), "string")
                  /\ Is(Get(p, "params"), "dict")
           /\ \A cut : Whole(RequestChain(p), cut) =>
                  /\ Stored(RequestChain(p), cut).service = Get(p, "service")
                  /\ Stored(RequestChain(p), cut).method = Get(p, "method")
                  /\ Stored(RequestChain(p), cut).params = Get(p, "params")
           /\ \A i \in DOMAIN RequestChain(p) : 
                  /\ RequestChain(p)[i].error # "none"
                  /\ RequestChain(p)[i].error = "unsupported_version" =>
                      i = 2 /\ (RequestChain(p)[1].ok =>
                          Is(Get(p, "protocol_version"), "integer"))
<1>. DEFINE chain == RequestChain(p)
            a == Require(Get(p, "protocol_version"), "integer", "protocolVersion")
            b == Test(Get(p, "protocol_version") = [integer |-> 1], "unsupported_version")
            c == Require(Get(p, "service"), "string", "service")
            d == Require(Get(p, "method"), "string", "method")
            e == Require(Get(p, "params"), "dict", "params")
<1>1. chain = <<a, b, c, d, e>>
  <2>1. Version(p) = <<a, b>>
    BY DEF Version
  <2>2. RequestChain(p) = Version(p) \o <<c, d, e>>
    BY DEF RequestChain
  <2>. HIDE DEF a, b, c, d, e
  <2>3. <<a, b>> \o <<c, d, e>> = <<a, b, c, d, e>>
    BY Concat2And3
  <2>. QED BY <2>1, <2>2, <2>3
<1>2. /\ a.ok <=> Is(Get(p, "protocol_version"), "integer")
      /\ a.into = "protocolVersion" /\ a.value = Get(p, "protocol_version") /\ ~a.resets
      /\ a.error = "missing_key"
  BY RequireIs
<1>3. /\ b.ok <=> Get(p, "protocol_version") = [integer |-> 1]
      /\ b.into = "nothing" /\ ~b.resets /\ b.error = "unsupported_version"
  BY TestIs
<1>4. /\ c.ok <=> Is(Get(p, "service"), "string")
      /\ c.into = "service" /\ c.value = Get(p, "service") /\ ~c.resets
      /\ c.error = "missing_key"
  BY RequireIs
<1>5. /\ d.ok <=> Is(Get(p, "method"), "string")
      /\ d.into = "method" /\ d.value = Get(p, "method") /\ ~d.resets
      /\ d.error = "missing_key"
  BY RequireIs
<1>6. /\ e.ok <=> Is(Get(p, "params"), "dict")
      /\ e.into = "params" /\ e.value = Get(p, "params") /\ ~e.resets
      /\ e.error = "missing_key"
  BY RequireIs
<1>. HIDE DEF a, b, c, d, e, chain
<1>7. Chain(chain)
  <2>1. <<a, b, c, d, e>> \in Seq({a, b, c, d, e})
    OBVIOUS
  <2>. QED BY <1>1, <2>1 DEF Chain
<1>8. /\ DOMAIN chain = 1..5 /\ chain[1] = a /\ chain[2] = b /\ chain[3] = c /\ chain[4] = d
      /\ chain[5] = e
  BY <1>1
<1>9. Tidy(chain)
  <2>1. ASSUME NEW i \in DOMAIN chain, NEW j \in DOMAIN chain,
               chain[i].into \in Fields, chain[j].into = chain[i].into
        PROVE  j = i
    <3>1. "nothing" \notin Fields
      BY DEF Fields, Flagged
    <3>. QED BY <1>2, <1>3, <1>4, <1>5, <1>6, <1>8, <2>1, <3>1
  <2>2. ASSUME NEW i \in DOMAIN chain, chain[i].into \in Flagged,
               chain[i].ok, ~chain[i].resets
        PROVE  chain[i].value # NULL
    BY <1>2, <1>3, <1>4, <1>5, <1>6, <1>8, <2>2 DEF Flagged, Is
  <2>. QED BY <1>7, <2>1, <2>2 DEF Tidy
<1>10. Into(chain) \subseteq {"protocolVersion", "nothing", "service", "method", "params"}
  BY <1>2, <1>3, <1>4, <1>5, <1>6, <1>8 DEF Into
<1>11. AllOk(chain) <=>
           /\ Is(Get(p, "protocol_version"), "integer")
           /\ Get(p, "protocol_version") = [integer |-> 1]
           /\ Is(Get(p, "service"), "string")
           /\ Is(Get(p, "method"), "string")
           /\ Is(Get(p, "params"), "dict")
  BY <1>2, <1>3, <1>4, <1>5, <1>6, <1>8 DEF AllOk
<1>12. ASSUME NEW cut, Whole(chain, cut)
      PROVE  /\ Stored(chain, cut).service = Get(p, "service")
             /\ Stored(chain, cut).method = Get(p, "method")
             /\ Stored(chain, cut).params = Get(p, "params")
  <2>1. {"service", "method", "params"} \subseteq Fields
    BY DEF Fields, Flagged
  <2>2. Stored(chain, cut).service = chain[3].value
    BY <1>4, <1>8, <1>9, <1>12, <2>1, TidyStored
  <2>3. Stored(chain, cut).method = chain[4].value
    BY <1>5, <1>8, <1>9, <1>12, <2>1, TidyStored
  <2>4. Stored(chain, cut).params = chain[5].value
    BY <1>6, <1>8, <1>9, <1>12, <2>1, TidyStored
  <2>. QED BY <1>2, <1>3, <1>4, <1>5, <1>6, <1>8, <2>2, <2>3, <2>4
<1>13. \A i \in DOMAIN chain : 
    /\ chain[i].error # "none"
    /\ chain[i].error = "unsupported_version" =>
        i = 2 /\ (chain[1].ok => Is(Get(p, "protocol_version"), "integer"))
  BY <1>2, <1>3, <1>4, <1>5, <1>6, <1>8
<1>. QED BY <1>9, <1>10, <1>11, <1>12, <1>13 DEF chain

LEMMA ResponseOk ==
    ASSUME NEW p, Get(p, "status") = [string |-> "ok"]
    PROVE  /\ Tidy(ResponseChain(p))
           /\ Into(ResponseChain(p)) \subseteq
                  {"protocolVersion", "nothing", "status", "result"}
           /\ AllOk(ResponseChain(p)) <=>
                  /\ Is(Get(p, "protocol_version"), "integer")
                  /\ Get(p, "protocol_version") = [integer |-> 1]
                  /\ Is(Get(p, "status"), "string")
                  /\ TRUE
                  /\ Get(p, "result") # NULL
           /\ \A cut : Whole(ResponseChain(p), cut) =>
                  /\ Stored(ResponseChain(p), cut).status = Get(p, "status")
                  /\ Stored(ResponseChain(p), cut).result = Get(p, "result")
           /\ \A i \in DOMAIN ResponseChain(p) : 
                  /\ ResponseChain(p)[i].error # "none"
                  /\ ResponseChain(p)[i].error = "unsupported_version" =>
                      i = 2 /\ (ResponseChain(p)[1].ok =>
                          Is(Get(p, "protocol_version"), "integer"))
<1>. DEFINE chain == ResponseChain(p)
            a == Require(Get(p, "protocol_version"), "integer", "protocolVersion")
            b == Test(Get(p, "protocol_version") = [integer |-> 1], "unsupported_version")
            c == Require(Get(p, "status"), "string", "status")
            d == Valid(TRUE)
            e == RequireValue(Get(p, "result"), "result")
<1>1. chain = <<a, b, c, d, e>>
  <2>1. Version(p) = <<a, b>>
    BY DEF Version
  <2>2. ResponseChain(p) = (Version(p) \o <<c, d>>) \o <<e>>
    BY DEF ResponseChain
  <2>. HIDE DEF a, b, c, d, e
  <2>3. <<a, b>> \o <<c, d>> = <<a, b, c, d>>
    BY Concat2And2
  <2>4. <<a, b, c, d>> \o <<e>> = <<a, b, c, d, e>>
    BY Concat4And1
  <2>. QED BY <2>1, <2>2, <2>3, <2>4
<1>2. /\ a.ok <=> Is(Get(p, "protocol_version"), "integer")
      /\ a.into = "protocolVersion" /\ a.value = Get(p, "protocol_version") /\ ~a.resets
      /\ a.error = "missing_key"
  BY RequireIs
<1>3. /\ b.ok <=> Get(p, "protocol_version") = [integer |-> 1]
      /\ b.into = "nothing" /\ ~b.resets /\ b.error = "unsupported_version"
  BY TestIs
<1>4. /\ c.ok <=> Is(Get(p, "status"), "string")
      /\ c.into = "status" /\ c.value = Get(p, "status") /\ ~c.resets
      /\ c.error = "missing_key"
  BY RequireIs
<1>5. /\ d.ok <=> TRUE
      /\ d.into = "nothing" /\ ~d.resets /\ d.error = "invalid_packet"
  BY ValidIs
<1>6. /\ e.ok <=> Get(p, "result") # NULL
      /\ e.into = "result" /\ e.value = Get(p, "result") /\ ~e.resets
      /\ e.error = "missing_key"
  BY RequireValueIs
<1>. HIDE DEF a, b, c, d, e, chain
<1>7. Chain(chain)
  <2>1. <<a, b, c, d, e>> \in Seq({a, b, c, d, e})
    OBVIOUS
  <2>. QED BY <1>1, <2>1 DEF Chain
<1>8. /\ DOMAIN chain = 1..5 /\ chain[1] = a /\ chain[2] = b /\ chain[3] = c /\ chain[4] = d
      /\ chain[5] = e
  BY <1>1
<1>9. Tidy(chain)
  <2>1. ASSUME NEW i \in DOMAIN chain, NEW j \in DOMAIN chain,
               chain[i].into \in Fields, chain[j].into = chain[i].into
        PROVE  j = i
    <3>1. "nothing" \notin Fields
      BY DEF Fields, Flagged
    <3>. QED BY <1>2, <1>3, <1>4, <1>5, <1>6, <1>8, <2>1, <3>1
  <2>2. ASSUME NEW i \in DOMAIN chain, chain[i].into \in Flagged,
               chain[i].ok, ~chain[i].resets
        PROVE  chain[i].value # NULL
    BY <1>2, <1>3, <1>4, <1>5, <1>6, <1>8, <2>2 DEF Flagged, Is
  <2>. QED BY <1>7, <2>1, <2>2 DEF Tidy
<1>10. Into(chain) \subseteq {"protocolVersion", "nothing", "status", "result"}
  BY <1>2, <1>3, <1>4, <1>5, <1>6, <1>8 DEF Into
<1>11. AllOk(chain) <=>
           /\ Is(Get(p, "protocol_version"), "integer")
           /\ Get(p, "protocol_version") = [integer |-> 1]
           /\ Is(Get(p, "status"), "string")
           /\ TRUE
           /\ Get(p, "result") # NULL
  BY <1>2, <1>3, <1>4, <1>5, <1>6, <1>8 DEF AllOk
<1>12. ASSUME NEW cut, Whole(chain, cut)
      PROVE  /\ Stored(chain, cut).status = Get(p, "status")
             /\ Stored(chain, cut).result = Get(p, "result")
  <2>1. {"status", "result"} \subseteq Fields
    BY DEF Fields, Flagged
  <2>2. Stored(chain, cut).status = chain[3].value
    BY <1>4, <1>8, <1>9, <1>12, <2>1, TidyStored
  <2>3. Stored(chain, cut).result = chain[5].value
    BY <1>6, <1>8, <1>9, <1>12, <2>1, TidyStored
  <2>. QED BY <1>2, <1>3, <1>4, <1>5, <1>6, <1>8, <2>2, <2>3
<1>13. \A i \in DOMAIN chain : 
    /\ chain[i].error # "none"
    /\ chain[i].error = "unsupported_version" =>
        i = 2 /\ (chain[1].ok => Is(Get(p, "protocol_version"), "integer"))
  BY <1>2, <1>3, <1>4, <1>5, <1>6, <1>8
<1>. QED BY <1>9, <1>10, <1>11, <1>12, <1>13 DEF chain

LEMMA ResponseError ==
    ASSUME NEW p, Get(p, "status") = [string |-> "error"]
    PROVE  /\ Tidy(ResponseChain(p))
           /\ Into(ResponseChain(p)) \subseteq {"protocolVersion", "nothing", "status",
                  "errorPayload", "errorCode", "errorMessage"}
           /\ AllOk(ResponseChain(p)) <=>
                  /\ Is(Get(p, "protocol_version"), "integer")
                  /\ Get(p, "protocol_version") = [integer |-> 1]
                  /\ Is(Get(p, "status"), "string")
                  /\ TRUE
                  /\ Is(Get(p, "error"), "dict")
                  /\ Is(Get(Get(p, "error"), "code"), "string")
                  /\ Is(Get(Get(p, "error"), "message"), "string")
           /\ \A cut : Whole(ResponseChain(p), cut) =>
                  /\ Stored(ResponseChain(p), cut).status = Get(p, "status")
                  /\ Stored(ResponseChain(p), cut).errorCode = Get(Get(p, "error"), "code")
                  /\ Stored(ResponseChain(p), cut).errorMessage = Get(Get(p, "error"), "message")
           /\ \A i \in DOMAIN ResponseChain(p) : 
                  /\ ResponseChain(p)[i].error # "none"
                  /\ ResponseChain(p)[i].error = "unsupported_version" =>
                      i = 2 /\ (ResponseChain(p)[1].ok =>
                          Is(Get(p, "protocol_version"), "integer"))
<1>. DEFINE chain == ResponseChain(p)
            a == Require(Get(p, "protocol_version"), "integer", "protocolVersion")
            b == Test(Get(p, "protocol_version") = [integer |-> 1], "unsupported_version")
            c == Require(Get(p, "status"), "string", "status")
            d == Valid(TRUE)
            e == Require(Get(p, "error"), "dict", "errorPayload")
            f == Require(Get(Get(p, "error"), "code"), "string", "errorCode")
            g == Require(Get(Get(p, "error"), "message"), "string", "errorMessage")
<1>1. chain = <<a, b, c, d, e, f, g>>
  <2>0. [string |-> "error"] # [string |-> "ok"]
    <3>1. [string |-> "error"].string # [string |-> "ok"].string
      OBVIOUS
    <3>. QED BY <3>1
  <2>1. Version(p) = <<a, b>>
    BY DEF Version
  <2>2. ResponseChain(p) = (Version(p) \o <<c, d>>) \o <<e, f, g>>
    BY <2>0 DEF ResponseChain
  <2>. HIDE DEF a, b, c, d, e, f, g
  <2>3. <<a, b>> \o <<c, d>> = <<a, b, c, d>>
    BY Concat2And2
  <2>4. <<a, b, c, d>> \o <<e, f, g>> = <<a, b, c, d, e, f, g>>
    BY Concat4And3
  <2>. QED BY <2>1, <2>2, <2>3, <2>4
<1>2. /\ a.ok <=> Is(Get(p, "protocol_version"), "integer")
      /\ a.into = "protocolVersion" /\ a.value = Get(p, "protocol_version") /\ ~a.resets
      /\ a.error = "missing_key"
  BY RequireIs
<1>3. /\ b.ok <=> Get(p, "protocol_version") = [integer |-> 1]
      /\ b.into = "nothing" /\ ~b.resets /\ b.error = "unsupported_version"
  BY TestIs
<1>4. /\ c.ok <=> Is(Get(p, "status"), "string")
      /\ c.into = "status" /\ c.value = Get(p, "status") /\ ~c.resets
      /\ c.error = "missing_key"
  BY RequireIs
<1>5. /\ d.ok <=> TRUE
      /\ d.into = "nothing" /\ ~d.resets /\ d.error = "invalid_packet"
  BY ValidIs
<1>6. /\ e.ok <=> Is(Get(p, "error"), "dict")
      /\ e.into = "errorPayload" /\ e.value = Get(p, "error") /\ ~e.resets
      /\ e.error = "missing_key"
  BY RequireIs
<1>7. /\ f.ok <=> Is(Get(Get(p, "error"), "code"), "string")
      /\ f.into = "errorCode" /\ f.value = Get(Get(p, "error"), "code") /\ ~f.resets
      /\ f.error = "missing_key"
  BY RequireIs
<1>8. /\ g.ok <=> Is(Get(Get(p, "error"), "message"), "string")
      /\ g.into = "errorMessage" /\ g.value = Get(Get(p, "error"), "message") /\ ~g.resets
      /\ g.error = "missing_key"
  BY RequireIs
<1>. HIDE DEF a, b, c, d, e, f, g, chain
<1>9. Chain(chain)
  <2>1. <<a, b, c, d, e, f, g>> \in Seq({a, b, c, d, e, f, g})
    OBVIOUS
  <2>. QED BY <1>1, <2>1 DEF Chain
<1>10. /\ DOMAIN chain = 1..7 /\ chain[1] = a /\ chain[2] = b /\ chain[3] = c /\ chain[4] = d
       /\ chain[5] = e /\ chain[6] = f /\ chain[7] = g
  BY <1>1
<1>11. Tidy(chain)
  <2>1. ASSUME NEW i \in DOMAIN chain, NEW j \in DOMAIN chain,
               chain[i].into \in Fields, chain[j].into = chain[i].into
        PROVE  j = i
    <3>1. "nothing" \notin Fields
      BY DEF Fields, Flagged
    <3>. QED BY <1>2, <1>3, <1>4, <1>5, <1>6, <1>7, <1>8, <1>10, <2>1, <3>1
  <2>2. ASSUME NEW i \in DOMAIN chain, chain[i].into \in Flagged,
               chain[i].ok, ~chain[i].resets
        PROVE  chain[i].value # NULL
    BY <1>2, <1>3, <1>4, <1>5, <1>6, <1>7, <1>8, <1>10, <2>2 DEF Flagged, Is
  <2>. QED BY <1>9, <2>1, <2>2 DEF Tidy
<1>12. Into(chain) \subseteq
           {"protocolVersion", "nothing", "status", "errorPayload", "errorCode", "errorMessage"}
  BY <1>2, <1>3, <1>4, <1>5, <1>6, <1>7, <1>8, <1>10 DEF Into
<1>13. AllOk(chain) <=>
           /\ Is(Get(p, "protocol_version"), "integer")
           /\ Get(p, "protocol_version") = [integer |-> 1]
           /\ Is(Get(p, "status"), "string")
           /\ TRUE
           /\ Is(Get(p, "error"), "dict")
           /\ Is(Get(Get(p, "error"), "code"), "string")
           /\ Is(Get(Get(p, "error"), "message"), "string")
  BY <1>2, <1>3, <1>4, <1>5, <1>6, <1>7, <1>8, <1>10 DEF AllOk
<1>14. ASSUME NEW cut, Whole(chain, cut)
       PROVE  /\ Stored(chain, cut).status = Get(p, "status")
              /\ Stored(chain, cut).errorCode = Get(Get(p, "error"), "code")
              /\ Stored(chain, cut).errorMessage = Get(Get(p, "error"), "message")
  <2>1. {"status", "errorCode", "errorMessage"} \subseteq Fields
    BY DEF Fields, Flagged
  <2>2. Stored(chain, cut).status = chain[3].value
    BY <1>4, <1>7, <1>8, <1>10, <1>11, <1>14, <2>1, TidyStored
  <2>3. Stored(chain, cut).errorCode = chain[6].value
    BY <1>4, <1>7, <1>8, <1>10, <1>11, <1>14, <2>1, TidyStored
  <2>4. Stored(chain, cut).errorMessage = chain[7].value
    BY <1>4, <1>7, <1>8, <1>10, <1>11, <1>14, <2>1, TidyStored
  <2>. QED BY <1>4, <1>7, <1>8, <1>10, <2>2, <2>3, <2>4
<1>15. \A i \in DOMAIN chain : 
    /\ chain[i].error # "none"
    /\ chain[i].error = "unsupported_version" =>
        i = 2 /\ (chain[1].ok => Is(Get(p, "protocol_version"), "integer"))
  BY <1>2, <1>3, <1>4, <1>5, <1>6, <1>7, <1>8, <1>10
<1>. QED BY <1>11, <1>12, <1>13, <1>14, <1>15 DEF chain

LEMMA ResponseOther ==
    ASSUME NEW p, Get(p, "status") \notin {[string |-> "ok"], [string |-> "error"]}
    PROVE  /\ Tidy(ResponseChain(p))
           /\ Into(ResponseChain(p)) \subseteq {"protocolVersion", "nothing", "status"}
           /\ AllOk(ResponseChain(p)) <=>
                  /\ Is(Get(p, "protocol_version"), "integer")
                  /\ Get(p, "protocol_version") = [integer |-> 1]
                  /\ Is(Get(p, "status"), "string")
                  /\ TRUE
                  /\ FALSE
           /\ \A i \in DOMAIN ResponseChain(p) : 
                  /\ ResponseChain(p)[i].error # "none"
                  /\ ResponseChain(p)[i].error = "unsupported_version" =>
                      i = 2 /\ (ResponseChain(p)[1].ok =>
                          Is(Get(p, "protocol_version"), "integer"))
<1>. DEFINE chain == ResponseChain(p)
            a == Require(Get(p, "protocol_version"), "integer", "protocolVersion")
            b == Test(Get(p, "protocol_version") = [integer |-> 1], "unsupported_version")
            c == Require(Get(p, "status"), "string", "status")
            d == Valid(TRUE)
            e == Test(FALSE, "invalid_packet")
<1>1. chain = <<a, b, c, d, e>>
  <2>1. Version(p) = <<a, b>>
    BY DEF Version
  <2>2. ResponseChain(p) = (Version(p) \o <<c, d>>) \o <<e>>
    BY DEF ResponseChain
  <2>. HIDE DEF a, b, c, d, e
  <2>3. <<a, b>> \o <<c, d>> = <<a, b, c, d>>
    BY Concat2And2
  <2>4. <<a, b, c, d>> \o <<e>> = <<a, b, c, d, e>>
    BY Concat4And1
  <2>. QED BY <2>1, <2>2, <2>3, <2>4
<1>2. /\ a.ok <=> Is(Get(p, "protocol_version"), "integer")
      /\ a.into = "protocolVersion" /\ a.value = Get(p, "protocol_version") /\ ~a.resets
      /\ a.error = "missing_key"
  BY RequireIs
<1>3. /\ b.ok <=> Get(p, "protocol_version") = [integer |-> 1]
      /\ b.into = "nothing" /\ ~b.resets /\ b.error = "unsupported_version"
  BY TestIs
<1>4. /\ c.ok <=> Is(Get(p, "status"), "string")
      /\ c.into = "status" /\ c.value = Get(p, "status") /\ ~c.resets
      /\ c.error = "missing_key"
  BY RequireIs
<1>5. /\ d.ok <=> TRUE
      /\ d.into = "nothing" /\ ~d.resets /\ d.error = "invalid_packet"
  BY ValidIs
<1>6. /\ e.ok <=> FALSE
      /\ e.into = "nothing" /\ ~e.resets /\ e.error = "invalid_packet"
  BY TestIs
<1>. HIDE DEF a, b, c, d, e, chain
<1>7. Chain(chain)
  <2>1. <<a, b, c, d, e>> \in Seq({a, b, c, d, e})
    OBVIOUS
  <2>. QED BY <1>1, <2>1 DEF Chain
<1>8. /\ DOMAIN chain = 1..5 /\ chain[1] = a /\ chain[2] = b /\ chain[3] = c /\ chain[4] = d
      /\ chain[5] = e
  BY <1>1
<1>9. Tidy(chain)
  <2>1. ASSUME NEW i \in DOMAIN chain, NEW j \in DOMAIN chain,
               chain[i].into \in Fields, chain[j].into = chain[i].into
        PROVE  j = i
    <3>1. "nothing" \notin Fields
      BY DEF Fields, Flagged
    <3>. QED BY <1>2, <1>3, <1>4, <1>5, <1>6, <1>8, <2>1, <3>1
  <2>2. ASSUME NEW i \in DOMAIN chain, chain[i].into \in Flagged,
               chain[i].ok, ~chain[i].resets
        PROVE  chain[i].value # NULL
    BY <1>2, <1>3, <1>4, <1>5, <1>6, <1>8, <2>2 DEF Flagged, Is
  <2>. QED BY <1>7, <2>1, <2>2 DEF Tidy
<1>10. Into(chain) \subseteq {"protocolVersion", "nothing", "status"}
  BY <1>2, <1>3, <1>4, <1>5, <1>6, <1>8 DEF Into
<1>11. AllOk(chain) <=>
           /\ Is(Get(p, "protocol_version"), "integer")
           /\ Get(p, "protocol_version") = [integer |-> 1]
           /\ Is(Get(p, "status"), "string")
           /\ TRUE
           /\ FALSE
  BY <1>2, <1>3, <1>4, <1>5, <1>6, <1>8 DEF AllOk
<1>12. \A i \in DOMAIN chain : 
    /\ chain[i].error # "none"
    /\ chain[i].error = "unsupported_version" =>
        i = 2 /\ (chain[1].ok => Is(Get(p, "protocol_version"), "integer"))
  BY <1>2, <1>3, <1>4, <1>5, <1>6, <1>8
<1>. QED BY <1>9, <1>10, <1>11, <1>12 DEF chain

\* The parameters of a route.
LEMMA ParamsIs ==
    ASSUME NEW p
    PROVE  /\ Tidy(Params(p))
           /\ Into(Params(p)) \subseteq {"name", "scope", "expectedSessionID",
                  "clientRegistrationID", "queueName", "token", "signal", "targetPID", "state",
                  "reuseExistingBinding"}
           /\ AllOk(Params(p)) <=>
                  /\ (Get(p, "name") = NULL \/ Is(Get(p, "name"), "string"))
                  /\ (Get(p, "scope") = NULL \/ Is(Get(p, "scope"), "string"))
                  /\ (Get(p, "expected_session_id") = NULL \/
                         Is(Get(p, "expected_session_id"), "string"))
                  /\ (Get(p, "client_registration_id") = NULL \/
                         Is(Get(p, "client_registration_id"), "string"))
                  /\ (Get(p, "queue_name") = NULL \/ Is(Get(p, "queue_name"), "string"))
                  /\ (Get(p, "token") = NULL \/ Is(Get(p, "token"), "integer"))
                  /\ (Get(p, "signal") = NULL \/ Is(Get(p, "signal"), "integer"))
                  /\ (Get(p, "target_pid") = NULL \/ Is(Get(p, "target_pid"), "integer"))
                  /\ (Get(p, "state") = NULL \/ Is(Get(p, "state"), "integer"))
                  /\ (Get(p, "reuse_existing_binding") = NULL \/
                         Is(Get(p, "reuse_existing_binding"), "bool"))
           /\ \A cut : Whole(Params(p), cut) =>
                  /\ Stored(Params(p), cut).expectedSessionID = Get(p, "expected_session_id")
                  /\ Stored(Params(p), cut).clientRegistrationID = Get(p, "client_registration_id")
                  /\ Stored(Params(p), cut).queueName = Get(p, "queue_name")
                  /\ Stored(Params(p), cut).name = Get(p, "name")
                  /\ Stored(Params(p), cut).scope = Get(p, "scope")
           /\ \A i \in DOMAIN Params(p) : Params(p)[i].error \notin {"none",
                  "unsupported_version"}
<1>. DEFINE chain == Params(p)
            a == Optional(Get(p, "name"), "string", "name")
            b == Optional(Get(p, "scope"), "string", "scope")
            c == Optional(Get(p, "expected_session_id"), "string", "expectedSessionID")
            d == Optional(Get(p, "client_registration_id"), "string", "clientRegistrationID")
            e == Optional(Get(p, "queue_name"), "string", "queueName")
            f == Optional(Get(p, "token"), "integer", "token")
            g == Optional(Get(p, "signal"), "integer", "signal")
            h == Optional(Get(p, "target_pid"), "integer", "targetPID")
            i == Optional(Get(p, "state"), "integer", "state")
            j == Optional(Get(p, "reuse_existing_binding"), "bool", "reuseExistingBinding")
<1>1. chain = <<a, b, c, d, e, f, g, h, i, j>>
  BY DEF Params
<1>2. /\ a.ok <=> Get(p, "name") = NULL \/ Is(Get(p, "name"), "string")
      /\ a.into = "name" /\ a.value = Get(p, "name") /\ a.resets /\ a.error = "invalid_packet"
  BY OptionalIs
<1>3. /\ b.ok <=> Get(p, "scope") = NULL \/ Is(Get(p, "scope"), "string")
      /\ b.into = "scope" /\ b.value = Get(p, "scope") /\ b.resets
      /\ b.error = "invalid_packet"
  BY OptionalIs
<1>4. /\ c.ok <=> Get(p, "expected_session_id") = NULL \/
             Is(Get(p, "expected_session_id"), "string")
      /\ c.into = "expectedSessionID" /\ c.value = Get(p, "expected_session_id") /\ c.resets
      /\ c.error = "invalid_packet"
  BY OptionalIs
<1>5. /\ d.ok <=> Get(p, "client_registration_id") = NULL \/
             Is(Get(p, "client_registration_id"), "string")
      /\ d.into = "clientRegistrationID" /\ d.value = Get(p, "client_registration_id")
      /\ d.resets /\ d.error = "invalid_packet"
  BY OptionalIs
<1>6. /\ e.ok <=> Get(p, "queue_name") = NULL \/ Is(Get(p, "queue_name"), "string")
      /\ e.into = "queueName" /\ e.value = Get(p, "queue_name") /\ e.resets
      /\ e.error = "invalid_packet"
  BY OptionalIs
<1>7. /\ f.ok <=> Get(p, "token") = NULL \/ Is(Get(p, "token"), "integer")
      /\ f.into = "token" /\ f.value = Get(p, "token") /\ f.resets
      /\ f.error = "invalid_packet"
  BY OptionalIs
<1>8. /\ g.ok <=> Get(p, "signal") = NULL \/ Is(Get(p, "signal"), "integer")
      /\ g.into = "signal" /\ g.value = Get(p, "signal") /\ g.resets
      /\ g.error = "invalid_packet"
  BY OptionalIs
<1>9. /\ h.ok <=> Get(p, "target_pid") = NULL \/ Is(Get(p, "target_pid"), "integer")
      /\ h.into = "targetPID" /\ h.value = Get(p, "target_pid") /\ h.resets
      /\ h.error = "invalid_packet"
  BY OptionalIs
<1>10. /\ i.ok <=> Get(p, "state") = NULL \/ Is(Get(p, "state"), "integer")
       /\ i.into = "state" /\ i.value = Get(p, "state") /\ i.resets
       /\ i.error = "invalid_packet"
  BY OptionalIs
<1>11. /\ j.ok <=> Get(p, "reuse_existing_binding") = NULL \/
              Is(Get(p, "reuse_existing_binding"), "bool")
       /\ j.into = "reuseExistingBinding" /\ j.value = Get(p, "reuse_existing_binding")
       /\ j.resets /\ j.error = "invalid_packet"
  BY OptionalIs
<1>. HIDE DEF a, b, c, d, e, f, g, h, i, j, chain
<1>12. Chain(chain)
  <2>1. <<a, b, c, d, e, f, g, h, i, j>> \in Seq({a, b, c, d, e, f, g, h, i, j})
    OBVIOUS
  <2>. QED BY <1>1, <2>1 DEF Chain
<1>13. /\ DOMAIN chain = 1..10 /\ chain[1] = a /\ chain[2] = b /\ chain[3] = c /\ chain[4] = d
       /\ chain[5] = e /\ chain[6] = f /\ chain[7] = g /\ chain[8] = h /\ chain[9] = i
       /\ chain[10] = j
  BY <1>1
<1>14. Tidy(chain)
  <2>1. ASSUME NEW m \in DOMAIN chain, NEW n \in DOMAIN chain,
               chain[m].into \in Fields, chain[n].into = chain[m].into
        PROVE  n = m
    BY <1>2, <1>3, <1>4, <1>5, <1>6, <1>7, <1>8, <1>9, <1>10, <1>11, <1>13, <2>1
  <2>2. ASSUME NEW m \in DOMAIN chain, chain[m].into \in Flagged,
               chain[m].ok, ~chain[m].resets
        PROVE  chain[m].value # NULL
    BY <1>2, <1>3, <1>4, <1>5, <1>6, <1>7, <1>8, <1>9, <1>10, <1>11, <1>13, <2>2 DEF Flagged, Is
  <2>. QED BY <1>12, <2>1, <2>2 DEF Tidy
<1>15. Into(chain) \subseteq {"name", "scope", "expectedSessionID", "clientRegistrationID",
           "queueName", "token", "signal", "targetPID", "state", "reuseExistingBinding"}
  BY <1>2, <1>3, <1>4, <1>5, <1>6, <1>7, <1>8, <1>9, <1>10, <1>11, <1>13 DEF Into
<1>16. AllOk(chain) <=>
           /\ (Get(p, "name") = NULL \/ Is(Get(p, "name"), "string"))
           /\ (Get(p, "scope") = NULL \/ Is(Get(p, "scope"), "string"))
           /\ (Get(p, "expected_session_id") = NULL \/
                  Is(Get(p, "expected_session_id"), "string"))
           /\ (Get(p, "client_registration_id") = NULL \/
                  Is(Get(p, "client_registration_id"), "string"))
           /\ (Get(p, "queue_name") = NULL \/ Is(Get(p, "queue_name"), "string"))
           /\ (Get(p, "token") = NULL \/ Is(Get(p, "token"), "integer"))
           /\ (Get(p, "signal") = NULL \/ Is(Get(p, "signal"), "integer"))
           /\ (Get(p, "target_pid") = NULL \/ Is(Get(p, "target_pid"), "integer"))
           /\ (Get(p, "state") = NULL \/ Is(Get(p, "state"), "integer"))
           /\ (Get(p, "reuse_existing_binding") = NULL \/
                  Is(Get(p, "reuse_existing_binding"), "bool"))
  BY <1>2, <1>3, <1>4, <1>5, <1>6, <1>7, <1>8, <1>9, <1>10, <1>11, <1>13 DEF AllOk
<1>17. \A m \in DOMAIN chain : chain[m].error \notin {"none", "unsupported_version"}
  BY <1>2, <1>3, <1>4, <1>5, <1>6, <1>7, <1>8, <1>9, <1>10, <1>11, <1>13
<1>18. ASSUME NEW cut, Whole(chain, cut)
       PROVE  /\ Stored(chain, cut).expectedSessionID = Get(p, "expected_session_id")
              /\ Stored(chain, cut).clientRegistrationID = Get(p, "client_registration_id")
              /\ Stored(chain, cut).queueName = Get(p, "queue_name")
              /\ Stored(chain, cut).name = Get(p, "name")
              /\ Stored(chain, cut).scope = Get(p, "scope")
  <2>1. {"expectedSessionID", "clientRegistrationID", "queueName", "name", "scope"} \subseteq Fields
    BY DEF Fields, Flagged
  <2>2. Stored(chain, cut).expectedSessionID = chain[3].value
    BY <1>2, <1>3, <1>4, <1>5, <1>6, <1>13, <1>14, <1>18, <2>1, TidyStored
  <2>3. Stored(chain, cut).clientRegistrationID = chain[4].value
    BY <1>2, <1>3, <1>4, <1>5, <1>6, <1>13, <1>14, <1>18, <2>1, TidyStored
  <2>4. Stored(chain, cut).queueName = chain[5].value
    BY <1>2, <1>3, <1>4, <1>5, <1>6, <1>13, <1>14, <1>18, <2>1, TidyStored
  <2>5. Stored(chain, cut).name = chain[1].value
    BY <1>2, <1>3, <1>4, <1>5, <1>6, <1>13, <1>14, <1>18, <2>1, TidyStored
  <2>6. Stored(chain, cut).scope = chain[2].value
    BY <1>2, <1>3, <1>4, <1>5, <1>6, <1>13, <1>14, <1>18, <2>1, TidyStored
  <2>. QED BY <1>2, <1>3, <1>4, <1>5, <1>6, <1>13, <2>2, <2>3, <2>4, <2>5, <2>6
<1>. QED BY <1>14, <1>15, <1>16, <1>17, <1>18 DEF chain

\* The lookups of an outcome.
LEMMA NameChainIs ==
    ASSUME NEW v
    PROVE  /\ Tidy(NameChain(v))
           /\ Into(NameChain(v)) \subseteq {"name", "scope"}
           /\ AllOk(NameChain(v)) <=>
                  /\ Is(Get(v, "name"), "string")
                  /\ Is(Get(v, "scope"), "string")
           /\ \A cut : Whole(NameChain(v), cut) =>
                  /\ Stored(NameChain(v), cut).name = Get(v, "name")
                  /\ Stored(NameChain(v), cut).scope = Get(v, "scope")
<1>. DEFINE chain == NameChain(v)
            a == Require(Get(v, "name"), "string", "name")
            b == Require(Get(v, "scope"), "string", "scope")
<1>1. chain = <<a, b>>
  BY DEF NameChain
<1>2. /\ a.ok <=> Is(Get(v, "name"), "string")
      /\ a.into = "name" /\ a.value = Get(v, "name") /\ ~a.resets
  BY RequireIs
<1>3. /\ b.ok <=> Is(Get(v, "scope"), "string")
      /\ b.into = "scope" /\ b.value = Get(v, "scope") /\ ~b.resets
  BY RequireIs
<1>. HIDE DEF a, b, chain
<1>4. Chain(chain)
  <2>1. <<a, b>> \in Seq({a, b})
    OBVIOUS
  <2>. QED BY <1>1, <2>1 DEF Chain
<1>5. /\ DOMAIN chain = 1..2 /\ chain[1] = a /\ chain[2] = b
  BY <1>1
<1>6. Tidy(chain)
  <2>1. ASSUME NEW i \in DOMAIN chain, NEW j \in DOMAIN chain,
               chain[i].into \in Fields, chain[j].into = chain[i].into
        PROVE  j = i
    BY <1>2, <1>3, <1>5, <2>1
  <2>2. ASSUME NEW i \in DOMAIN chain, chain[i].into \in Flagged,
               chain[i].ok, ~chain[i].resets
        PROVE  chain[i].value # NULL
    BY <1>2, <1>3, <1>5, <2>2 DEF Flagged, Is
  <2>. QED BY <1>4, <2>1, <2>2 DEF Tidy
<1>7. Into(chain) \subseteq {"name", "scope"}
  BY <1>2, <1>3, <1>5 DEF Into
<1>8. AllOk(chain) <=>
          /\ Is(Get(v, "name"), "string")
          /\ Is(Get(v, "scope"), "string")
  BY <1>2, <1>3, <1>5 DEF AllOk
<1>9. ASSUME NEW cut, Whole(chain, cut)
       PROVE  /\ Stored(chain, cut).name = Get(v, "name")
              /\ Stored(chain, cut).scope = Get(v, "scope")
  <2>1. {"name", "scope"} \subseteq Fields
    BY DEF Fields, Flagged
  <2>2. Stored(chain, cut).name = chain[1].value
    BY <1>2, <1>3, <1>5, <1>6, <1>9, <2>1, TidyStored
  <2>3. Stored(chain, cut).scope = chain[2].value
    BY <1>2, <1>3, <1>5, <1>6, <1>9, <2>1, TidyStored
  <2>. QED BY <1>2, <1>3, <1>5, <2>2, <2>3
<1>. QED BY <1>6, <1>7, <1>8, <1>9 DEF chain

LEMMA RegistrationViewIs ==
    ASSUME NEW v
    PROVE  /\ Tidy(RegistrationViewChain(v))
           /\ Into(RegistrationViewChain(v)) \subseteq {"viewToken", "sessionID", "scope",
                  "name", "bindingID", "bindingHandle", "lastSeenGeneration",
                  "firstCheckPending"}
           /\ AllOk(RegistrationViewChain(v)) <=>
                  /\ Is(Get(v, "token"), "integer")
                  /\ Is(Get(v, "session_id"), "string")
                  /\ Is(Get(v, "scope"), "string")
                  /\ Is(Get(v, "name"), "string")
                  /\ (Get(v, "local_transport_binding_id") = NULL \/
                         Is(Get(v, "local_transport_binding_id"), "string"))
                  /\ (Get(v, "local_transport_handle") = NULL \/
                         Is(Get(v, "local_transport_handle"), "string"))
                  /\ Is(Get(v, "last_seen_generation"), "integer")
                  /\ Is(Get(v, "first_check_pending"), "bool")
           /\ \A cut : Whole(RegistrationViewChain(v), cut) =>
                  /\ Stored(RegistrationViewChain(v), cut).viewToken = Get(v, "token")
                  /\ Stored(RegistrationViewChain(v), cut).sessionID = Get(v, "session_id")
                  /\ Stored(RegistrationViewChain(v), cut).scope = Get(v, "scope")
                  /\ Stored(RegistrationViewChain(v), cut).name = Get(v, "name")
                  /\ Stored(RegistrationViewChain(v), cut).bindingID =
                         Get(v, "local_transport_binding_id")
                  /\ Stored(RegistrationViewChain(v), cut).bindingHandle =
                         Get(v, "local_transport_handle")
           /\ \A i \in DOMAIN RegistrationViewChain(v) :
                  RegistrationViewChain(v)[i].error \notin {"none", "unsupported_version"}
<1>. DEFINE chain == RegistrationViewChain(v)
            a == Require(Get(v, "token"), "integer", "viewToken")
            b == Require(Get(v, "session_id"), "string", "sessionID")
            c == Require(Get(v, "scope"), "string", "scope")
            d == Require(Get(v, "name"), "string", "name")
            e == Optional(Get(v, "local_transport_binding_id"), "string", "bindingID")
            f == Optional(Get(v, "local_transport_handle"), "string", "bindingHandle")
            g == Require(Get(v, "last_seen_generation"), "integer", "lastSeenGeneration")
            h == Require(Get(v, "first_check_pending"), "bool", "firstCheckPending")
<1>1. chain = <<a, b, c, d, e, f, g, h>>
  BY DEF RegistrationViewChain
<1>2. /\ a.ok <=> Is(Get(v, "token"), "integer")
      /\ a.into = "viewToken" /\ a.value = Get(v, "token") /\ ~a.resets
      /\ a.error = "missing_key"
  BY RequireIs
<1>3. /\ b.ok <=> Is(Get(v, "session_id"), "string")
      /\ b.into = "sessionID" /\ b.value = Get(v, "session_id") /\ ~b.resets
      /\ b.error = "missing_key"
  BY RequireIs
<1>4. /\ c.ok <=> Is(Get(v, "scope"), "string")
      /\ c.into = "scope" /\ c.value = Get(v, "scope") /\ ~c.resets /\ c.error = "missing_key"
  BY RequireIs
<1>5. /\ d.ok <=> Is(Get(v, "name"), "string")
      /\ d.into = "name" /\ d.value = Get(v, "name") /\ ~d.resets /\ d.error = "missing_key"
  BY RequireIs
<1>6. /\ e.ok <=> Get(v, "local_transport_binding_id") = NULL \/
             Is(Get(v, "local_transport_binding_id"), "string")
      /\ e.into = "bindingID" /\ e.value = Get(v, "local_transport_binding_id") /\ e.resets
      /\ e.error = "invalid_packet"
  BY OptionalIs
<1>7. /\ f.ok <=> Get(v, "local_transport_handle") = NULL \/
             Is(Get(v, "local_transport_handle"), "string")
      /\ f.into = "bindingHandle" /\ f.value = Get(v, "local_transport_handle") /\ f.resets
      /\ f.error = "invalid_packet"
  BY OptionalIs
<1>8. /\ g.ok <=> Is(Get(v, "last_seen_generation"), "integer")
      /\ g.into = "lastSeenGeneration" /\ g.value = Get(v, "last_seen_generation") /\ ~g.resets
      /\ g.error = "missing_key"
  BY RequireIs
<1>9. /\ h.ok <=> Is(Get(v, "first_check_pending"), "bool")
      /\ h.into = "firstCheckPending" /\ h.value = Get(v, "first_check_pending") /\ ~h.resets
      /\ h.error = "missing_key"
  BY RequireIs
<1>. HIDE DEF a, b, c, d, e, f, g, h, chain
<1>10. Chain(chain)
  <2>1. <<a, b, c, d, e, f, g, h>> \in Seq({a, b, c, d, e, f, g, h})
    OBVIOUS
  <2>. QED BY <1>1, <2>1 DEF Chain
<1>11. /\ DOMAIN chain = 1..8 /\ chain[1] = a /\ chain[2] = b /\ chain[3] = c /\ chain[4] = d
       /\ chain[5] = e /\ chain[6] = f /\ chain[7] = g /\ chain[8] = h
  BY <1>1
<1>12. Tidy(chain)
  <2>1. ASSUME NEW i \in DOMAIN chain, NEW j \in DOMAIN chain,
               chain[i].into \in Fields, chain[j].into = chain[i].into
        PROVE  j = i
    BY <1>2, <1>3, <1>4, <1>5, <1>6, <1>7, <1>8, <1>9, <1>11, <2>1
  <2>2. ASSUME NEW i \in DOMAIN chain, chain[i].into \in Flagged,
               chain[i].ok, ~chain[i].resets
        PROVE  chain[i].value # NULL
    BY <1>2, <1>3, <1>4, <1>5, <1>6, <1>7, <1>8, <1>9, <1>11, <2>2 DEF Flagged, Is
  <2>. QED BY <1>10, <2>1, <2>2 DEF Tidy
<1>13. Into(chain) \subseteq {"viewToken", "sessionID", "scope", "name", "bindingID",
           "bindingHandle", "lastSeenGeneration", "firstCheckPending"}
  BY <1>2, <1>3, <1>4, <1>5, <1>6, <1>7, <1>8, <1>9, <1>11 DEF Into
<1>14. AllOk(chain) <=>
           /\ Is(Get(v, "token"), "integer")
           /\ Is(Get(v, "session_id"), "string")
           /\ Is(Get(v, "scope"), "string")
           /\ Is(Get(v, "name"), "string")
           /\ (Get(v, "local_transport_binding_id") = NULL \/
                  Is(Get(v, "local_transport_binding_id"), "string"))
           /\ (Get(v, "local_transport_handle") = NULL \/
                  Is(Get(v, "local_transport_handle"), "string"))
           /\ Is(Get(v, "last_seen_generation"), "integer")
           /\ Is(Get(v, "first_check_pending"), "bool")
  BY <1>2, <1>3, <1>4, <1>5, <1>6, <1>7, <1>8, <1>9, <1>11 DEF AllOk
<1>15. ASSUME NEW cut, Whole(chain, cut)
       PROVE  /\ Stored(chain, cut).viewToken = Get(v, "token")
              /\ Stored(chain, cut).sessionID = Get(v, "session_id")
              /\ Stored(chain, cut).scope = Get(v, "scope")
              /\ Stored(chain, cut).name = Get(v, "name")
              /\ Stored(chain, cut).bindingID = Get(v, "local_transport_binding_id")
              /\ Stored(chain, cut).bindingHandle = Get(v, "local_transport_handle")
  <2>1. {"viewToken", "sessionID", "scope", "name", "bindingID", "bindingHandle"} \subseteq Fields
    BY DEF Fields, Flagged
  <2>2. Stored(chain, cut).viewToken = chain[1].value
    BY <1>2, <1>3, <1>4, <1>5, <1>6, <1>7, <1>11, <1>12, <1>15, <2>1, TidyStored
  <2>3. Stored(chain, cut).sessionID = chain[2].value
    BY <1>2, <1>3, <1>4, <1>5, <1>6, <1>7, <1>11, <1>12, <1>15, <2>1, TidyStored
  <2>4. Stored(chain, cut).scope = chain[3].value
    BY <1>2, <1>3, <1>4, <1>5, <1>6, <1>7, <1>11, <1>12, <1>15, <2>1, TidyStored
  <2>5. Stored(chain, cut).name = chain[4].value
    BY <1>2, <1>3, <1>4, <1>5, <1>6, <1>7, <1>11, <1>12, <1>15, <2>1, TidyStored
  <2>6. Stored(chain, cut).bindingID = chain[5].value
    BY <1>2, <1>3, <1>4, <1>5, <1>6, <1>7, <1>11, <1>12, <1>15, <2>1, TidyStored
  <2>7. Stored(chain, cut).bindingHandle = chain[6].value
    BY <1>2, <1>3, <1>4, <1>5, <1>6, <1>7, <1>11, <1>12, <1>15, <2>1, TidyStored
  <2>. QED BY <1>2, <1>3, <1>4, <1>5, <1>6, <1>7, <1>11, <2>2, <2>3, <2>4, <2>5, <2>6, <2>7
<1>16. \A i \in DOMAIN chain : chain[i].error \notin {"none", "unsupported_version"}
  BY <1>2, <1>3, <1>4, <1>5, <1>6, <1>7, <1>8, <1>9, <1>11
<1>. QED BY <1>12, <1>13, <1>14, <1>15, <1>16 DEF chain

-----------------------------------------------------------------------------
(* What the chains mean.                                                   *)

LEMMA GetIs ==
    ASSUME NEW v, NEW key, Get(v, key) # NULL
    PROVE  Is(v, "dict") /\ v # NULL
BY DEF Get, Is

\* A registration and a name are dictionaries with these keys.
LEMMA RegistrationIs ==
    ASSUME NEW v, ValidRegistration(v)
    PROVE  /\ Is(v, "dict") /\ v # NULL
           /\ \A key \in {"scope", "name", "session_id"} : Is(Get(v, key), "string")
           /\ \A key \in {"token", "last_seen_generation"} : Is(Get(v, key), "integer")
           /\ \A key \in {"valid", "first_check_pending"} : Is(Get(v, key), "bool")
<1>1. Typed(v, RegistrationShape)
  BY DEF ValidRegistration
<1>2. /\ \A key \in {"scope", "name", "session_id"} : Is(Get(v, key), "string")
      /\ \A key \in {"token", "last_seen_generation"} : Is(Get(v, key), "integer")
      /\ \A key \in {"valid", "first_check_pending"} : Is(Get(v, key), "bool")
  BY <1>1 DEF Typed, RegistrationShape
<1>3. Get(v, "token") # NULL
  BY <1>2 DEF Is
<1>. QED BY <1>2, <1>3, GetIs

LEMMA NameIs ==
    ASSUME NEW v, ValidName(v)
    PROVE  /\ Is(v, "dict") /\ v # NULL
           /\ \A key \in {"scope", "name"} : Is(Get(v, key), "string")
           /\ \A key \in {"generation", "state"} : Is(Get(v, key), "integer")
<1>1. /\ \A key \in {"scope", "name"} : Is(Get(v, key), "string")
      /\ \A key \in {"generation", "state"} : Is(Get(v, key), "integer")
  BY DEF ValidName, Typed, NameShape
<1>2. Get(v, "name") # NULL
  BY <1>1 DEF Is
<1>. QED BY <1>1, <1>2, GetIs

\* A kind is found exactly in the objects that fit it, if no lookup is refused.
LEMMA ProbeFits ==
    ASSUME NEW r, Decoded(r), Is(r, "dict"), NEW k \in ProbeKinds
    PROVE  AllOk(Probe(k, r)) <=> Fits(k, r)
<1>. DEFINE reg == Get(r, "registration")
            nm == Get(r, "name")
<1>1. AllOk(CancelProbe(r)) <=> Fits("NotifyCancel", r)
  <2>1. Fits("NotifyCancel", r) <=> ValidRegistration(reg) /\ Is(Get(r, "canceled"), "bool")
    BY DEF Fits
  <2>2. ValidRegistration(reg) => Is(reg, "dict") /\ reg # NULL
    BY RegistrationIs
  <2>3. Is(Get(r, "canceled"), "bool") => Get(r, "canceled") # NULL
    BY DEF Is
  <2>. QED BY CancelChain, <2>1, <2>2, <2>3
<1>2. AllOk(CheckProbe(r)) <=> Fits("NotifyCheck", r)
  <2>1. Fits("NotifyCheck", r) <=>
         /\ ValidRegistration(reg)
         /\ Is(Get(r, "generation"), "integer") /\ Is(Get(r, "current_state"), "integer")
         /\ Is(Get(r, "changed"), "bool")
    BY DEF Fits, Typed
  <2>2. ValidRegistration(reg) => Is(reg, "dict") /\ reg # NULL
    BY RegistrationIs
  <2>3. /\ Is(Get(r, "generation"), "integer") => Get(r, "generation") # NULL
        /\ Is(Get(r, "current_state"), "integer") => Get(r, "current_state") # NULL
        /\ Is(Get(r, "changed"), "bool") => Get(r, "changed") # NULL
    BY DEF Is
  <2>. QED BY CheckChain, <2>1, <2>2, <2>3
<1>3. AllOk(PostProbe(r)) <=> Fits("NotifyPost", r)
  <2>1. Fits("NotifyPost", r) <=>
         /\ ValidName(nm)
         /\ Is(Get(r, "generation"), "integer") /\ Is(Get(r, "delivered_tokens"), "array")
         /\ Is(Get(r, "posted_at"), "date")
    BY DEF Fits, Typed
  <2>2. ValidName(nm) => Is(nm, "dict")
    BY NameIs
  <2>3. Is(Get(r, "posted_at"), "date") => Get(r, "posted_at") # NULL
    BY DEF Is
  <2>. QED BY PostChain, <2>1, <2>2, <2>3
<1>4. AllOk(NameStateProbe(r)) <=> Fits("NotifyNameState", r)
  <2>1. Fits("NotifyNameState", r) <=> ValidName(nm) /\ Is(Get(r, "state"), "integer")
    BY DEF Fits
  <2>2. ValidName(nm) => Is(nm, "dict")
    BY NameIs
  <2>. QED BY NameStateChain, <2>1, <2>2
<1>5. AllOk(WrapperProbe(r)) <=> Fits("NotifyRegistrationWrapper", r)
  <2>1. Fits("NotifyRegistrationWrapper", r) <=> ValidRegistration(reg)
    BY DEF Fits
  <2>. QED BY WrapperChain, RegistrationIs, <2>1
<1>6. AllOk(<<Valid(ValidRegistration(r))>>) <=> Fits("NotifyRegistration", r)
  <2>1. Fits("NotifyRegistration", r) <=> ValidRegistration(r)
    BY DEF Fits
  <2>. QED BY RegistrationChain, <2>1
<1>7. AllOk(ValidityProbe(r)) <=> Fits("NotifyValidity", r)
  <2>1. Fits("NotifyValidity", r) <=> DOMAIN r.dict = {"valid"} /\ Is(Get(r, "valid"), "bool")
    BY DEF Fits
  <2>2. Is(Get(r, "valid"), "bool") => Get(r, "valid") # NULL /\ "valid" \in DOMAIN r.dict
    BY DEF Get, Is
  <2>3. IsFiniteSet(DOMAIN r.dict)
    BY DEF Decoded
  <2>4. Cardinality(DOMAIN r.dict) = 1 <=> \E x : DOMAIN r.dict = {x}
    BY <2>3, FS_Singleton, Zenon
  <2>. HIDE DEF Decoded
  <2>. QED BY ValidityChain, <2>1, <2>2, <2>4
<1>8. AllOk(CapabilitiesProbe(r)) <=> Fits("ControlCapabilities", r)
  <2>1. Fits("ControlCapabilities", r) <=> ValidCapabilities(r)
    BY DEF Fits
  <2>2. ValidCapabilities(r) => Is(Get(r, "feature_flags"), "array")
    BY DEF ValidCapabilities
  <2>. QED BY CapabilitiesChain, <2>1, <2>2
<1>9. AllOk(HealthProbe(r)) <=> Fits("ControlHealth", r)
  <2>1. Fits("ControlHealth", r) <=> ValidHealth(r)
    BY DEF Fits
  <2>2. ASSUME ValidHealth(r) PROVE Is(Get(r, "job_persistence"), "dict")
    <3>1. Is(Get(Get(r, "job_persistence"), "state"), "string")
      BY <2>2 DEF ValidHealth, Typed, OutputStatusShape
    <3>. QED BY <3>1, GetIs DEF Is
  <2>3. ValidHealth(r) => Is(Get(r, "reasons"), "array")
    BY DEF ValidHealth
  <2>. QED BY HealthChain, <2>1, <2>2, <2>3
<1>10. AllOk(DiagnosticsProbe(r)) <=> Fits("DiagnosticsSnapshot", r)
  <2>1. Fits("DiagnosticsSnapshot", r) <=> ValidDiagnostics(r)
    BY DEF Fits
  <2>2. ASSUME ValidDiagnostics(r)
        PROVE  /\ \A key \in {"daemon", "capabilities", "health"} : Is(Get(r, key), "dict")
               /\ Is(Get(r, "notify_names"), "array")
    <3>1. Is(Get(Get(r, "daemon"), "daemon_id"), "string")
      BY <2>2 DEF ValidDiagnostics, Typed, DaemonShape
    <3>2. Is(Get(Get(r, "health"), "reasons"), "array")
      BY <2>2 DEF ValidDiagnostics, ValidHealth
    <3>3. Is(Get(Get(r, "capabilities"), "feature_flags"), "array")
      BY <2>2 DEF ValidDiagnostics, ValidCapabilities
    <3>4. Is(Get(r, "notify_names"), "array")
      BY <2>2 DEF ValidDiagnostics, ValidNames
    <3>. QED BY <3>1, <3>2, <3>3, <3>4, GetIs DEF Is
  <2>. QED BY DiagnosticsChain, <2>1, <2>2
<1>11. AllOk(<<>>) <=> Fits("GenericObject", r)
  BY DEF AllOk, Fits
<1>12. k \in {"NotifyCancel", "NotifyCheck", "NotifyPost", "NotifyNameState",
              "NotifyRegistrationWrapper", "NotifyRegistration", "NotifyValidity",
              "ControlCapabilities", "ControlHealth", "DiagnosticsSnapshot",
              "GenericObject"}
  BY DEF ProbeKinds, ProbeOrder
<1>. QED
  BY <1>1, <1>2, <1>3, <1>4, <1>5, <1>6, <1>7, <1>8, <1>9, <1>10, <1>11, <1>12 DEF Probe

ProbeFields ==
    {"registration", "canceled", "generation", "currentState", "changed", "nameObject",
     "deliveredTokens", "state", "valid", "featureFlags", "reasons", "health", "daemon",
     "capabilities", "notifyNames", "nothing"}

LEMMA ProbeIs ==
    ASSUME NEW r, NEW k \in ProbeKinds
    PROVE  Tidy(Probe(k, r)) /\ Into(Probe(k, r)) \subseteq ProbeFields
<1>1. Tidy(<<>>) /\ Into(<<>>) \subseteq ProbeFields
  <2>1. <<>> \in Seq({})
    OBVIOUS
  <2>. QED BY <2>1 DEF Tidy, Chain, Into
<1>2. k \in {"NotifyCancel", "NotifyCheck", "NotifyPost", "NotifyNameState",
              "NotifyRegistrationWrapper", "NotifyRegistration", "NotifyValidity",
              "ControlCapabilities", "ControlHealth", "DiagnosticsSnapshot",
              "GenericObject"}
  BY DEF ProbeKinds, ProbeOrder
<1>3. CASE k = "NotifyCancel"
  BY <1>3, CancelChain DEF Probe, ProbeFields
<1>4. CASE k = "NotifyCheck"
  BY <1>4, CheckChain DEF Probe, ProbeFields
<1>5. CASE k = "NotifyPost"
  BY <1>5, PostChain DEF Probe, ProbeFields
<1>6. CASE k = "NotifyNameState"
  BY <1>6, NameStateChain DEF Probe, ProbeFields
<1>7. CASE k = "NotifyRegistrationWrapper"
  BY <1>7, WrapperChain DEF Probe, ProbeFields
<1>8. CASE k = "NotifyRegistration"
  BY <1>8, RegistrationChain DEF Probe, ProbeFields
<1>9. CASE k = "NotifyValidity"
  BY <1>9, ValidityChain DEF Probe, ProbeFields
<1>10. CASE k = "ControlCapabilities"
  BY <1>10, CapabilitiesChain DEF Probe, ProbeFields
<1>11. CASE k = "ControlHealth"
  BY <1>11, HealthChain DEF Probe, ProbeFields
<1>12. CASE k = "DiagnosticsSnapshot"
  BY <1>12, DiagnosticsChain DEF Probe, ProbeFields
<1>13. CASE k = "GenericObject"
  BY <1>1, <1>13 DEF Probe
<1>. QED
  BY <1>2, <1>3, <1>4, <1>5, <1>6, <1>7, <1>8, <1>9, <1>10, <1>11, <1>12, <1>13

LEMMA OneLookup ==
    ASSUME NEW l
    PROVE  Chain(<<l>>) /\ (AllOk(<<l>>) <=> l.ok)
<1>. DEFINE c == <<l>>
<1>1. c \in Seq({l}) /\ DOMAIN c = 1..1 /\ c[1] = l
  OBVIOUS
<1>. HIDE DEF c
<1>2. Chain(c) /\ (AllOk(c) <=> l.ok)
  BY <1>1 DEF Chain, AllOk
<1>. QED BY <1>2 DEF c

\* What fits a kind passes the lookups that follow.
LEMMA FollowUpFits ==
    ASSUME NEW r, NEW k, Fits(k, r)
    PROVE  Chain(FollowUp(k, r)) /\ AllOk(FollowUp(k, r))
<1>. DEFINE nm == Get(r, "name")
            state == Require(Get(nm, "state"), "integer", "state")
            generation == Require(Get(nm, "generation"), "integer", "generation")
<1>1. CASE k = "NotifyPost"
  <2>1. ValidName(nm)
    BY <1>1 DEF Fits
  <2>2. state.ok
    BY <2>1, NameIs, RequireIs
  <2>3. FollowUp(k, r) = <<state>>
    BY <1>1 DEF FollowUp
  <2>. HIDE DEF state
  <2>. QED BY <2>2, <2>3, OneLookup
<1>2. CASE k = "NotifyNameState"
  <2>1. ValidName(nm)
    BY <1>2 DEF Fits
  <2>2. generation.ok
    BY <2>1, NameIs, RequireIs
  <2>3. FollowUp(k, r) = <<generation>>
    BY <1>2 DEF FollowUp
  <2>. HIDE DEF generation
  <2>. QED BY <2>2, <2>3, OneLookup
<1>3. CASE k \notin {"NotifyPost", "NotifyNameState"}
  <2>1. FollowUp(k, r) = <<>>
    BY <1>3 DEF FollowUp
  <2>2. <<>> \in Seq({})
    OBVIOUS
  <2>. QED BY <2>1, <2>2 DEF Chain, AllOk
<1>. QED BY <1>1, <1>2, <1>3

\* The envelope is passed by the packets it should take, unless memory runs out.
LEMMA EnvelopeIs ==
    ASSUME call \in Calls
    PROVE  /\ Chain(Envelope)
           /\ AllOk(Envelope) <=> Envelopes(call, root)
           /\ \A i \in DOMAIN Envelope :
                /\ Envelope[i].error # "none"
                /\ Envelope[i].error = "unsupported_version" =>
                    i = 2 /\ (Envelope[1].ok => Is(Get(root, "protocol_version"), "integer"))
<1>. DEFINE pv == Get(root, "protocol_version")
            status == Get(root, "status")
<1>1. pv = [integer |-> 1] => Is(pv, "integer")
  BY NullIsNoValue DEF Is
<1>2. CASE call \in {"request", "route"}
  <2>1. Envelope = RequestChain(root)
    BY <1>2 DEF Envelope
  <2>2. Envelopes(call, root) <=>
         /\ pv = [integer |-> 1]
         /\ Is(Get(root, "service"), "string") /\ Is(Get(root, "method"), "string")
         /\ Is(Get(root, "params"), "dict")
    BY <1>2 DEF Envelopes, Typed
  <2>3. Tidy(RequestChain(root)) =>  Chain(RequestChain(root))
    BY DEF Tidy
  <2>. QED BY <1>1, <2>1, <2>2, <2>3, RequestIs
<1>3. CASE call \notin {"request", "route"}
  <2>1. Envelope = ResponseChain(root)
    BY <1>3 DEF Envelope
  <2>2. Envelopes(call, root) <=>
         /\ pv = [integer |-> 1]
         /\ \/ status = [string |-> "ok"] /\ Get(root, "result") # NULL
            \/ /\ status = [string |-> "error"]
               /\ Is(Get(Get(root, "error"), "code"), "string")
               /\ Is(Get(Get(root, "error"), "message"), "string")
    BY <1>3 DEF Envelopes, Typed
  <2>3. [string |-> "ok"] # [string |-> "error"]
    <3>1. [string |-> "error"].string # [string |-> "ok"].string
      OBVIOUS
    <3>. QED BY <3>1
  <2>4. Tidy(ResponseChain(root)) => Chain(ResponseChain(root))
    BY DEF Tidy
  <2>5. status \in {[string |-> "ok"], [string |-> "error"]} => Is(status, "string")
    BY NullIsNoValue DEF Is
  <2>6. Is(Get(Get(root, "error"), "code"), "string") => Is(Get(root, "error"), "dict")
    BY GetIs DEF Is
  <2>7. CASE status = [string |-> "ok"]
    BY <1>1, <2>1, <2>2, <2>3, <2>4, <2>5, <2>7, ResponseOk
  <2>8. CASE status = [string |-> "error"]
    BY <1>1, <2>1, <2>2, <2>3, <2>4, <2>5, <2>6, <2>8, ResponseError
  <2>9. CASE status \notin {[string |-> "ok"], [string |-> "error"]}
    BY <1>1, <2>1, <2>2, <2>4, <2>9, ResponseOther
  <2>. QED BY <2>7, <2>8, <2>9
<1>. QED BY <1>2, <1>3

LEMMA EnvelopeStored ==
    ASSUME call \in Calls, NEW cut \in Cuts(Envelope), Whole(Envelope, cut), view = Empty
    PROVE  LET s == Stored(Envelope, cut) IN
           /\ Envelopes(call, root)
           /\ call \in {"request", "route"} =>
                /\ s.service = Get(root, "service") /\ s.method = Get(root, "method")
                /\ s.params = Get(root, "params")
           /\ call \notin {"request", "route"} =>
                /\ s.status = Get(root, "status")
                /\ s.result = IF Get(root, "status") = [string |-> "ok"]
                              THEN Get(root, "result") ELSE NULL
                /\ Get(root, "status") = [string |-> "error"] =>
                    /\ s.errorCode = Get(Get(root, "error"), "code")
                    /\ s.errorMessage = Get(Get(root, "error"), "message")
<1>. DEFINE status == Get(root, "status")
<1>1. Envelopes(call, root)
  BY EnvelopeIs, WholeIff
<1>2. CASE call \in {"request", "route"}
  <2>1. Envelope = RequestChain(root)
    BY <1>2 DEF Envelope
  <2>. QED BY <1>1, <1>2, <2>1, RequestIs
<1>3. CASE call \notin {"request", "route"}
  <2>1. Envelope = ResponseChain(root)
    BY <1>3 DEF Envelope
  <2>2. status \in {[string |-> "ok"], [string |-> "error"]}
    BY <1>1, <1>3 DEF Envelopes
  <2>3. [string |-> "ok"] # [string |-> "error"]
    <3>1. [string |-> "error"].string # [string |-> "ok"].string
      OBVIOUS
    <3>. QED BY <3>1
  <2>4. CASE status = [string |-> "ok"]
    BY <1>1, <1>3, <2>1, <2>3, <2>4, ResponseOk
  <2>5. CASE status = [string |-> "error"]
    <3>1. Stored(Envelope, cut).status = status /\ Into(Envelope) \subseteq
            {"protocolVersion", "nothing", "status", "errorPayload", "errorCode",
                "errorMessage"}
      BY <2>1, <2>5, ResponseError
    <3>2. "result" \in Fields \ Into(Envelope)
      BY <3>1 DEF Fields
    <3>3. Stored(Envelope, cut).result = view.result
      BY <3>2, StoredElse
    <3>4. view.result = NULL
      BY DEF Empty, Fields
    <3>5. /\ Stored(Envelope, cut).errorCode = Get(Get(root, "error"), "code")
          /\ Stored(Envelope, cut).errorMessage = Get(Get(root, "error"), "message")
      BY <2>1, <2>5, ResponseError
    <3>. QED BY <1>1, <1>3, <2>3, <2>5, <3>1, <3>3, <3>4, <3>5
  <2>. QED BY <2>2, <2>4, <2>5
<1>. QED BY <1>2, <1>3

LEMMA ParamsMean == ASSUME NEW v PROVE AllOk(Params(v)) <=> TypedParams(v)
<1>. DEFINE May(key, type) == Get(v, key) = NULL \/ Is(Get(v, key), type)
<1>1. TypedParams(v) <=>
       /\ May("name", "string") /\ May("scope", "string") /\ May("expected_session_id",
              "string")
       /\ May("client_registration_id", "string") /\ May("queue_name", "string")
       /\ May("token", "integer") /\ May("signal", "integer") /\ May("target_pid", "integer")
       /\ May("state", "integer") /\ May("reuse_existing_binding", "bool")
  BY Zenon DEF TypedParams
<1>. QED BY <1>1, ParamsIs

\* A lookup that stops a chain is one of its lookups; if it is the second, the
\* first has succeeded.
LEMMA StopIn ==
    ASSUME NEW c, Chain(c), NEW cut, ~Whole(c, cut)
    PROVE  Stop(c, cut) \in DOMAIN c /\ (Stop(c, cut) = 2 => c[1].ok)
<1>. DEFINE done == Succeeded(c, cut)
<1>1. PICK n \in Nat : DOMAIN c = 1..n
  <2>1. PICK S : c \in Seq(S)
    BY DEF Chain
  <2>. QED BY <2>1
<1>2. done \subseteq 1..n /\ done # 1..n
  BY <1>1 DEF Succeeded, Whole
<1>3. IsFiniteSet(1..n) /\ Cardinality(1..n) = n
  <2>1. 1 \in Int /\ n \in Int
    BY <1>1
  <2>2. IsFiniteSet(1..n) /\ Cardinality(1..n) = IF 1 > n THEN 0 ELSE n - 1 + 1
    BY <2>1, FS_Interval, Zenon
  <2>. QED BY <1>1, <2>2
<1>4. Cardinality(done) \in Nat /\ Cardinality(done) < n
  <2>1. IsFiniteSet(done) /\ Cardinality(done) <= n /\ Cardinality(done) # n
    BY <1>2, <1>3, FS_Subset
  <2>2. Cardinality(done) \in Nat
    BY <2>1, FS_CardinalityType
  <2>. QED BY <1>1, <2>1, <2>2
<1>5. Stop(c, cut) \in DOMAIN c
  BY <1>1, <1>4 DEF Stop
<1>6. ASSUME Stop(c, cut) = 2 PROVE c[1].ok
  <2>1. done # {}
    <3>1. Cardinality(done) = 1
      BY <1>4, <1>6 DEF Stop
    <3>. QED BY <3>1, FS_EmptySet
  <2>2. PICK i \in done : TRUE
    BY <2>1
  <2>3. i \in 1..n /\ \A j \in 1..i : c[j].ok
    BY <1>1 DEF Succeeded
  <2>. QED BY <1>1, <2>3
<1>. QED BY <1>5, <1>6

LEMMA EnvelopeError ==
    ASSUME call \in Calls, NEW cut \in Cuts(Envelope), ~Whole(Envelope, cut)
    PROVE  /\ ErrorOf(Envelope, cut) # "none"
           /\ ErrorOf(Envelope, cut) = "unsupported_version" =>
                Is(Get(root, "protocol_version"), "integer")
           /\ Envelopes(call, root) => Refuses(Envelope, cut)
<1>1. Chain(Envelope) /\ (AllOk(Envelope) <=> Envelopes(call, root))
  BY EnvelopeIs
<1>2. Stop(Envelope, cut) \in DOMAIN Envelope /\ (Stop(Envelope, cut) = 2 => Envelope[1].ok)
  BY <1>1, StopIn
<1>3. CASE Refuses(Envelope, cut)
  BY <1>3 DEF ErrorOf
<1>4. CASE ~Refuses(Envelope, cut)
  <2>1. ErrorOf(Envelope, cut) = Envelope[Stop(Envelope, cut)].error
    BY <1>4 DEF ErrorOf
  <2>2. ~Envelopes(call, root)
    BY <1>1, <1>4, RefusedOrFails
  <2>. QED BY <1>2, <2>1, <2>2, EnvelopeIs
<1>. QED BY <1>3, <1>4

LEMMA ParamsError ==
    ASSUME NEW v, NEW cut \in Cuts(Params(v)), ~Whole(Params(v), cut)
    PROVE  /\ ErrorOf(Params(v), cut) \notin {"none", "unsupported_version"}
           /\ TypedParams(v) => Refuses(Params(v), cut)
<1>1. Chain(Params(v))
  BY ParamsIs DEF Tidy
<1>2. Stop(Params(v), cut) \in DOMAIN Params(v)
  BY <1>1, StopIn
<1>3. Params(v)[Stop(Params(v), cut)].error \notin {"none", "unsupported_version"}
  BY <1>2, ParamsIs
<1>. QED BY <1>1, <1>3, ParamsMean, RefusedOrFails DEF ErrorOf

LEMMA RegistrationViewError ==
    ASSUME NEW v, NEW cut \in Cuts(RegistrationViewChain(v)),
           ~Whole(RegistrationViewChain(v), cut)
    PROVE  /\ ErrorOf(RegistrationViewChain(v), cut) \notin {"none", "unsupported_version"}
           /\ ValidRegistration(v) /\ BindingTyped(v) => Refuses(RegistrationViewChain(v), cut)
<1>. DEFINE c == RegistrationViewChain(v)
<1>1. Chain(c)
  BY RegistrationViewIs DEF Tidy
<1>2. Stop(c, cut) \in DOMAIN c
  BY <1>1, StopIn
<1>3. c[Stop(c, cut)].error \notin {"none", "unsupported_version"}
  BY <1>2, RegistrationViewIs
<1>4. ASSUME ValidRegistration(v), BindingTyped(v) PROVE AllOk(c)
  <2>1. /\ Get(v, "local_transport_binding_id") = NULL
            \/ Is(Get(v, "local_transport_binding_id"), "string")
        /\ Get(v, "local_transport_handle") = NULL
            \/ Is(Get(v, "local_transport_handle"), "string")
    BY <1>4 DEF BindingTyped
  <2>. QED BY <1>4, <2>1, RegistrationIs, RegistrationViewIs
<1>. QED BY <1>1, <1>3, <1>4, RefusedOrFails DEF ErrorOf

LEMMA RegistrationViewTyped ==
    ASSUME NEW v, AllOk(RegistrationViewChain(v))
    PROVE  BindingTyped(v)
BY RegistrationViewIs DEF BindingTyped

LEMMA NameChainPasses ==
    ASSUME NEW v, ValidName(v), NEW cut \in Cuts(NameChain(v)), ~Whole(NameChain(v), cut)
    PROVE  Refuses(NameChain(v), cut)
<1>1. Chain(NameChain(v)) /\ AllOk(NameChain(v))
  BY NameIs, NameChainIs DEF Tidy
<1>. QED BY <1>1, RefusedOrFails

-----------------------------------------------------------------------------
(* What is true between the stages.                                        *)

RegistrationKinds == {"NotifyCheck", "NotifyRegistrationWrapper", "NotifyRegistration"}
ResponseStages == {"profile", "outcome"} \cup ProbeKinds

\* From the stage after the envelope on, the packet is one the call should take,
\* the result has its parts, and no error is left of an earlier call.
EnvelopeKept ==
    /\ stage # "idle" => root \in Payloads
    /\ stage \notin {"idle", "decode", "failed"} => error = "none" /\ Envelopes(call, root)
    /\ stage = "route" =>
        /\ call = "route" /\ view.service = Get(root, "service")
        /\ view.method = Get(root, "method") /\ view.params = Get(root, "params")
    /\ stage \in ResponseStages =>
        /\ call \in {"profile", "outcome"} /\ view.status = Get(root, "status")
        /\ view.result = IF Get(root, "status") = [string |-> "ok"]
                         THEN Get(root, "result") ELSE NULL

\* While kinds are tried, none that was tried before fits, unless memory ran out.
Trying ==
    stage \in ProbeKinds =>
        /\ view.resultObject = view.result /\ Is(view.result, "dict")
        /\ "pendingGeneration" \notin has
        /\ ~refused => \A k \in ProbeKinds : Place(k) < Place(stage) => ~Fits(k, view.result)

\* A kind and its flags appear at the end of the probes, an outcome at the end of
\* the call; the profile has what the lookups of the outcome start from.
Found ==
    /\ stage \notin {"outcome", "succeeded"} => kind = "invalid"
    /\ stage # "succeeded" => outcome = "invalid"
    /\ stage \notin {"outcome", "succeeded"} \cup ProbeKinds => has = {}
    /\ stage = "outcome" =>
        /\ call = "outcome" /\ kind \in ProbeKinds \cup {"Error", "NotifyNameList"}
        /\ kind = "Error" => view.status = [string |-> "error"]
        /\ kind # "Error" => view.status = [string |-> "ok"]
        /\ kind = "NotifyNameList" => Is(view.result, "array")
        /\ kind \in ProbeKinds => Is(view.result, "dict")
        /\ kind \in {"NotifyPost", "NotifyNameState"} =>
            view.nameObject = Get(view.result, "name")
        /\ kind \in RegistrationKinds =>
            /\ view.registration = IF kind = "NotifyRegistration" THEN view.result
                                   ELSE Get(view.result, "registration")
            /\ view.token = Get(view.registration, "token")

JInv ==
    /\ IInv
    /\ EnvelopeKept
    /\ Trying
    /\ Found
    /\ FieldsAgree
    /\ ErrorTellsFailure

LEMMA PlaceIs ==
    /\ \A k \in ProbeKinds : Place(k) \in 1..11 /\ ProbeOrder[Place(k)] = k
    /\ \A i \in 1..11 : ProbeOrder[i] \in ProbeKinds /\ Place(ProbeOrder[i]) = i
<1>1. DOMAIN ProbeOrder = 1..11
  BY DEF ProbeOrder
<1>2. ASSUME NEW k \in ProbeKinds PROVE Place(k) \in 1..11 /\ ProbeOrder[Place(k)] = k
  <2>1. \E i \in DOMAIN ProbeOrder : ProbeOrder[i] = k
    BY DEF ProbeKinds
  <2>. QED BY <1>1, <2>1 DEF Place
<1>3. \A i, j \in 1..11 : ProbeOrder[i] = ProbeOrder[j] => i = j
  BY DEF ProbeOrder
<1>4. \A i \in 1..11 : ProbeOrder[i] \in ProbeKinds
  BY <1>1 DEF ProbeKinds
<1>. QED BY <1>2, <1>3, <1>4

\* The kinds and the stages in which there is none.
LEMMA KindsAre ==
    ProbeKinds = {"NotifyCancel", "NotifyCheck", "NotifyPost", "NotifyNameState",
              "NotifyRegistrationWrapper", "NotifyRegistration", "NotifyValidity",
              "ControlCapabilities", "ControlHealth", "DiagnosticsSnapshot",
              "GenericObject"}
<1>1. DOMAIN ProbeOrder = 1..11
  BY DEF ProbeOrder
<1>2. /\ ProbeOrder[1] = "NotifyCancel" /\ ProbeOrder[2] = "NotifyCheck"
      /\ ProbeOrder[3] = "NotifyPost" /\ ProbeOrder[4] = "NotifyNameState"
      /\ ProbeOrder[5] = "NotifyRegistrationWrapper" /\ ProbeOrder[6] = "NotifyRegistration"
      /\ ProbeOrder[7] = "NotifyValidity" /\ ProbeOrder[8] = "ControlCapabilities"
      /\ ProbeOrder[9] = "ControlHealth" /\ ProbeOrder[10] = "DiagnosticsSnapshot"
      /\ ProbeOrder[11] = "GenericObject"
  BY DEF ProbeOrder
<1>. QED BY <1>1, <1>2 DEF ProbeKinds

LEMMA StatusesDiffer == [string |-> "error"] # [string |-> "ok"]
<1>1. [string |-> "error"].string # [string |-> "ok"].string
  OBVIOUS
<1>. QED BY <1>1

\* An object without a kind has nothing to agree with.
LEMMA KindlessAgrees ==
    ASSUME kind \notin ProbeKinds, outcome = "invalid", \A f \in has : view[f] # NULL
    PROVE  FieldsAgree
BY DEF FieldsAgree, KindFits

LEMMA KindlessAgrees1 ==
    ASSUME kind' \notin ProbeKinds, outcome' = "invalid", \A f \in has' : view'[f] # NULL
    PROVE  FieldsAgree'
BY DEF FieldsAgree, KindFits

\* A call that fails.
LEMMA FailTells ==
    ASSUME NEW e, e # "none", Fail(e), UNCHANGED <<call, root>>,
           root \in Payloads, Acceptable(call, root) => refused',
           e = "unsupported_version" => Is(Get(root, "protocol_version"), "integer")
    PROVE  EnvelopeKept' /\ Trying' /\ Found' /\ FieldsAgree' /\ ErrorTellsFailure'
<1>1. /\ stage' = "failed" /\ error' = e /\ kind' = "invalid" /\ outcome' = "invalid"
      /\ has' = {} /\ call' = call /\ root' = root
  BY DEF Fail, Clear
<1>2. stage' \notin ResponseStages /\ stage' \notin ProbeKinds /\ kind' \notin ProbeKinds
  BY <1>1, KindsAre DEF ResponseStages
<1>3. EnvelopeKept' /\ Trying' /\ Found'
  BY <1>1, <1>2 DEF EnvelopeKept, Trying, Found
<1>4. FieldsAgree'
  BY <1>1, <1>2, KindlessAgrees1
<1>5. ErrorTellsFailure'
  BY <1>1 DEF ErrorTellsFailure
<1>. QED BY <1>3, <1>4, <1>5

LEMMA InitTells == Init => JInv
<1>. SUFFICES ASSUME Init PROVE JInv
  OBVIOUS
<1>1. IInv
  BY InitOK
<1>2. /\ stage = "idle" /\ kind = "invalid" /\ outcome = "invalid" /\ has = {}
  BY DEF Init
<1>3. stage \notin ResponseStages /\ stage \notin ProbeKinds /\ kind \notin ProbeKinds
  BY <1>2, KindsAre DEF ResponseStages
<1>4. FieldsAgree
  BY <1>2, <1>3, KindlessAgrees
<1>. QED BY <1>1, <1>2, <1>3, <1>4
         DEF JInv, EnvelopeKept, Trying, Found, ErrorTellsFailure

LEMMA CallTells == JInv /\ Call => JInv'
<1>. SUFFICES ASSUME JInv, Call PROVE JInv'
  OBVIOUS
<1>1. IInv'
  BY CallOK DEF JInv
<1>2. /\ stage = "idle" /\ stage' = "decode" /\ root' \in Payloads
      /\ UNCHANGED <<view, has, kind, outcome, error, refused>>
  BY DEF Call
<1>3. /\ stage \notin ProbeKinds
      /\ stage' \notin ResponseStages /\ stage' \notin ProbeKinds
      /\ "invalid" \notin ProbeKinds
  BY <1>2, KindsAre DEF ResponseStages
<1>4. kind = "invalid" /\ outcome = "invalid" /\ has = {}
  BY <1>2, <1>3 DEF JInv, Found
<1>5. FieldsAgree'
  BY <1>2, <1>3, <1>4, KindlessAgrees1
<1>. QED BY <1>1, <1>2, <1>3, <1>4, <1>5
         DEF JInv, EnvelopeKept, Trying, Found, ErrorTellsFailure

LEMMA DecodeTells == JInv /\ DecodeEnvelope => JInv'
<1>. SUFFICES ASSUME JInv, DecodeEnvelope PROVE JInv'
  OBVIOUS
<1>1. IInv'
  BY DecodeOK DEF JInv
<1>2. stage = "decode" /\ UNCHANGED <<call, root>> /\ call \in Calls
  BY DEF DecodeEnvelope, JInv, IInv, PacketOwned, TypeOK
<1>3. stage \notin ProbeKinds /\ "invalid" \notin ProbeKinds
  BY <1>2, KindsAre
<1>4. kind = "invalid" /\ outcome = "invalid" /\ has = {} /\ root \in Payloads
  BY <1>2, <1>3 DEF JInv, Found, EnvelopeKept
<1>5. CASE ~Is(root, "dict")
  <2>1. Fail("invalid_packet")
    BY <1>5 DEF DecodeEnvelope
  <2>2. ~Acceptable(call, root)
    <3>1. Get(root, "protocol_version") = NULL
      BY <1>5 DEF Get
    <3>2. Get(root, "protocol_version") # [integer |-> 1]
      BY <3>1, NullIsNoValue
    <3>. QED BY <3>2 DEF Acceptable, Envelopes
  <2>3. EnvelopeKept' /\ Trying' /\ Found' /\ FieldsAgree' /\ ErrorTellsFailure'
    BY <1>2, <1>4, <2>1, <2>2, FailTells
  <2>. QED BY <1>1, <2>3 DEF JInv
<1>6. CASE Is(root, "dict")
  <2>1. PICK cut \in Cuts(Envelope) :
          /\ refused' = Refuses(Envelope, cut)
          /\ IF Whole(Envelope, cut)
             THEN /\ stage' = "read" /\ refs' = 1 /\ error' = "none"
                  /\ UNCHANGED <<view, has, kind, outcome>>
             ELSE Fail(ErrorOf(Envelope, cut))
    BY <1>6 DEF DecodeEnvelope
  <2>2. CASE Whole(Envelope, cut)
    <3>1. Envelopes(call, root)
      BY <1>2, <2>2, EnvelopeIs, WholeIff
    <3>2. /\ stage' = "read" /\ error' = "none" /\ UNCHANGED <<view, has, kind, outcome>>
      BY <2>1, <2>2
    <3>3. stage' \notin ResponseStages /\ stage' \notin ProbeKinds
      BY <3>2, KindsAre DEF ResponseStages
    <3>4. FieldsAgree'
      BY <1>3, <1>4, <3>2, KindlessAgrees1
    <3>. QED BY <1>1, <1>2, <1>4, <3>1, <3>2, <3>3, <3>4
             DEF JInv, EnvelopeKept, Trying, Found, ErrorTellsFailure
  <2>3. CASE ~Whole(Envelope, cut)
    <3>1. Fail(ErrorOf(Envelope, cut)) /\ refused' = Refuses(Envelope, cut)
      BY <2>1, <2>3
    <3>2. /\ ErrorOf(Envelope, cut) # "none"
          /\ ErrorOf(Envelope, cut) = "unsupported_version" =>
                Is(Get(root, "protocol_version"), "integer")
          /\ Envelopes(call, root) => Refuses(Envelope, cut)
      BY <1>2, <2>3, EnvelopeError
    <3>3. Acceptable(call, root) => refused'
      BY <3>1, <3>2 DEF Acceptable
    <3>4. EnvelopeKept' /\ Trying' /\ Found' /\ FieldsAgree' /\ ErrorTellsFailure'
      BY <1>2, <1>4, <3>1, <3>2, <3>3, FailTells
    <3>. QED BY <1>1, <3>4 DEF JInv
  <2>. QED BY <2>2, <2>3
<1>. QED BY <1>5, <1>6

LEMMA ReadTells == JInv /\ ReadEnvelope => JInv'
<1>. SUFFICES ASSUME JInv, ReadEnvelope PROVE JInv'
  OBVIOUS
<1>1. IInv'
  BY ReadOK DEF JInv
<1>2. stage = "read" /\ UNCHANGED <<call, root>> /\ call \in Calls /\ view = Empty
  BY DEF ReadEnvelope, JInv, IInv, PacketOwned, TypeOK
<1>3. stage \notin ProbeKinds /\ "invalid" \notin ProbeKinds
  BY <1>2, KindsAre
<1>4. /\ kind = "invalid" /\ outcome = "invalid" /\ has = {} /\ root \in Payloads
      /\ error = "none"
  BY <1>2, <1>3 DEF JInv, Found, EnvelopeKept
<1>5. PICK cut \in Cuts(Envelope) :
        /\ refused' = Refuses(Envelope, cut)
        /\ IF Whole(Envelope, cut)
           THEN /\ stage' = CASE call \in {"request", "response"} -> "succeeded"
                              [] call = "route" -> "route"
                              [] OTHER -> "profile"
                /\ view' = [Stored(Envelope, cut) EXCEPT !.packet = root]
                /\ UNCHANGED <<refs, has, kind, outcome, error>>
           ELSE Fail(ErrorOf(Envelope, cut))
  BY DEF ReadEnvelope
<1>6. CASE Whole(Envelope, cut)
  <2>. DEFINE s == Stored(Envelope, cut)
  <2>1. /\ Envelopes(call, root)
        /\ call \in {"request", "route"} =>
            /\ s.service = Get(root, "service") /\ s.method = Get(root, "method")
            /\ s.params = Get(root, "params")
        /\ call \notin {"request", "route"} =>
            /\ s.status = Get(root, "status")
            /\ s.result = IF Get(root, "status") = [string |-> "ok"]
                          THEN Get(root, "result") ELSE NULL
    BY <1>2, <1>6, EnvelopeStored
  <2>2. view' = [s EXCEPT !.packet = root]
    BY <1>5, <1>6
  <2>. HIDE DEF s
  <2>3. /\ view'.service = s.service /\ view'.method = s.method /\ view'.params = s.params
        /\ view'.status = s.status /\ view'.result = s.result
    BY <2>2
  <2>4. UNCHANGED <<has, kind, outcome, error>>
    BY <1>5, <1>6
  <2>5. FieldsAgree'
    BY <1>3, <1>4, <2>4, KindlessAgrees1
  <2>6. \/ stage' = "succeeded" /\ call \in {"request", "response"}
        \/ stage' = "route" /\ call = "route"
        \/ stage' = "profile" /\ call \in {"profile", "outcome"}
    BY <1>2, <1>5, <1>6 DEF Calls
  <2>7. stage' \notin ProbeKinds
    BY <2>6, KindsAre
  <2>8. stage' = "succeeded" => Acceptable(call, root)
    BY <2>1, <2>6 DEF Acceptable
  <2>9. EnvelopeKept'
    BY <1>2, <1>4, <2>1, <2>3, <2>4, <2>6, <2>7 DEF EnvelopeKept, ResponseStages
  <2>10. Trying' /\ Found' /\ ErrorTellsFailure'
    BY <1>2, <1>4, <2>1, <2>4, <2>6, <2>7, <2>8 DEF Trying, Found, ErrorTellsFailure
  <2>. QED BY <1>1, <2>5, <2>9, <2>10 DEF JInv
<1>7. CASE ~Whole(Envelope, cut)
  <2>1. Fail(ErrorOf(Envelope, cut)) /\ refused' = Refuses(Envelope, cut)
    BY <1>5, <1>7
  <2>2. /\ ErrorOf(Envelope, cut) # "none"
        /\ ErrorOf(Envelope, cut) = "unsupported_version" =>
              Is(Get(root, "protocol_version"), "integer")
        /\ Envelopes(call, root) => Refuses(Envelope, cut)
    BY <1>2, <1>7, EnvelopeError
  <2>3. Acceptable(call, root) => refused'
    BY <2>1, <2>2 DEF Acceptable
  <2>4. EnvelopeKept' /\ Trying' /\ Found' /\ FieldsAgree' /\ ErrorTellsFailure'
    BY <1>2, <1>4, <2>1, <2>2, <2>3, FailTells
  <2>. QED BY <1>1, <2>4 DEF JInv
<1>. QED BY <1>6, <1>7

LEMMA DoneTells == JInv /\ Done => JInv'
<1>. SUFFICES ASSUME JInv, Done PROVE JInv'
  OBVIOUS
<1>1. IInv'
  BY DoneOK DEF JInv
<1>2. stage' = "idle" /\ kind' = "invalid" /\ outcome' = "invalid" /\ has' = {}
  BY DEF Done, Clear
<1>3. stage' \notin ResponseStages /\ stage' \notin ProbeKinds /\ kind' \notin ProbeKinds
  BY <1>2, KindsAre DEF ResponseStages
<1>4. FieldsAgree'
  BY <1>2, <1>3, KindlessAgrees1
<1>. QED BY <1>1, <1>2, <1>3, <1>4
         DEF JInv, EnvelopeKept, Trying, Found, ErrorTellsFailure

\* The kind of a route is no kind of object.
LEMMA RouteKindIs ==
    ASSUME NEW service, NEW method
    PROVE  RouteKind(service, method) \notin ProbeKinds
<1>1. ASSUME service \in DOMAIN Methods, method \in Methods[service]
      PROVE  method \notin ProbeKinds
  <2>1. service \in {"control", "diagnostics", "notify"}
    BY <1>1 DEF Methods
  <2>2. /\ Methods["control"] = {"capabilities", "health"}
        /\ Methods["diagnostics"] = {"snapshot"}
        /\ Methods["notify"] =
            {"cancel", "check", "get_state", "is_valid_token", "list_names", "post",
             "prepare_file_descriptor_delivery", "register_check", "register_dispatch",
             "register_file_descriptor", "register_signal", "resume", "set_state", "suspend"}
    BY DEF Methods
  <2>3. method \in {"capabilities", "health", "snapshot",
                    "cancel", "check", "get_state", "is_valid_token", "list_names", "post",
                    "prepare_file_descriptor_delivery", "register_check", "register_dispatch",
                    "register_file_descriptor", "register_signal", "resume", "set_state",
                    "suspend"}
    BY <1>1, <2>1, <2>2
  <2>. QED BY <2>3, KindsAre
<1>2. "invalid" \notin ProbeKinds
  BY KindsAre
<1>. QED BY <1>1, <1>2 DEF RouteKind

LEMMA RouteTells == JInv /\ Route => JInv'
<1>. SUFFICES ASSUME JInv, Route PROVE JInv'
  OBVIOUS
<1>. DEFINE params == Params(view.params)
            found == RouteKind(view.service.string, view.method.string)
<1>1. IInv'
  BY RouteOK DEF JInv
<1>2. stage = "route" /\ UNCHANGED <<call, root>>
  BY DEF Route
<1>3. stage \notin ProbeKinds /\ "invalid" \notin ProbeKinds
  BY <1>2, KindsAre
<1>4. /\ kind = "invalid" /\ outcome = "invalid" /\ has = {} /\ root \in Payloads
      /\ error = "none" /\ Envelopes(call, root) /\ call = "route"
      /\ view.service = Get(root, "service") /\ view.method = Get(root, "method")
      /\ view.params = Get(root, "params")
  BY <1>2, <1>3 DEF JInv, Found, EnvelopeKept
<1>5. PICK cut \in Cuts(params), texts \in BOOLEAN :
        /\ refused' = (~texts \/ Refuses(params, cut))
        /\ IF ~texts \/ found = "invalid" THEN Fail("invalid_packet")
           ELSE IF ~Whole(params, cut) THEN Fail(ErrorOf(params, cut))
           ELSE /\ stage' = "succeeded" /\ kind' = found
                /\ view' = Stored(params, cut) /\ has' = FlagsAfter(params, cut)
                /\ UNCHANGED <<refs, outcome, error>>
  BY DEF Route
<1>6. Acceptable(call, root) <=> found # "invalid" /\ TypedParams(view.params)
  BY <1>4 DEF Acceptable
<1>7. CASE ~texts \/ found = "invalid"
  <2>1. Fail("invalid_packet") /\ (Acceptable(call, root) => refused')
    BY <1>5, <1>6, <1>7
  <2>2. EnvelopeKept' /\ Trying' /\ Found' /\ FieldsAgree' /\ ErrorTellsFailure'
    BY <1>2, <1>4, <2>1, FailTells
  <2>. QED BY <1>1, <2>2 DEF JInv
<1>8. CASE ~(~texts \/ found = "invalid") /\ ~Whole(params, cut)
  <2>1. Fail(ErrorOf(params, cut)) /\ (Refuses(params, cut) => refused')
    BY <1>5, <1>8
  <2>2. /\ ErrorOf(params, cut) \notin {"none", "unsupported_version"}
        /\ TypedParams(view.params) => Refuses(params, cut)
    BY <1>8, ParamsError
  <2>3. Acceptable(call, root) => refused'
    BY <1>6, <2>1, <2>2
  <2>4. EnvelopeKept' /\ Trying' /\ Found' /\ FieldsAgree' /\ ErrorTellsFailure'
    BY <1>2, <1>4, <2>1, <2>2, <2>3, FailTells
  <2>. QED BY <1>1, <2>4 DEF JInv
<1>9. CASE ~(~texts \/ found = "invalid") /\ Whole(params, cut)
  <2>1. /\ stage' = "succeeded" /\ kind' = found
        /\ view' = Stored(params, cut) /\ has' = FlagsAfter(params, cut)
        /\ UNCHANGED <<refs, outcome, error>>
    BY <1>5, <1>9
  <2>2. Tidy(params) /\ Chain(params)
    BY ParamsIs DEF Tidy
  <2>3. AllOk(params)
    BY <1>9, <2>2, WholeIff
  <2>4. Acceptable(call, root)
    BY <1>6, <1>9, <2>3, ParamsMean
  <2>5. has \subseteq Flagged /\ \A f \in has : view[f] # NULL
    BY <1>4
  <2>6. \A f \in has' : view'[f] # NULL
    BY <2>1, <2>2, <2>5, FlagsStored
  <2>7. kind' \notin ProbeKinds /\ outcome' = "invalid"
    BY <1>4, <2>1, RouteKindIs
  <2>8. FieldsAgree'
    BY <2>6, <2>7, KindlessAgrees1
  <2>9. stage' \notin ResponseStages /\ stage' \notin ProbeKinds
    BY <2>1, KindsAre DEF ResponseStages
  <2>10. EnvelopeKept' /\ Trying' /\ Found' /\ ErrorTellsFailure'
    BY <1>2, <1>4, <2>1, <2>4, <2>9
       DEF EnvelopeKept, Trying, Found, ErrorTellsFailure
  <2>. QED BY <1>1, <2>8, <2>10 DEF JInv
<1>. QED BY <1>7, <1>8, <1>9

\* A decoded value is not both a dictionary and an array.
LEMMA OneType ==
    ASSUME NEW v, Decoded(v), Is(v, "dict")
    PROVE  ~Is(v, "array")
<1>1. v # NULL /\ "dict" \in DOMAIN v
  BY DEF Is
<1>2. PICK type \in Types : DOMAIN v = {type}
  BY <1>1 DEF Decoded
<1>3. "array" \notin DOMAIN v
  BY <1>1, <1>2
<1>. QED BY <1>3 DEF Is

\* What is known of a response whose kind is looked for.
LEMMA ResponseKnown ==
    ASSUME JInv, stage \in ResponseStages
    PROVE  /\ call \in {"profile", "outcome"} /\ root \in Payloads /\ error = "none"
           /\ Envelopes(call, root) /\ view.status = Get(root, "status")
           /\ view.status \in {[string |-> "ok"], [string |-> "error"]}
           /\ view.status = [string |-> "ok"] => view.result = Get(root, "result")
           /\ view.result # NULL <=> view.status = [string |-> "ok"]
           /\ Decoded(view.result)
           /\ outcome = "invalid" /\ DOMAIN view = Fields /\ has \subseteq Flagged
           /\ refused \in BOOLEAN
<1>1. stage \notin {"idle", "decode", "failed", "succeeded"}
  BY KindsAre DEF ResponseStages
<1>2. /\ call \in {"profile", "outcome"} /\ root \in Payloads /\ error = "none"
      /\ Envelopes(call, root) /\ view.status = Get(root, "status")
      /\ view.result = IF Get(root, "status") = [string |-> "ok"]
                       THEN Get(root, "result") ELSE NULL
  BY <1>1 DEF JInv, EnvelopeKept
<1>3. /\ \/ view.status = [string |-> "ok"] /\ Get(root, "result") # NULL
         \/ view.status = [string |-> "error"]
  BY <1>2 DEF Envelopes
<1>4. Decoded(Get(root, "result")) /\ Decoded(NULL)
  BY <1>2, PayloadsDecoded DEF Decoded, Is
<1>5. outcome = "invalid" /\ DOMAIN view =
          Fields /\ has \subseteq Flagged /\ refused \in BOOLEAN
  BY <1>1 DEF JInv, Found, IInv, PacketOwned, TypeOK
<1>. QED BY <1>2, <1>3, <1>4, <1>5, StatusesDiffer

LEMMA ProfileTells == JInv /\ Profile => JInv'
<1>. SUFFICES ASSUME JInv, Profile PROVE JInv'
  OBVIOUS
<1>1. IInv'
  BY ProfileOK DEF JInv
<1>2. stage = "profile" /\ UNCHANGED <<call, root>>
  BY DEF Profile
<1>3. stage \notin ProbeKinds /\ {"invalid", "Error", "NotifyNameList"} \cap ProbeKinds = {}
  BY <1>2, KindsAre
<1>4. stage \in ResponseStages
  BY <1>2 DEF ResponseStages
<1>5. kind = "invalid" /\ has = {}
  BY <1>2, <1>3 DEF JInv, Found
<1>6. /\ call \in {"profile", "outcome"} /\ root \in Payloads /\ error = "none"
      /\ Envelopes(call, root) /\ view.status = Get(root, "status")
      /\ view.status \in {[string |-> "ok"], [string |-> "error"]}
      /\ view.status = [string |-> "ok"] => view.result = Get(root, "result")
      /\ view.result # NULL <=> view.status = [string |-> "ok"]
      /\ Decoded(view.result)
      /\ outcome = "invalid" /\ DOMAIN view = Fields
  BY <1>4, ResponseKnown
<1>7. /\ Profiled = IF call = "outcome" THEN "outcome" ELSE "succeeded"
      /\ Profiled \notin ProbeKinds
  BY KindsAre DEF Profiled
<1>8. \A v : Is(v, "dict") \/ Is(v, "array") => v # NULL
  BY DEF Is
<1>9. ASSUME NEW e, e \in {"invalid_packet"}, Fail(e), Acceptable(call, root) => refused'
      PROVE  JInv'
  <2>1. e # "none" /\ e # "unsupported_version"
    BY <1>9
  <2>2. EnvelopeKept' /\ Trying' /\ Found' /\ FieldsAgree' /\ ErrorTellsFailure'
    BY <1>2, <1>6, <1>9, <2>1, FailTells
  <2>. QED BY <1>1, <2>2 DEF JInv
<1>10. CASE /\ view.status = [string |-> "error"]
            /\ kind' = "Error" /\ stage' = Profiled
            /\ UNCHANGED <<refs, view, has, outcome, error, refused>>
  <2>1. FieldsAgree'
    BY <1>3, <1>5, <1>6, <1>10, KindlessAgrees1
  <2>2. call = "profile" => Acceptable(call, root)
    BY <1>6, <1>10, StatusesDiffer DEF Acceptable
  <2>3. EnvelopeKept' /\ Trying'
    BY <1>2, <1>4, <1>6, <1>7, <1>10 DEF JInv, EnvelopeKept, Trying, ResponseStages
  <2>4. Found' /\ ErrorTellsFailure'
    BY <1>2, <1>3, <1>5, <1>6, <1>7, <1>10, <2>2
       DEF Found, ErrorTellsFailure, RegistrationKinds
  <2>. QED BY <1>1, <2>1, <2>3, <2>4 DEF JInv
<1>11. ASSUME Is(view.result, "array"), NEW memory \in BOOLEAN,
              IF memory /\ ValidNames(view.result) /\ SpokenNames(view.result)
              THEN /\ kind' = "NotifyNameList" /\ stage' = Profiled
                   /\ view' = [view EXCEPT !.resultArray = view.result,
                                           !.notifyNames = view.result]
                   /\ UNCHANGED <<refs, has, outcome, error, refused>>
              ELSE Fail("invalid_packet") /\ refused' = ~memory
       PROVE  JInv'
  <2>1. /\ view.status = [string |-> "ok"] /\ view.result = Get(root, "result")
        /\ ~Is(view.result, "dict")
    BY <1>6, <1>8, <1>11, OneType
  <2>2. CASE ~(memory /\ ValidNames(view.result) /\ SpokenNames(view.result))
    <3>1. Acceptable(call, root) => ValidNames(view.result) /\ SpokenNames(view.result)
      BY <1>6, <2>1 DEF Acceptable
    <3>2. Fail("invalid_packet") /\ (Acceptable(call, root) => refused')
      BY <1>11, <2>2, <3>1
    <3>. QED BY <1>9, <3>2
  <2>3. CASE memory /\ ValidNames(view.result) /\ SpokenNames(view.result)
    <3>1. /\ kind' = "NotifyNameList" /\ stage' = Profiled
          /\ view' = [view EXCEPT !.resultArray = view.result, !.notifyNames = view.result]
          /\ UNCHANGED <<refs, has, outcome, error, refused>>
      BY <1>11, <2>3
    <3>2. view'.status = view.status /\ view'.result = view.result
      BY <3>1
    <3>3. FieldsAgree'
      BY <1>3, <1>5, <1>6, <3>1, KindlessAgrees1
    <3>4. call = "profile" => Acceptable(call, root)
      BY <1>6, <2>1, <2>3 DEF Acceptable
    <3>5. EnvelopeKept' /\ Trying'
      BY <1>2, <1>4, <1>6, <1>7, <3>1, <3>2 DEF JInv, EnvelopeKept, Trying, ResponseStages
    <3>6. Found' /\ ErrorTellsFailure'
      BY <1>2, <1>3, <1>5, <1>6, <1>7, <1>11, <2>1, <3>1, <3>2, <3>4
         DEF Found, ErrorTellsFailure, RegistrationKinds
    <3>. QED BY <1>1, <3>3, <3>5, <3>6 DEF JInv
  <2>. QED BY <2>2, <2>3
<1>12. CASE /\ Is(view.result, "dict")
            /\ stage' = ProbeOrder[1]
            /\ view' = [view EXCEPT !.resultObject = view.result]
            /\ UNCHANGED <<refs, has, kind, outcome, error, refused>>
  <2>1. stage' = "NotifyCancel" /\ stage' \in ProbeKinds /\ Place(stage') = 1
    <3>1. stage' \in ProbeKinds /\ Place(stage') = 1
      BY <1>12, PlaceIs
    <3>. QED BY <1>12, <3>1 DEF ProbeOrder
  <2>2. \A k \in ProbeKinds : ~(Place(k) < Place(stage'))
    BY <2>1, PlaceIs
  <2>3. /\ view'.status = view.status /\ view'.result = view.result
        /\ view'.resultObject = view.result
    BY <1>6, <1>12 DEF Fields
  <2>4. FieldsAgree'
    BY <1>3, <1>5, <1>6, <1>12, KindlessAgrees1
  <2>5. EnvelopeKept'
    BY <1>2, <1>4, <1>6, <1>12, <2>1, <2>3 DEF JInv, EnvelopeKept, ResponseStages
  <2>6. Trying'
    BY <1>5, <1>12, <2>1, <2>2, <2>3 DEF Trying
  <2>7. Found' /\ ErrorTellsFailure'
    BY <1>2, <1>3, <1>5, <1>6, <1>12, <2>1 DEF Found, ErrorTellsFailure
  <2>. QED BY <1>1, <2>4, <2>5, <2>6, <2>7 DEF JInv
<1>13. CASE /\ view.result # NULL /\ ~Is(view.result, "array") /\ ~Is(view.result, "dict")
            /\ Fail("invalid_packet")
  <2>1. ~ValidNames(view.result)
    BY <1>13 DEF ValidNames
  <2>2. ~Acceptable(call, root)
    BY <1>6, <1>13, <2>1 DEF Acceptable
  <2>. QED BY <1>9, <1>13, <2>2
<1>. QED BY <1>10, <1>11, <1>12, <1>13, Zenon DEF Profile

\* What the last lookups of a kind and the assignments after them leave in the
\* profile: the values of its kind, with their flags.
LEMMA Profiles ==
    ASSUME NEW k \in ProbeKinds, NEW r, Fits(k, r),
           DOMAIN view = Fields, has \subseteq Flagged, \A f \in has : view[f] # NULL,
           "pendingGeneration" \notin has,
           NEW cut \in Cuts(Probe(k, r)), Whole(Probe(k, r), cut),
           NEW w, w = [f \in Fields |-> IF f \in DOMAIN Assigned(k, r) THEN Assigned(k, r)[f]
                                        ELSE Stored(Probe(k, r) \o FollowUp(k, r), cut)[f]],
           NEW h, h = FlagsAfter(Probe(k, r), cut) \cup AssignedFlags(k, r)
    PROVE  /\ \A f \in DOMAIN Source(k, r) : w[f] = Source(k, r)[f] /\ f \in h
           /\ \A f \in h : w[f] # NULL
           /\ w.status = view.status /\ w.result = view.result
           /\ k \in {"NotifyPost", "NotifyNameState"} => w.nameObject = Get(r, "name")
           /\ k \in RegistrationKinds =>
                /\ w.registration = IF k = "NotifyRegistration" THEN r
                                    ELSE Get(r, "registration")
                /\ w.token = Get(w.registration, "token")
<1>. DEFINE probe == Probe(k, r)
            next == FollowUp(k, r)
            assigned == Assigned(k, r)
            reg == Get(r, "registration")
            nm == Get(r, "name")
            flags == FlagsAfter(probe, cut)
<1>1. Tidy(probe) /\ Chain(probe) /\ Into(probe) \subseteq ProbeFields
  BY ProbeIs DEF Tidy
<1>2. cut = 0 /\ AllOk(probe)
  BY <1>1, WholeIff
<1>3. flags \subseteq Flagged /\ flags \subseteq has \cup Into(probe)
  BY FlagsFrom
<1>4. "pendingGeneration" \notin flags
  BY <1>1, <1>3 DEF ProbeFields
<1>5. \A f \in flags : Stored(probe, cut)[f] # NULL
  BY <1>1, FlagsStored
<1>6. "status" \notin Into(probe) /\ "result" \notin Into(probe)
  BY <1>1 DEF ProbeFields
<1>7. {"status", "result", "registration", "token", "valid", "nameObject", "canceled",
       "generation", "currentState", "changed", "state", "capabilities", "health",
       "pendingGeneration"} \subseteq Fields
  BY DEF Fields, Flagged
<1>8. {"token", "valid", "canceled", "generation", "currentState", "changed", "state",
       "pendingGeneration"} \subseteq Flagged
      /\ {"registration", "capabilities", "health"} \cap Flagged = {}
  BY DEF Flagged
\* The kinds without lookups that follow.
<1>9. CASE k \notin {"NotifyPost", "NotifyNameState"}
  <2>1. probe \o next = probe
    <3>1. next = <<>>
      BY <1>9 DEF FollowUp
    <3>2. PICK S : probe \in Seq(S)
      BY <1>1 DEF Chain
    <3>. HIDE DEF probe
    <3>. QED BY <3>1, <3>2
  <2>2. \A f \in Fields : w[f] = IF f \in DOMAIN assigned THEN assigned[f]
                                 ELSE Stored(probe, cut)[f]
    BY <2>1
  <2>3. h = flags \cup {f \in Flagged \cap DOMAIN assigned : assigned[f] # NULL}
    BY <1>9 DEF AssignedFlags
  <2>4. ASSUME "status" \notin DOMAIN assigned, "result" \notin DOMAIN assigned
        PROVE  w.status = view.status /\ w.result = view.result
    <3>1. "status" \in Fields \ Into(probe) /\ "result" \in Fields \ Into(probe)
      BY <1>6, <1>7
    <3>2. Stored(probe, cut).status = view.status /\ Stored(probe, cut).result = view.result
      BY <3>1, StoredElse
    <3>. QED BY <1>7, <2>2, <2>4, <3>2
  <2>5. ASSUME \A f \in flags \cap DOMAIN assigned : assigned[f] # NULL
        PROVE  \A f \in h : w[f] # NULL
    <3>1. flags \subseteq Fields /\ Flagged \subseteq Fields
      BY <1>3 DEF Fields
    <3>. QED BY <1>5, <2>2, <2>3, <2>5, <3>1
  <2>6. CASE k \in {"NotifyCancel", "NotifyCheck", "NotifyRegistrationWrapper"}
    <3>1. assigned = [token |-> Get(reg, "token"), valid |-> Get(reg, "valid")]
      BY <2>6 DEF Assigned, OfRegistration
    <3>2. ValidRegistration(reg)
      BY <2>6 DEF Fits
    <3>3. Get(reg, "token") # NULL /\ Get(reg, "valid") # NULL
      BY <3>2, RegistrationIs DEF Is
    <3>4. DOMAIN assigned = {"token", "valid"}
      BY <3>1
    <3>5. assigned.token = Get(reg, "token") /\ assigned.valid = Get(reg, "valid")
      BY <3>1
    <3>6. Stored(probe, cut).registration = reg
      BY <2>6, CancelChain, CheckChain, WrapperChain DEF Probe
    <3>. HIDE DEF assigned
    <3>7. /\ w.token = Get(reg, "token") /\ w.valid = Get(reg, "valid")
          /\ w.registration = reg /\ "token" \in h /\ "valid" \in h
      BY <1>7, <1>8, <2>2, <2>3, <3>3, <3>4, <3>5, <3>6
    <3>8. \A f \in DOMAIN Source(k, r) : w[f] = Source(k, r)[f] /\ f \in h
      <4>1. CASE k = "NotifyCancel"
        <5>1. Get(r, "canceled") # NULL
          BY <4>1 DEF Fits, Is
        <5>2. Source(k, r) = [canceled |-> Get(r, "canceled"), token |-> Get(reg, "token"),
                              valid |-> Get(reg, "valid")]
          BY <4>1 DEF Source
        <5>3. Stored(probe, cut).canceled = Get(r, "canceled") /\ "canceled" \in flags
          BY <4>1, <5>1, CancelChain DEF Probe
        <5>4. w.canceled = Get(r, "canceled") /\ "canceled" \in h
          BY <1>7, <2>2, <2>3, <3>4, <5>3
        <5>. QED BY <3>7, <5>2, <5>4
      <4>2. CASE k = "NotifyCheck"
        <5>1. /\ Get(r, "generation") # NULL /\ Get(r, "changed") # NULL
              /\ Get(r, "current_state") # NULL
          BY <4>2 DEF Fits, Typed, Is
        <5>2. Source(k, r) =
                [generation |-> Get(r, "generation"), changed |-> Get(r, "changed"),
                 currentState |-> Get(r, "current_state"), token |-> Get(reg, "token"),
                 valid |-> Get(reg, "valid")]
          BY <4>2 DEF Source
        <5>3. /\ Stored(probe, cut).generation = Get(r, "generation")
              /\ Stored(probe, cut).currentState = Get(r, "current_state")
              /\ Stored(probe, cut).changed = Get(r, "changed")
              /\ {"generation", "currentState", "changed"} \subseteq flags
          BY <4>2, <5>1, CheckChain DEF Probe
        <5>4. /\ w.generation = Get(r, "generation") /\ w.changed = Get(r, "changed")
              /\ w.currentState = Get(r, "current_state")
              /\ {"generation", "currentState", "changed"} \subseteq h
          BY <1>7, <2>2, <2>3, <3>4, <5>3
        <5>. QED BY <3>7, <5>2, <5>4
      <4>3. CASE k = "NotifyRegistrationWrapper"
        <5>1. Source(k, r) = [token |-> Get(reg, "token"), valid |-> Get(reg, "valid")]
          BY <4>3 DEF Source
        <5>. QED BY <3>7, <5>1
      <4>. QED BY <2>6, <4>1, <4>2, <4>3
    <3>9. \A f \in h : w[f] # NULL
      BY <2>5, <3>3, <3>4, <3>5
    <3>10. w.status = view.status /\ w.result = view.result
      BY <2>4, <3>4
    <3>. QED BY <1>9, <2>6, <3>7, <3>8, <3>9, <3>10
  <2>7. CASE k = "NotifyRegistration"
    <3>1. assigned = [registration |-> r, pendingGeneration |-> Get(r, "pending_generation"),
                      token |-> Get(r, "token"), valid |-> Get(r, "valid")]
      BY <2>7 DEF Assigned
    <3>2. ValidRegistration(r)
      BY <2>7 DEF Fits
    <3>3. Get(r, "token") # NULL /\ Get(r, "valid") # NULL
      BY <3>2, RegistrationIs DEF Is
    <3>4. DOMAIN assigned = {"registration", "pendingGeneration", "token", "valid"}
      BY <3>1
    <3>5. /\ assigned.token = Get(r, "token") /\ assigned.valid = Get(r, "valid")
          /\ assigned.registration = r
      BY <3>1
    <3>. HIDE DEF assigned
    <3>6. /\ w.token = Get(r, "token") /\ w.valid = Get(r, "valid")
          /\ w.registration = r /\ "token" \in h /\ "valid" \in h
      BY <1>7, <1>8, <2>2, <2>3, <3>3, <3>4, <3>5
    <3>7. Source(k, r) = [token |-> Get(r, "token"), valid |-> Get(r, "valid")]
      BY <2>7 DEF Source
    <3>8. \A f \in DOMAIN Source(k, r) : w[f] = Source(k, r)[f] /\ f \in h
      BY <3>6, <3>7
    <3>9. \A f \in flags \cap DOMAIN assigned : assigned[f] # NULL
      BY <1>3, <1>4, <1>8, <3>3, <3>4, <3>5
    <3>10. w.status = view.status /\ w.result = view.result
      BY <2>4, <3>4
    <3>. QED BY <1>9, <2>5, <2>7, <3>6, <3>8, <3>9, <3>10
  <2>8. CASE k = "NotifyValidity"
    <3>1. DOMAIN assigned = {}
      BY <2>8 DEF Assigned
    <3>2. Get(r, "valid") # NULL
      BY <2>8 DEF Fits, Is
    <3>3. Stored(probe, cut).valid = Get(r, "valid") /\ "valid" \in flags
      BY <2>8, <3>2, ValidityChain DEF Probe
    <3>4. Source(k, r) = [valid |-> Get(r, "valid")]
      BY <2>8 DEF Source
    <3>. HIDE DEF assigned
    <3>5. w.valid = Get(r, "valid") /\ "valid" \in h
      BY <1>7, <2>2, <2>3, <3>1, <3>3
    <3>6. \A f \in DOMAIN Source(k, r) : w[f] = Source(k, r)[f] /\ f \in h
      BY <3>4, <3>5
    <3>. QED BY <1>9, <2>4, <2>5, <2>8, <3>1, <3>6 DEF RegistrationKinds
  <2>9. CASE k \in {"ControlCapabilities", "ControlHealth", "DiagnosticsSnapshot",
                    "GenericObject"}
    <3>1. DOMAIN assigned \subseteq {"capabilities", "health"}
      BY <2>9 DEF Assigned
    <3>2. DOMAIN Source(k, r) = {}
      BY <2>9 DEF Source
    <3>. HIDE DEF assigned
    <3>3. flags \cap DOMAIN assigned = {}
      BY <1>3, <1>8, <3>1
    <3>4. \A f \in h : w[f] # NULL
      BY <2>5, <3>3
    <3>5. w.status = view.status /\ w.result = view.result
      BY <2>4, <3>1
    <3>. QED BY <1>9, <2>9, <3>2, <3>4, <3>5 DEF RegistrationKinds
  <2>. QED BY <1>9, <2>6, <2>7, <2>8, <2>9, KindsAre
\* Posting and reading a name.
<1>10. CASE k \in {"NotifyPost", "NotifyNameState"}
  <2>. DEFINE c == probe \o next
              generation == IF k = "NotifyPost" THEN Get(r, "generation")
                            ELSE Get(nm, "generation")
              state == IF k = "NotifyPost" THEN Get(nm, "state") ELSE Get(r, "state")
  <2>1. DOMAIN assigned = {}
    BY <1>10 DEF Assigned
  <2>2. /\ Tidy(c)
        /\ Into(c) \subseteq {"nameObject", "deliveredTokens", "generation", "state", "nothing"}
        /\ Into(probe) \subseteq
            {"nameObject", "deliveredTokens", "generation", "state", "nothing"}
    <3>1. CASE k = "NotifyPost"
      <4>1. c = PostProbe(r) \o FollowUp("NotifyPost", r) /\ probe = PostProbe(r)
        BY <3>1 DEF Probe
      <4>. HIDE DEF c, probe
      <4>. QED BY <4>1, PostWhole, PostChain
    <3>2. CASE k = "NotifyNameState"
      <4>1. c = NameStateProbe(r) \o FollowUp("NotifyNameState", r) /\ probe = NameStateProbe(r)
        BY <3>2 DEF Probe
      <4>. HIDE DEF c, probe
      <4>. QED BY <4>1, NameStateWhole, NameStateChain
    <3>. QED BY <1>10, <3>1, <3>2
  <2>3. /\ Whole(c, cut)
        /\ Stored(c, cut).nameObject = nm /\ Stored(c, cut).generation = generation
        /\ Stored(c, cut).state = state /\ generation # NULL /\ state # NULL
    <3>1. ValidName(nm)
      BY <1>10 DEF Fits
    <3>2. Is(Get(nm, "state"), "integer") /\ Is(Get(nm, "generation"), "integer")
      BY <3>1, NameIs
    <3>3. cut \in Cuts(c)
      BY <1>2 DEF Cuts
    <3>4. Chain(c)
      BY <2>2 DEF Tidy
    <3>5. CASE k = "NotifyPost"
      <4>1. c = PostProbe(r) \o FollowUp("NotifyPost", r) /\ probe = PostProbe(r)
        BY <3>5 DEF Probe
      <4>2. generation = Get(r, "generation") /\ state = Get(nm, "state")
        BY <3>5
      <4>3. Is(Get(r, "generation"), "integer")
        BY <3>5 DEF Fits, Typed
      <4>4. generation # NULL /\ state # NULL
        BY <3>2, <4>2, <4>3 DEF Is
      <4>. HIDE DEF c, probe, generation, state
      <4>5. AllOk(c)
        BY <1>2, <3>2, <4>1, PostWhole, PostChain
      <4>6. Whole(c, cut)
        BY <1>2, <3>3, <3>4, <4>5, WholeIff
      <4>. QED BY <4>1, <4>2, <4>4, <4>6, PostWhole
    <3>6. CASE k = "NotifyNameState"
      <4>1. c = NameStateProbe(r) \o FollowUp("NotifyNameState", r) /\ probe = NameStateProbe(r)
        BY <3>6 DEF Probe
      <4>2. generation = Get(nm, "generation") /\ state = Get(r, "state")
        BY <3>6
      <4>3. Is(Get(r, "state"), "integer")
        BY <3>6 DEF Fits
      <4>4. generation # NULL /\ state # NULL
        BY <3>2, <4>2, <4>3 DEF Is
      <4>. HIDE DEF c, probe, generation, state
      <4>5. AllOk(c)
        BY <1>2, <3>2, <4>1, NameStateWhole, NameStateChain
      <4>6. Whole(c, cut)
        BY <1>2, <3>3, <3>4, <4>5, WholeIff
      <4>. QED BY <4>1, <4>2, <4>4, <4>6, NameStateWhole
    <3>. QED BY <1>10, <3>5, <3>6
  <2>4. \A f \in Fields : w[f] = Stored(c, cut)[f]
    BY <2>1
  <2>5. h = flags \cup {"generation", "state"}
    BY <1>10, <2>1 DEF AssignedFlags
  <2>6. Source(k, r) = [generation |-> generation, state |-> state]
    BY <1>10 DEF Source
  <2>. HIDE DEF c, generation, state
  <2>7. /\ w.generation = generation /\ w.state = state /\ w.nameObject = nm
        /\ w.generation # NULL /\ w.state # NULL
    <3>1. {"generation", "state", "nameObject"} \subseteq Fields
      BY DEF Fields, Flagged
    <3>. QED BY <2>3, <2>4, <3>1
  <2>8. \A f \in DOMAIN Source(k, r) : w[f] = Source(k, r)[f] /\ f \in h
    BY <2>5, <2>6, <2>7
  <2>9. ASSUME NEW f \in h PROVE w[f] # NULL
    <3>1. CASE f \in {"generation", "state"}
      BY <2>7, <3>1
    <3>2. CASE f \notin {"generation", "state"}
      <4>1. f \in Flagged /\ f \in has \cup Into(probe)
        BY <1>3, <2>5, <2>9, <3>2
      <4>2. f \in has /\ f \in Fields \ Into(c)
        BY <2>2, <3>2, <4>1 DEF Flagged, Fields
      <4>3. Stored(c, cut)[f] = view[f]
        BY <4>2, StoredElse
      <4>. QED BY <2>4, <4>2, <4>3
    <3>. QED BY <3>1, <3>2
  <2>10. w.status = view.status /\ w.result = view.result
    <3>1. "status" \in Fields \ Into(c) /\ "result" \in Fields \ Into(c)
      BY <1>7, <2>2
    <3>2. Stored(c, cut).status = view.status /\ Stored(c, cut).result = view.result
      BY <3>1, StoredElse
    <3>. QED BY <1>7, <2>4, <3>2
  <2>. QED BY <1>10, <2>7, <2>8, <2>9, <2>10 DEF RegistrationKinds
<1>. QED BY <1>9, <1>10

LEMMA TryTells == JInv /\ Try => JInv'
<1>. SUFFICES ASSUME JInv, Try PROVE JInv'
  OBVIOUS
<1>. DEFINE r == view.result
            probe == Probe(stage, r)
            next == FollowUp(stage, r)
            assigned == Assigned(stage, r)
<1>1. IInv'
  BY TryOK DEF JInv
<1>2. stage \in ProbeKinds /\ stage \in ResponseStages /\ UNCHANGED <<call, root>>
  BY DEF Try, ResponseStages
<1>3. /\ stage \notin {"idle", "decode", "read", "route", "profile", "outcome", "succeeded",
                       "failed"}
      /\ {"invalid", "Error", "NotifyNameList", "outcome", "succeeded"} \cap ProbeKinds = {}
  BY <1>2, KindsAre
<1>4. /\ call \in {"profile", "outcome"} /\ root \in Payloads /\ error = "none"
      /\ Envelopes(call, root) /\ view.status = Get(root, "status")
      /\ view.status = [string |-> "ok"] => r = Get(root, "result")
      /\ r # NULL <=> view.status = [string |-> "ok"]
      /\ Decoded(r)
      /\ outcome = "invalid" /\ DOMAIN view = Fields /\ has \subseteq Flagged
      /\ refused \in BOOLEAN
  BY <1>2, ResponseKnown
<1>5. /\ view.resultObject = r /\ Is(r, "dict") /\ "pendingGeneration" \notin has
      /\ ~refused => \A k \in ProbeKinds : Place(k) < Place(stage) => ~Fits(k, r)
  BY <1>2 DEF JInv, Trying
<1>6. view.status = [string |-> "ok"] /\ r = Get(root, "result")
  BY <1>4, <1>5 DEF Is
<1>7. kind = "invalid"
  BY <1>3 DEF JInv, Found
<1>8. \A f \in has : view[f] # NULL
  BY DEF JInv, FieldsAgree
<1>9. Tidy(probe) /\ Chain(probe) /\ Into(probe) \subseteq ProbeFields
  BY <1>2, ProbeIs DEF Tidy
<1>10. AllOk(probe) <=> Fits(stage, r)
  BY <1>2, <1>4, <1>5, ProbeFits
<1>11. PICK cut \in Cuts(probe) :
        \/ /\ ~Whole(probe, cut)
           /\ stage' = ProbeOrder[Place(stage) + 1]
           /\ view' = Stored(probe, cut) /\ has' = FlagsAfter(probe, cut)
           /\ refused' = (refused \/ Refuses(probe, cut))
           /\ UNCHANGED <<refs, kind, outcome, error>>
        \/ /\ Whole(probe, cut)
           /\ \E after \in Cuts(next) :
               /\ refused' = (refused \/ Refuses(next, after))
               /\ IF ~Whole(next, after) THEN Fail("invalid_packet")
                  ELSE /\ stage' = Profiled /\ kind' = stage
                       /\ view' = [f \in Fields |->
                                      IF f \in DOMAIN assigned THEN assigned[f]
                                      ELSE Stored(probe \o next, cut)[f]]
                       /\ has' = FlagsAfter(probe, cut) \cup AssignedFlags(stage, r)
                       /\ UNCHANGED <<refs, outcome, error>>
  BY <1>5 DEF Try
<1>. HIDE DEF probe, next, assigned
<1>12. CASE ~Whole(probe, cut)
  <2>1. /\ stage' = ProbeOrder[Place(stage) + 1]
        /\ view' = Stored(probe, cut) /\ has' = FlagsAfter(probe, cut)
        /\ (refused \/ Refuses(probe, cut)) => refused'
        /\ UNCHANGED <<refs, kind, outcome, error>>
    BY <1>11, <1>12
  <2>2. stage # "GenericObject"
    BY <1>11, <1>12, LastKind DEF probe
  <2>3. Place(stage) \in 1..11 /\ ProbeOrder[Place(stage)] = stage
    BY <1>2, PlaceIs
  <2>4. Place(stage) # 11
    BY <2>2, <2>3 DEF ProbeOrder
  <2>5. stage' \in ProbeKinds /\ Place(stage') = Place(stage) + 1
    <3>1. Place(stage) + 1 \in 1..11
      BY <2>3, <2>4
    <3>. QED BY <2>1, <3>1, PlaceIs
  <2>6. view'.status = view.status /\ view'.result = r /\ view'.resultObject = r
    <3>1. {"status", "result", "resultObject"} \subseteq Fields \ Into(probe)
      BY <1>9 DEF ProbeFields, Fields
    <3>. QED BY <1>5, <2>1, <3>1, StoredElse
  <2>7. "pendingGeneration" \notin has'
    <3>1. "pendingGeneration" \notin Into(probe)
      BY <1>9 DEF ProbeFields
    <3>. QED BY <1>5, <2>1, <3>1, FlagsFrom
  <2>8. \A f \in has' : view'[f] # NULL
    BY <1>4, <1>8, <1>9, <2>1, FlagsStored
  <2>9. ~refused' => \A k \in ProbeKinds : Place(k) < Place(stage') => ~Fits(k, r)
    <3>. SUFFICES ASSUME ~refused', NEW k \in ProbeKinds, Place(k) < Place(stage')
                  PROVE  ~Fits(k, r)
      OBVIOUS
    <3>1. ~refused /\ ~Refuses(probe, cut)
      BY <2>1
    <3>2. ~Fits(stage, r)
      BY <1>9, <1>10, <1>12, <3>1, RefusedOrFails
    <3>3. Place(k) \in 1..11 /\ ProbeOrder[Place(k)] = k
      BY PlaceIs
    <3>4. CASE Place(k) = Place(stage)
      BY <2>3, <3>2, <3>3, <3>4
    <3>5. CASE Place(k) < Place(stage)
      BY <1>5, <3>1, <3>5
    <3>. QED BY <2>3, <2>5, <3>3, <3>4, <3>5
  <2>10. FieldsAgree'
    BY <1>3, <1>4, <1>7, <2>1, <2>8, KindlessAgrees1
  <2>11. stage' \notin {"idle", "decode", "read", "route", "profile", "outcome", "succeeded",
                        "failed"}
    BY <2>5, KindsAre
  <2>12. EnvelopeKept' /\ ErrorTellsFailure'
    BY <1>2, <1>4, <1>6, <2>1, <2>6, <2>11 DEF EnvelopeKept, ErrorTellsFailure
  <2>13. Trying' /\ Found'
    BY <1>4, <1>5, <1>7, <2>1, <2>5, <2>6, <2>7, <2>9, <2>11 DEF Trying, Found
  <2>. QED BY <1>1, <2>10, <2>12, <2>13 DEF JInv
<1>13. CASE Whole(probe, cut)
  <2>1. PICK after \in Cuts(next) :
          /\ refused' = (refused \/ Refuses(next, after))
          /\ IF ~Whole(next, after) THEN Fail("invalid_packet")
             ELSE /\ stage' = Profiled /\ kind' = stage
                  /\ view' = [f \in Fields |->
                                 IF f \in DOMAIN assigned THEN assigned[f]
                                 ELSE Stored(probe \o next, cut)[f]]
                  /\ has' = FlagsAfter(probe, cut) \cup AssignedFlags(stage, r)
                  /\ UNCHANGED <<refs, outcome, error>>
    BY <1>11, <1>13
  <2>2. Fits(stage, r)
    BY <1>9, <1>10, <1>11, <1>13, WholeIff
  <2>3. Chain(next) /\ AllOk(next)
    BY <2>2, FollowUpFits DEF next
  <2>4. CASE ~Whole(next, after)
    <3>1. refused' /\ Fail("invalid_packet")
      BY <2>1, <2>3, <2>4, RefusedOrFails
    <3>2. EnvelopeKept' /\ Trying' /\ Found' /\ FieldsAgree' /\ ErrorTellsFailure'
      BY <1>2, <1>4, <3>1, FailTells
    <3>. QED BY <1>1, <3>2 DEF JInv
  <2>5. CASE Whole(next, after)
    <3>1. /\ stage' = Profiled /\ kind' = stage
          /\ view' = [f \in Fields |-> IF f \in DOMAIN assigned THEN assigned[f]
                                       ELSE Stored(probe \o next, cut)[f]]
          /\ has' = FlagsAfter(probe, cut) \cup AssignedFlags(stage, r)
          /\ refused => refused'
          /\ UNCHANGED <<refs, outcome, error>>
      BY <2>1, <2>5
    <3>2. PICK w : w = view'
      OBVIOUS
    <3>3. PICK h : h = has'
      OBVIOUS
    <3>4. /\ w = [f \in Fields |-> IF f \in DOMAIN Assigned(stage, r) THEN Assigned(stage, r)[f]
                                   ELSE Stored(Probe(stage, r) \o FollowUp(stage, r), cut)[f]]
          /\ h = FlagsAfter(Probe(stage, r), cut) \cup AssignedFlags(stage, r)
          /\ cut \in Cuts(Probe(stage, r)) /\ Whole(Probe(stage, r), cut)
      BY <1>11, <1>13, <3>1, <3>2, <3>3 DEF probe, next, assigned
    <3>5. PICK x : x = r
      OBVIOUS
    <3>6. /\ \A f \in DOMAIN Source(stage, x) : w[f] = Source(stage, x)[f] /\ f \in h
          /\ \A f \in h : w[f] # NULL
          /\ w.status = view.status /\ w.result = x
          /\ stage \in {"NotifyPost", "NotifyNameState"} => w.nameObject = Get(x, "name")
          /\ stage \in RegistrationKinds =>
               /\ w.registration = IF stage = "NotifyRegistration" THEN x
                                   ELSE Get(x, "registration")
               /\ w.token = Get(w.registration, "token")
      BY <1>2, <1>4, <1>5, <1>8, <2>2, <3>4, <3>5, Profiles
    <3>7. KindFits'
      <4>1. kind' = stage /\ view'.result = x
        BY <3>1, <3>2, <3>6
      <4>2. Fits(stage, x)
        BY <2>2, <3>5
      <4>3. ASSUME ~refused', NEW k \in ProbeKinds, Fits(k, x) PROVE Place(stage) <= Place(k)
        <5>1. ~(Place(k) < Place(stage))
          BY <1>5, <3>1, <3>5, <4>3
        <5>2. Place(k) \in 1..11 /\ Place(stage) \in 1..11
          BY <1>2, PlaceIs
        <5>. QED BY <5>1, <5>2
      <4>. QED BY <4>1, <4>2, <4>3 DEF KindFits
    <3>8. FieldsAgree'
      <4>1. kind' = stage /\ view'.result = x /\ outcome' = "invalid" /\ view' = w /\ has' = h
        BY <1>4, <3>1, <3>2, <3>3, <3>6
      <4>2. \A f \in DOMAIN Source(stage, x) : view'[f] = Source(stage, x)[f] /\ f \in has'
        BY <3>6, <4>1
      <4>3. \A f \in has' : view'[f] # NULL
        BY <3>6, <4>1
      <4>. QED BY <3>7, <4>1, <4>2, <4>3 DEF FieldsAgree
    <3>9. /\ stage' \in {"outcome", "succeeded"} /\ stage' \notin ProbeKinds
          /\ stage' = "outcome" <=> call = "outcome"
      BY <1>3, <3>1 DEF Profiled
    <3>10. view'.status = [string |-> "ok"] /\ view'.result = r
      BY <1>6, <3>2, <3>5, <3>6
    <3>11. EnvelopeKept'
      BY <1>2, <1>4, <1>6, <3>1, <3>9, <3>10 DEF EnvelopeKept
    <3>12. Trying'
      BY <3>9 DEF Trying
    <3>13. Found'
      <4>1. kind' = stage /\ outcome' = "invalid" /\ view' = w /\ kind' \in ProbeKinds
            /\ kind' \notin {"Error", "NotifyNameList"}
        BY <1>2, <1>3, <1>4, <3>1, <3>2
      <4>2. Is(view'.result, "dict") /\ view'.result = x
        BY <1>5, <3>5, <3>10
      <4>3. kind' \in {"NotifyPost", "NotifyNameState"} =>
              view'.nameObject = Get(view'.result, "name")
        BY <3>6, <4>1, <4>2
      <4>4. kind' \in RegistrationKinds =>
              /\ view'.registration = IF kind' = "NotifyRegistration" THEN view'.result
                                      ELSE Get(view'.result, "registration")
              /\ view'.token = Get(view'.registration, "token")
        BY <3>6, <4>1, <4>2
      <4>. QED BY <1>2, <3>9, <3>10, <4>1, <4>2, <4>3, <4>4 DEF Found
    <3>14. ErrorTellsFailure'
      <4>1. call = "profile" => Acceptable(call, root)
        BY <1>4, <1>5, <1>6 DEF Acceptable
      <4>. QED BY <1>2, <1>4, <3>1, <3>9, <4>1 DEF ErrorTellsFailure
    <3>. QED BY <1>1, <3>8, <3>11, <3>12, <3>13, <3>14 DEF JInv
  <2>. QED BY <2>4, <2>5
<1>. QED BY <1>12, <1>13

\* The first kind that an object fits is the one it was given.
LEMMA FirstIs ==
    ASSUME NEW r, NEW k \in ProbeKinds, Fits(k, r),
           \A j \in ProbeKinds : Fits(j, r) => Place(k) <= Place(j)
    PROVE  (CHOOSE m \in ProbeKinds :
              Fits(m, r) /\ \A j \in ProbeKinds : Fits(j, r) => Place(m) <= Place(j)) = k
<1>. DEFINE P(m) == Fits(m, r) /\ \A j \in ProbeKinds : Fits(j, r) => Place(m) <= Place(j)
            first == CHOOSE m \in ProbeKinds : P(m)
<1>1. P(k)
  OBVIOUS
<1>2. first \in ProbeKinds /\ P(first)
  BY <1>1
<1>3. Place(first) <= Place(k) /\ Place(k) <= Place(first)
  BY <1>2
<1>4. /\ Place(first) \in 1..11 /\ ProbeOrder[Place(first)] = first
      /\ Place(k) \in 1..11 /\ ProbeOrder[Place(k)] = k
  BY <1>2, PlaceIs
<1>5. Place(first) = Place(k)
  BY <1>3, <1>4
<1>6. first = k
  BY <1>4, <1>5
<1>. QED BY <1>6

\* What a response must be for its outcome to be taken.
LEMMA OutcomeAcceptable ==
    ASSUME call = "outcome", Envelopes(call, root), Get(root, "status") = [string |-> "ok"],
           NEW r, r = Get(root, "result"), NEW k \in ProbeKinds, Fits(k, r), Is(r, "dict"),
           \A j \in ProbeKinds : Fits(j, r) => Place(k) <= Place(j)
    PROVE  Acceptable(call, root) <=>
             /\ k \in DOMAIN OutcomeKind
             /\ k \in {"NotifyCheck", "NotifyRegistrationWrapper"} =>
                  BindingTyped(Get(r, "registration"))
             /\ k = "NotifyRegistration" => BindingTyped(r)
<1>. DEFINE first ==
       CHOOSE m \in ProbeKinds :
         Fits(m, r) /\ \A j \in ProbeKinds : Fits(j, r) => Place(m) <= Place(j)
<1>1. first = k
  BY FirstIs
<1>2. Acceptable(call, root) <=>
        /\ first \in DOMAIN OutcomeKind
        /\ first \in {"NotifyCheck", "NotifyRegistrationWrapper"} =>
             BindingTyped(Get(r, "registration"))
        /\ first = "NotifyRegistration" => BindingTyped(r)
  BY DEF Acceptable
<1>. HIDE DEF first
<1>. QED BY <1>1, <1>2

LEMMA OutcomeTells == JInv /\ Outcome => JInv'
<1>. SUFFICES ASSUME JInv, Outcome PROVE JInv'
  OBVIOUS
<1>. DEFINE chain == OutcomeChain
            r == view.result
            v == view.registration
<1>1. IInv'
  BY OutcomeOK DEF JInv
<1>2. stage = "outcome" /\ stage \in ResponseStages /\ UNCHANGED <<call, root>>
  BY DEF Outcome, ResponseStages
<1>3. {"Error", "NotifyNameList"} \cap ProbeKinds = {}
  BY KindsAre
<1>4. /\ root \in Payloads /\ error = "none"
      /\ Envelopes(call, root) /\ view.status = Get(root, "status")
      /\ view.status = [string |-> "ok"] => r = Get(root, "result")
      /\ Decoded(r)
      /\ DOMAIN view = Fields /\ has \subseteq Flagged /\ refused \in BOOLEAN
  BY <1>2, ResponseKnown
<1>5. /\ call = "outcome" /\ kind \in ProbeKinds \cup {"Error", "NotifyNameList"}
      /\ kind = "Error" => view.status = [string |-> "error"]
      /\ kind # "Error" => view.status = [string |-> "ok"]
      /\ kind = "NotifyNameList" => Is(r, "array")
      /\ kind \in ProbeKinds => Is(r, "dict")
      /\ kind \in {"NotifyPost", "NotifyNameState"} => view.nameObject = Get(r, "name")
      /\ kind \in RegistrationKinds =>
          /\ v = IF kind = "NotifyRegistration" THEN r ELSE Get(r, "registration")
          /\ view.token = Get(v, "token")
  BY <1>2 DEF JInv, Found
<1>6. /\ kind \in ProbeKinds => Fits(kind, r)
      /\ kind \in ProbeKinds /\ ~refused =>
            \A k \in ProbeKinds : Fits(k, r) => Place(kind) <= Place(k)
      /\ kind \in ProbeKinds =>
            \A f \in DOMAIN Source(kind, r) : view[f] = Source(kind, r)[f] /\ f \in has
      /\ \A f \in has : view[f] # NULL
  BY DEF JInv, FieldsAgree, KindFits
<1>7. PICK cut \in Cuts(chain) :
        /\ refused' = (refused \/ Refuses(chain, cut))
        /\ IF kind \notin DOMAIN OutcomeKind THEN Fail("invalid_packet")
           ELSE IF ~Whole(chain, cut)
           THEN Fail(IF kind \in {"NotifyPost", "NotifyNameState"} THEN "invalid_packet"
                     ELSE ErrorOf(chain, cut))
           ELSE /\ stage' = "succeeded" /\ outcome' = OutcomeKind[kind]
                /\ view' = Stored(chain, cut)
                /\ UNCHANGED <<refs, has, kind, error>>
  BY DEF Outcome
<1>8. DOMAIN OutcomeKind = {"Error", "NotifyPost", "NotifyNameState", "NotifyValidity",
                            "NotifyCancel"} \cup RegistrationKinds
  BY DEF OutcomeKind, RegistrationKinds
<1>9. RegistrationKinds \cup {"NotifyPost", "NotifyNameState", "NotifyValidity",
                              "NotifyCancel"} \subseteq ProbeKinds
  BY KindsAre DEF RegistrationKinds
\* What the chain is, for each kind.
<1>10. ASSUME kind \in {"NotifyPost", "NotifyNameState"}
       PROVE  chain = NameChain(view.nameObject) /\ ValidName(view.nameObject)
  <2>1. ValidName(Get(r, "name"))
    BY <1>6, <1>9, <1>10 DEF Fits
  <2>. QED BY <1>5, <1>10, <2>1 DEF OutcomeChain
<1>11. ASSUME kind \in RegistrationKinds
       PROVE  chain = RegistrationViewChain(v) /\ ValidRegistration(v)
  <2>1. Fits(kind, r)
    BY <1>6, <1>9, <1>11
  <2>2. ValidRegistration(v)
    BY <1>5, <1>11, <2>1 DEF Fits, RegistrationKinds
  <2>. QED BY <1>11, <2>2 DEF OutcomeChain, RegistrationKinds
<1>12. ASSUME kind \notin RegistrationKinds \cup {"NotifyPost", "NotifyNameState"}
       PROVE  chain = <<>> /\ Whole(chain, cut)
  <2>1. chain = <<>>
    BY <1>12 DEF OutcomeChain, RegistrationKinds
  <2>. QED BY <2>1 DEF Whole, Succeeded
\* What the packet must be.
<1>13. ASSUME kind \in ProbeKinds, ~refused
       PROVE  Acceptable(call, root) <=>
                /\ kind \in DOMAIN OutcomeKind
                /\ kind \in RegistrationKinds => BindingTyped(v)
  <2>1. PICK x : x = r
    OBVIOUS
  <2>2. /\ Get(root, "status") = [string |-> "ok"] /\ x = Get(root, "result")
        /\ Is(x, "dict") /\ Fits(kind, x)
        /\ \A k \in ProbeKinds : Fits(k, x) => Place(kind) <= Place(k)
    BY <1>3, <1>4, <1>5, <1>6, <1>13, <2>1
  <2>3. Acceptable(call, root) <=>
          /\ kind \in DOMAIN OutcomeKind
          /\ kind \in {"NotifyCheck", "NotifyRegistrationWrapper"} =>
               BindingTyped(Get(x, "registration"))
          /\ kind = "NotifyRegistration" => BindingTyped(x)
    BY <1>4, <1>5, <1>13, <2>2, OutcomeAcceptable
  <2>. QED BY <1>5, <2>1, <2>3 DEF RegistrationKinds
<1>. HIDE DEF chain
<1>14. CASE kind \notin DOMAIN OutcomeKind
  <2>1. Fail("invalid_packet") /\ (refused => refused')
    BY <1>7, <1>14
  <2>2. kind # "Error"
    BY <1>8, <1>14
  <2>3. CASE kind = "NotifyNameList"
    <3>1. ~Is(r, "dict")
      BY <1>4, <1>5, <2>3, OneType
    <3>2. ~Acceptable(call, root)
      BY <1>4, <1>5, <2>2, <3>1 DEF Acceptable
    <3>3. EnvelopeKept' /\ Trying' /\ Found' /\ FieldsAgree' /\ ErrorTellsFailure'
      BY <1>2, <1>4, <2>1, <3>2, FailTells
    <3>. QED BY <1>1, <3>3 DEF JInv
  <2>4. CASE kind \in ProbeKinds
    <3>1. Acceptable(call, root) => refused'
      BY <1>13, <1>14, <2>1, <2>4
    <3>2. EnvelopeKept' /\ Trying' /\ Found' /\ FieldsAgree' /\ ErrorTellsFailure'
      BY <1>2, <1>4, <2>1, <3>1, FailTells
    <3>. QED BY <1>1, <3>2 DEF JInv
  <2>. QED BY <1>5, <2>2, <2>3, <2>4
<1>15. CASE kind \in DOMAIN OutcomeKind /\ ~Whole(chain, cut)
  <2>. DEFINE e == IF kind \in {"NotifyPost", "NotifyNameState"} THEN "invalid_packet"
                   ELSE ErrorOf(chain, cut)
  <2>1. Fail(e) /\ (refused \/ Refuses(chain, cut) => refused')
    BY <1>7, <1>15
  <2>2. e \notin {"none", "unsupported_version"} /\ (Acceptable(call, root) => refused')
    <3>1. CASE kind \in {"NotifyPost", "NotifyNameState"}
      <4>1. Refuses(chain, cut)
        BY <1>7, <1>10, <1>15, <3>1, NameChainPasses
      <4>. QED BY <2>1, <3>1, <4>1
    <3>2. CASE kind \in RegistrationKinds
      <4>1. /\ ErrorOf(chain, cut) \notin {"none", "unsupported_version"}
            /\ BindingTyped(v) => Refuses(chain, cut)
        BY <1>7, <1>11, <1>15, <3>2, RegistrationViewError
      <4>2. Acceptable(call, root) => refused'
        BY <1>9, <1>13, <2>1, <3>2, <4>1
      <4>. QED BY <4>1, <4>2
    <3>. QED BY <1>12, <1>15, <3>1, <3>2
  <2>. HIDE DEF e
  <2>3. EnvelopeKept' /\ Trying' /\ Found' /\ FieldsAgree' /\ ErrorTellsFailure'
    BY <1>2, <1>4, <2>1, <2>2, FailTells
  <2>. QED BY <1>1, <2>3 DEF JInv
<1>16. CASE kind \in DOMAIN OutcomeKind /\ Whole(chain, cut)
  <2>1. /\ stage' = "succeeded" /\ outcome' = OutcomeKind[kind]
        /\ view' = Stored(chain, cut)
        /\ UNCHANGED <<refs, has, kind, error>>
        /\ refused => refused'
    BY <1>7, <1>16
  <2>2. Into(chain) \subseteq {"name", "scope", "viewToken", "sessionID", "bindingID",
                               "bindingHandle", "lastSeenGeneration", "firstCheckPending"}
    <3>1. CASE kind \in {"NotifyPost", "NotifyNameState"}
      BY <1>10, <3>1, NameChainIs
    <3>2. CASE kind \in RegistrationKinds
      BY <1>11, <3>2, RegistrationViewIs
    <3>3. CASE kind \notin RegistrationKinds \cup {"NotifyPost", "NotifyNameState"}
      BY <1>12, <3>3 DEF Into
    <3>. QED BY <3>1, <3>2, <3>3
  <2>3. \A f \in Flagged \cup {"result", "status", "registration"} : view'[f] = view[f]
    <3>1. Flagged \cup {"result", "status", "registration"} \subseteq Fields \ Into(chain)
      BY <2>2 DEF Flagged, Fields
    <3>. QED BY <2>1, <3>1, StoredElse
  <2>4. view'.result = r /\ view'.registration = v /\ view'.token = view.token
    BY <2>3 DEF Flagged
  <2>5. \A f \in has : view'[f] = view[f]
    BY <1>4, <2>3
  <2>6. KindFits'
    <3>1. kind' = kind /\ view'.result = r /\ (~refused' => ~refused)
      BY <2>1, <2>4
    <3>. QED BY <1>6, <3>1 DEF KindFits
  <2>7. ASSUME outcome' \in {"registration", "check"}
        PROVE  view'.viewToken = view'.token /\ view'.registration # NULL
    <3>1. OutcomeKind[kind] \in {"registration", "check"}
      BY <2>1, <2>7
    <3>2. kind \in RegistrationKinds
      BY <1>16, <3>1 DEF OutcomeKind, RegistrationKinds
    <3>3. Stored(chain, cut).viewToken = Get(v, "token")
      BY <1>11, <1>16, <3>2, RegistrationViewIs
    <3>4. v # NULL
      BY <1>11, <3>2, RegistrationIs
    <3>. QED BY <1>5, <2>1, <2>4, <3>2, <3>3, <3>4
  <2>8. FieldsAgree'
    <3>1. kind' = kind /\ has' = has /\ view'.result = r
      BY <2>1, <2>4
    <3>2. kind \in ProbeKinds =>
            \A f \in DOMAIN Source(kind, r) : view'[f] = Source(kind, r)[f] /\ f \in has
      BY <1>6, <2>5
    <3>3. \A f \in has : view'[f] # NULL
      BY <1>6, <2>5
    <3>. QED BY <2>6, <2>7, <3>1, <3>2, <3>3 DEF FieldsAgree
  <2>9. ~refused' => Acceptable(call, root)
    <3>1. CASE kind = "Error"
      BY <1>4, <1>5, <3>1, StatusesDiffer DEF Acceptable
    <3>2. CASE kind \in ProbeKinds
      <4>1. kind \in RegistrationKinds => BindingTyped(v)
        <5>1. ASSUME kind \in RegistrationKinds PROVE AllOk(chain)
          <6>1. Chain(chain)
            BY <1>11, <5>1, RegistrationViewIs DEF Tidy
          <6>. QED BY <1>7, <1>16, <6>1, WholeIff
        <5>. QED BY <1>11, <5>1, RegistrationViewTyped
      <4>. QED BY <1>13, <1>16, <2>1, <3>2, <4>1
    <3>. QED BY <1>5, <1>8, <1>9, <1>16, <3>1, <3>2
  <2>10. stage' \notin ProbeKinds /\ stage' \notin ResponseStages
    BY <2>1, KindsAre DEF ResponseStages
  <2>11. EnvelopeKept' /\ Trying' /\ Found' /\ ErrorTellsFailure'
    BY <1>2, <1>4, <2>1, <2>9, <2>10 DEF EnvelopeKept, Trying, Found, ErrorTellsFailure
  <2>. QED BY <1>1, <2>8, <2>11 DEF JInv
<1>. QED BY <1>14, <1>15, <1>16

LEMMA Told == Spec => []JInv
<1>1. Init => JInv
  BY InitTells
<1>2. JInv /\ [Next]_vars => JInv'
  <2>1. JInv /\ UNCHANGED vars => JInv'
    BY DEF JInv, IInv, PacketOwned, TypeOK, EnvelopeKept, Trying, Found, FieldsAgree, KindFits,
           ErrorTellsFailure, vars
  <2>. QED
    BY <2>1, CallTells, DecodeTells, ReadTells, RouteTells, ProfileTells, TryTells,
       OutcomeTells, DoneTells DEF Next
<1>. QED BY <1>1, <1>2, PTL DEF Spec

\* An object that fits several kinds is given the first, unless memory ran out
\* while an earlier one was tried; the values of a profile are those of its kind,
\* whatever the kinds that were tried before it have left behind, and a flag
\* stands for a value.  (FXCFControlPacket.c, _FXCFControlResponseProfileInit: the
\* kinds are tried one after the other on the same result.)
THEOREM Agree == Spec => []FieldsAgree
<1>1. JInv => FieldsAgree
  BY DEF JInv
<1>. QED BY <1>1, Told, PTL

\* A call fails exactly when its packet is not acceptable or memory has run out,
\* and then errorOut says so; after a success it says nothing, also when the call
\* before had failed.  (FXCFControlPacket.c, the Init functions of requests,
\* routes, responses, profiles and outcomes, with _FXCFControlPacketDecodeEnvelope.)
THEOREM Tells == Spec => []ErrorTellsFailure
<1>1. JInv => ErrorTellsFailure
  BY DEF JInv
<1>. QED BY <1>1, Told, PTL

-----------------------------------------------------------------------------
(* Texts: what a result shows of the packet.                               *)

RouteTexts == {"clientRegistrationID", "expectedSessionID", "name", "queueName", "scope"}

\* A profile of kind k has in its fields, w, what its texts start from.
ProfileHas(k, w, r) ==
    /\ k \in ProbeKinds => w.resultObject = r /\ Is(r, "dict")
    /\ k = "NotifyNameList" => w.notifyNames = r /\ ValidNames(r)
    /\ k \in RegistrationKinds \cup {"NotifyCancel"} =>
        w.registration = IF k = "NotifyRegistration" THEN r ELSE Get(r, "registration")
    /\ k \in {"NotifyPost", "NotifyNameState"} => w.nameObject = Get(r, "name")
    /\ k = "ControlCapabilities" =>
        w.capabilities = r /\ w.featureFlags = Get(r, "feature_flags")
    /\ k = "ControlHealth" => w.health = r
    /\ k = "DiagnosticsSnapshot" => w.daemon = Get(r, "daemon")

RequestShown ==
    /\ view.service = Get(root, "service") /\ view.method = Get(root, "method")
    /\ view.params = Get(root, "params")
RouteShown ==
    \A f \in RouteTexts :
        /\ \E key : view[f] = Get(view.params, key)
        /\ view[f] = NULL \/ Is(view[f], "string")
ResponseShown ==
    /\ view.status = Get(root, "status")
    /\ view.status = [string |-> "ok"] => view.result = Get(root, "result")
    /\ view.status = [string |-> "error"] =>
        /\ view.errorCode = Get(Get(root, "error"), "code")
        /\ view.errorMessage = Get(Get(root, "error"), "message")
ProfileShown ==
    /\ kind \in ProbeKinds \cup {"Error", "NotifyNameList"}
    /\ kind = "Error" <=> view.status = [string |-> "error"]
    /\ kind # "Error" => view.status = [string |-> "ok"]
    /\ ProfileHas(kind, view, view.result)
OutcomeShown ==
    /\ kind \in DOMAIN OutcomeKind /\ outcome = OutcomeKind[kind]
    /\ kind \in {"NotifyPost", "NotifyNameState"} =>
        /\ view.name = Get(view.nameObject, "name")
        /\ view.scope = Get(view.nameObject, "scope")
    /\ kind \in RegistrationKinds =>
        /\ view.name = Get(view.registration, "name")
        /\ view.scope = Get(view.registration, "scope")
        /\ view.sessionID = Get(view.registration, "session_id")
        /\ view.bindingID = Get(view.registration, "local_transport_binding_id")
        /\ view.bindingHandle = Get(view.registration, "local_transport_handle")
        /\ BindingTyped(view.registration)

Shown ==
    /\ stage = "succeeded" /\ call \in {"request", "route"} => RequestShown
    /\ stage = "succeeded" /\ call = "route" => RouteShown
    /\ stage \in ResponseStages \cup {"succeeded"} /\ call \notin {"request", "route"} =>
        ResponseShown
    /\ stage \in {"outcome", "succeeded"} /\ call \in {"profile", "outcome"} => ProfileShown
    /\ stage = "succeeded" /\ call = "outcome" => OutcomeShown

LEMMA ShowsNothing ==
    ASSUME stage' \in {"idle", "decode", "read", "route", "failed"}
    PROVE  Shown'
<1>1. stage' \notin ResponseStages \cup {"succeeded"}
  BY KindsAre DEF ResponseStages
<1>. QED BY <1>1 DEF Shown, ResponseStages

LEMMA ReadShows == JInv /\ ReadEnvelope => Shown'
<1>. SUFFICES ASSUME JInv, ReadEnvelope PROVE Shown'
  OBVIOUS
<1>1. stage = "read" /\ UNCHANGED <<call, root>> /\ call \in Calls /\ view = Empty
  BY DEF ReadEnvelope, JInv, IInv, PacketOwned, TypeOK
<1>2. PICK cut \in Cuts(Envelope) :
        IF Whole(Envelope, cut)
        THEN /\ stage' = CASE call \in {"request", "response"} -> "succeeded"
                           [] call = "route" -> "route"
                           [] OTHER -> "profile"
             /\ view' = [Stored(Envelope, cut) EXCEPT !.packet = root]
        ELSE Fail(ErrorOf(Envelope, cut))
  BY DEF ReadEnvelope
<1>3. CASE Whole(Envelope, cut)
  <2>. DEFINE s == Stored(Envelope, cut)
  <2>1. /\ call \in {"request", "route"} =>
            /\ s.service = Get(root, "service") /\ s.method = Get(root, "method")
            /\ s.params = Get(root, "params")
        /\ call \notin {"request", "route"} =>
            /\ s.status = Get(root, "status")
            /\ s.result = IF Get(root, "status") = [string |-> "ok"]
                          THEN Get(root, "result") ELSE NULL
            /\ Get(root, "status") = [string |-> "error"] =>
                /\ s.errorCode = Get(Get(root, "error"), "code")
                /\ s.errorMessage = Get(Get(root, "error"), "message")
    BY <1>1, <1>3, EnvelopeStored
  <2>2. view' = [s EXCEPT !.packet = root]
    BY <1>2, <1>3
  <2>. HIDE DEF s
  <2>3. /\ view'.service = s.service /\ view'.method = s.method /\ view'.params = s.params
        /\ view'.status = s.status /\ view'.result = s.result
        /\ view'.errorCode = s.errorCode /\ view'.errorMessage = s.errorMessage
    BY <2>2
  <2>4. \/ stage' = "succeeded" /\ call \in {"request", "response"}
        \/ stage' = "route" /\ call = "route"
        \/ stage' = "profile" /\ call \in {"profile", "outcome"}
    BY <1>1, <1>2, <1>3 DEF Calls
  <2>5. call \in {"request", "route"} => RequestShown'
    BY <1>1, <2>1, <2>3 DEF RequestShown
  <2>6. call \notin {"request", "route"} => ResponseShown'
    BY <1>1, <2>1, <2>3, StatusesDiffer DEF ResponseShown
  <2>. QED BY <1>1, <2>4, <2>5, <2>6 DEF Shown
<1>4. CASE ~Whole(Envelope, cut)
  BY <1>2, <1>4, ShowsNothing DEF Fail
<1>. QED BY <1>3, <1>4

LEMMA RouteShows == JInv /\ Route => Shown'
<1>. SUFFICES ASSUME JInv, Route PROVE Shown'
  OBVIOUS
<1>. DEFINE params == Params(view.params)
            v == view.params
<1>1. stage = "route" /\ UNCHANGED <<call, root>>
  BY DEF Route
<1>2. /\ call = "route" /\ view.service = Get(root, "service")
      /\ view.method = Get(root, "method") /\ view.params = Get(root, "params")
  BY <1>1 DEF JInv, EnvelopeKept
<1>3. \/ \E e : Fail(e)
      \/ \E cut \in Cuts(params) :
            Whole(params, cut) /\ stage' = "succeeded" /\ view' = Stored(params, cut)
  BY Zenon DEF Route
<1>4. ASSUME NEW e, Fail(e) PROVE Shown'
  BY <1>4, ShowsNothing DEF Fail
<1>5. ASSUME NEW cut \in Cuts(params), Whole(params, cut), stage' = "succeeded",
             view' = Stored(params, cut)
      PROVE  Shown'
  <2>1. Tidy(params) /\ Chain(params)
    BY ParamsIs DEF Tidy
  <2>2. AllOk(params)
    BY <1>5, <2>1, WholeIff
  <2>3. \A key \in {"name", "scope", "expected_session_id", "client_registration_id",
                    "queue_name"} : Get(v, key) = NULL \/ Is(Get(v, key), "string")
    BY <2>2, ParamsMean DEF TypedParams
  <2>4. {"service", "method", "params"} \subseteq Fields \ Into(params)
    BY ParamsIs DEF Fields
  <2>5. view'.service = view.service /\ view'.method = view.method /\ view'.params = v
    BY <1>5, <2>4, StoredElse
  <2>6. /\ view'.expectedSessionID = Get(v, "expected_session_id")
        /\ view'.clientRegistrationID = Get(v, "client_registration_id")
        /\ view'.queueName = Get(v, "queue_name")
        /\ view'.name = Get(v, "name") /\ view'.scope = Get(v, "scope")
    BY <1>5, ParamsIs
  <2>7. RequestShown'
    BY <1>1, <1>2, <2>5 DEF RequestShown
  <2>8. ASSUME NEW f \in RouteTexts
        PROVE  /\ \E key : view'[f] = Get(v, key)
               /\ view'[f] = NULL \/ Is(view'[f], "string")
    BY <2>3, <2>6 DEF RouteTexts
  <2>9. RouteShown'
    BY <2>5, <2>8 DEF RouteShown
  <2>. QED BY <1>1, <1>2, <1>5, <2>7, <2>9 DEF Shown
<1>. QED BY <1>3, <1>4, <1>5

LEMMA ProfileShows == JInv /\ Shown /\ Profile => Shown'
<1>. SUFFICES ASSUME JInv, Shown, Profile PROVE Shown'
  OBVIOUS
<1>1. stage = "profile" /\ UNCHANGED <<call, root>> /\ stage \in ResponseStages
  BY DEF Profile, ResponseStages
<1>2. /\ call \in {"profile", "outcome"}
      /\ view.status = [string |-> "error"] => view.result = NULL
      /\ view.status \in {[string |-> "ok"], [string |-> "error"]}
      /\ DOMAIN view = Fields
  BY <1>1, ResponseKnown
<1>3. {"invalid", "Error", "NotifyNameList"} \cap ProbeKinds = {}
  BY KindsAre
<1>4. Profiled = IF call = "outcome" THEN "outcome" ELSE "succeeded"
  BY DEF Profiled
<1>5. ResponseShown
  BY <1>1, <1>2 DEF Shown
<1>6. ASSUME /\ \A f \in {"status", "result", "errorCode", "errorMessage"} : view'[f] = view[f]
             /\ stage' \in {"outcome", "succeeded"} => ProfileShown'
             /\ stage' = "succeeded" => call # "outcome"
      PROVE  Shown'
  <2>1. /\ view'.status = view.status /\ view'.result = view.result
        /\ view'.errorCode = view.errorCode /\ view'.errorMessage = view.errorMessage
    BY <1>6
  <2>2. ResponseShown'
    BY <1>1, <1>5, <2>1 DEF ResponseShown
  <2>. QED BY <1>1, <1>2, <1>6, <2>2 DEF Shown
<1>7. CASE \E e : Fail(e)
  BY <1>7, ShowsNothing DEF Fail
<1>8. CASE /\ view.status = [string |-> "error"]
           /\ kind' = "Error" /\ stage' = Profiled
           /\ UNCHANGED <<refs, view, has, outcome, error, refused>>
  <2>1. ProfileHas("Error", view, view.result)
    BY <1>3 DEF ProfileHas, RegistrationKinds
  <2>2. ProfileShown'
    BY <1>8, <2>1 DEF ProfileShown
  <2>. QED BY <1>1, <1>4, <1>6, <1>8, <2>2
<1>9. CASE /\ Is(view.result, "array") /\ ValidNames(view.result)
           /\ kind' = "NotifyNameList" /\ stage' = Profiled
           /\ view' = [view EXCEPT !.resultArray = view.result,
                                   !.notifyNames = view.result]
  <2>1. view.status = [string |-> "ok"]
    BY <1>2, <1>9 DEF Is
  <2>2. /\ \A f \in {"status", "result", "errorCode", "errorMessage"} : view'[f] = view[f]
        /\ view'.notifyNames = view.result
    BY <1>2, <1>9 DEF Fields
  <2>3. view'.status = view.status /\ view'.result = view.result
    BY <2>2
  <2>4. ProfileHas("NotifyNameList", view', view'.result)
    BY <1>3, <1>9, <2>2, <2>3 DEF ProfileHas, RegistrationKinds
  <2>5. ProfileShown'
    BY <1>9, <2>1, <2>3, <2>4, StatusesDiffer DEF ProfileShown
  <2>. QED BY <1>1, <1>4, <1>6, <1>9, <2>2, <2>5
<1>10. CASE /\ stage' = ProbeOrder[1]
            /\ view' = [view EXCEPT !.resultObject = view.result]
  <2>1. \A f \in {"status", "result", "errorCode", "errorMessage"} : view'[f] = view[f]
    BY <1>2, <1>10 DEF Fields
  <2>2. stage' \notin {"outcome", "succeeded"}
    BY <1>10 DEF ProbeOrder
  <2>. QED BY <1>6, <2>1, <2>2
<1>. QED BY <1>7, <1>8, <1>9, <1>10, Zenon DEF Profile

\* The lookups of a kind, and the assignments after them, leave the profile with
\* what its texts start from.
LEMMA ProfileMade ==
    ASSUME NEW k \in ProbeKinds, NEW r, Is(r, "dict"), Fits(k, r), view.resultObject = r,
           NEW cut \in Cuts(Probe(k, r)), Whole(Probe(k, r), cut),
           NEW w, w = [f \in Fields |-> IF f \in DOMAIN Assigned(k, r) THEN Assigned(k, r)[f]
                                        ELSE Stored(Probe(k, r) \o FollowUp(k, r), cut)[f]],
           k \in {"NotifyPost", "NotifyNameState"} => w.nameObject = Get(r, "name"),
           k \in RegistrationKinds =>
               w.registration = IF k = "NotifyRegistration" THEN r ELSE Get(r, "registration")
    PROVE  ProfileHas(k, w, r)
<1>. DEFINE probe == Probe(k, r)
            assigned == Assigned(k, r)
<1>1. Tidy(probe) /\ Chain(probe) /\ Into(probe) \subseteq ProbeFields
  BY ProbeIs DEF Tidy
<1>2. {"resultObject", "registration", "capabilities", "featureFlags", "health", "daemon"}
          \subseteq Fields
  BY DEF Fields
<1>3. "resultObject" \notin DOMAIN assigned
  BY DEF Assigned, OfRegistration
<1>4. "NotifyNameList" \notin ProbeKinds
  BY KindsAre
<1>5. w.resultObject = Stored(probe \o FollowUp(k, r), cut).resultObject
  BY <1>2, <1>3
<1>6. CASE k \in {"NotifyPost", "NotifyNameState"}
  <2>1. "resultObject" \in Fields \ Into(probe \o FollowUp(k, r))
    <3>1. CASE k = "NotifyPost"
      <4>1. probe = PostProbe(r)
        BY <3>1 DEF Probe
      <4>2. "resultObject" \notin Into(PostProbe(r) \o FollowUp("NotifyPost", r))
        BY PostWhole
      <4>. HIDE DEF probe
      <4>. QED BY <1>2, <3>1, <4>1, <4>2
    <3>2. CASE k = "NotifyNameState"
      <4>1. probe = NameStateProbe(r)
        BY <3>2 DEF Probe
      <4>2. "resultObject" \notin Into(NameStateProbe(r) \o FollowUp("NotifyNameState", r))
        BY NameStateWhole
      <4>. HIDE DEF probe
      <4>. QED BY <1>2, <3>2, <4>1, <4>2
    <3>. QED BY <1>6, <3>1, <3>2
  <2>2. w.resultObject = r
    BY <1>5, <2>1, StoredElse
  <2>. QED BY <1>4, <1>6, <2>2 DEF ProfileHas, RegistrationKinds
<1>7. CASE k \notin {"NotifyPost", "NotifyNameState"}
  <2>1. probe \o FollowUp(k, r) = probe
    <3>1. FollowUp(k, r) = <<>>
      BY <1>7 DEF FollowUp
    <3>2. PICK S : probe \in Seq(S)
      BY <1>1 DEF Chain
    <3>. HIDE DEF probe
    <3>. QED BY <3>1, <3>2
  <2>2. \A f \in Fields : w[f] = IF f \in DOMAIN assigned THEN assigned[f]
                                 ELSE Stored(probe, cut)[f]
    BY <2>1
  <2>3. w.resultObject = r
    <3>1. "resultObject" \in Fields \ Into(probe)
      BY <1>1, <1>2 DEF ProbeFields
    <3>. QED BY <1>5, <2>1, <3>1, StoredElse
  <2>4. ASSUME k = "NotifyCancel" PROVE w.registration = Get(r, "registration")
    <3>1. "registration" \notin DOMAIN assigned
      BY <2>4 DEF Assigned, OfRegistration
    <3>2. Stored(probe, cut).registration = Get(r, "registration")
      BY <2>4, CancelChain DEF Probe
    <3>. HIDE DEF assigned, probe
    <3>. QED BY <1>2, <2>2, <3>1, <3>2
  <2>5. ASSUME k = "ControlCapabilities"
        PROVE  w.capabilities = r /\ w.featureFlags = Get(r, "feature_flags")
    <3>1. assigned = [capabilities |-> r]
      BY <2>5 DEF Assigned
    <3>2. DOMAIN assigned = {"capabilities"} /\ assigned.capabilities = r
      BY <3>1
    <3>3. Stored(probe, cut).featureFlags = Get(r, "feature_flags")
      BY <2>5, CapabilitiesChain DEF Probe
    <3>. HIDE DEF assigned, probe
    <3>. QED BY <1>2, <2>2, <3>2, <3>3
  <2>6. ASSUME k = "ControlHealth" PROVE w.health = r
    <3>1. assigned = [health |-> r]
      BY <2>6 DEF Assigned
    <3>2. DOMAIN assigned = {"health"} /\ assigned.health = r
      BY <3>1
    <3>. HIDE DEF assigned, probe
    <3>. QED BY <1>2, <2>2, <3>2
  <2>7. ASSUME k = "DiagnosticsSnapshot" PROVE w.daemon = Get(r, "daemon")
    <3>1. DOMAIN assigned = {}
      BY <2>7 DEF Assigned
    <3>2. Stored(probe, cut).daemon = Get(r, "daemon")
      BY <2>7, DiagnosticsChain DEF Probe
    <3>. HIDE DEF assigned, probe
    <3>. QED BY <1>2, <2>2, <3>1, <3>2
  <2>. QED BY <1>4, <1>7, <2>3, <2>4, <2>5, <2>6, <2>7 DEF ProfileHas, RegistrationKinds
<1>. QED BY <1>6, <1>7

LEMMA TryShows == JInv /\ Shown /\ Try => Shown'
<1>. SUFFICES ASSUME JInv, Shown, Try PROVE Shown'
  OBVIOUS
<1>. DEFINE r == view.result
            probe == Probe(stage, r)
            assigned == Assigned(stage, r)
            whole == probe \o FollowUp(stage, r)
<1>1. stage \in ProbeKinds /\ stage \in ResponseStages /\ UNCHANGED <<call, root>>
  BY DEF Try, ResponseStages
<1>2. /\ call \in {"profile", "outcome"} /\ Decoded(r)
      /\ view.status \in {[string |-> "ok"], [string |-> "error"]}
      /\ r # NULL <=> view.status = [string |-> "ok"]
      /\ DOMAIN view = Fields /\ has \subseteq Flagged
  BY <1>1, ResponseKnown
<1>3. /\ view.resultObject = r /\ Is(r, "dict") /\ "pendingGeneration" \notin has
      /\ \A f \in has : view[f] # NULL
  BY <1>1 DEF JInv, Trying, FieldsAgree
<1>4. /\ {"invalid", "Error", "NotifyNameList"} \cap ProbeKinds = {}
      /\ view.status = [string |-> "ok"]
  BY <1>2, <1>3, KindsAre DEF Is
<1>5. Tidy(probe) /\ Chain(probe) /\ Into(probe) \subseteq ProbeFields
  BY <1>1, ProbeIs DEF Tidy
<1>6. ResponseShown
  BY <1>1, <1>2 DEF Shown
<1>7. \/ \E e : Fail(e)
      \/ \E cut \in Cuts(probe) :
            stage' = ProbeOrder[Place(stage) + 1] /\ view' = Stored(probe, cut)
            /\ ~Whole(probe, cut)
      \/ \E cut \in Cuts(probe) :
            /\ Whole(probe, cut)
            /\ stage' = Profiled /\ kind' = stage
            /\ view' = [f \in Fields |-> IF f \in DOMAIN assigned THEN assigned[f]
                                         ELSE Stored(whole, cut)[f]]
  BY <1>3, Zenon DEF Try
<1>8. ASSUME NEW e, Fail(e) PROVE Shown'
  BY <1>8, ShowsNothing DEF Fail
<1>9. ASSUME NEW cut \in Cuts(probe), ~Whole(probe, cut),
             stage' = ProbeOrder[Place(stage) + 1], view' = Stored(probe, cut)
      PROVE  Shown'
  <2>1. stage' \in ProbeKinds
    <3>1. stage # "GenericObject"
      BY <1>9, LastKind
    <3>2. Place(stage) \in 1..11 /\ ProbeOrder[Place(stage)] = stage
      BY <1>1, PlaceIs
    <3>3. Place(stage) # 11
      BY <3>1, <3>2 DEF ProbeOrder
    <3>4. Place(stage) + 1 \in 1..11
      BY <3>2, <3>3
    <3>. QED BY <1>9, <3>4, PlaceIs
  <2>2. stage' \notin {"outcome", "succeeded"}
    BY <2>1, KindsAre
  <2>3. {"status", "result", "errorCode", "errorMessage"} \subseteq Fields \ Into(probe)
    BY <1>5 DEF ProbeFields, Fields
  <2>4. /\ view'.status = view.status /\ view'.result = r
        /\ view'.errorCode = view.errorCode /\ view'.errorMessage = view.errorMessage
    BY <1>9, <2>3, StoredElse
  <2>5. ResponseShown'
    BY <1>1, <1>6, <2>4 DEF ResponseShown
  <2>. QED BY <1>1, <1>2, <2>2, <2>5 DEF Shown
<1>10. ASSUME NEW cut \in Cuts(probe), Whole(probe, cut), stage' = Profiled, kind' = stage,
              view' = [f \in Fields |-> IF f \in DOMAIN assigned THEN assigned[f]
                                        ELSE Stored(whole, cut)[f]]
       PROVE  Shown'
  <2>1. Fits(stage, r)
    BY <1>1, <1>2, <1>3, <1>5, <1>10, ProbeFits, WholeIff
  <2>2. PICK w : w = view'
    OBVIOUS
  <2>3. w = [f \in Fields |-> IF f \in DOMAIN Assigned(stage, r) THEN Assigned(stage, r)[f]
                              ELSE Stored(Probe(stage, r) \o FollowUp(stage, r), cut)[f]]
    BY <1>10, <2>2
  <2>4. PICK x : x = r
    OBVIOUS
  <2>5. /\ cut \in Cuts(Probe(stage, x)) /\ Whole(Probe(stage, x), cut) /\ Fits(stage, x)
        /\ w = [f \in Fields |-> IF f \in DOMAIN Assigned(stage, x) THEN Assigned(stage, x)[f]
                                 ELSE Stored(Probe(stage, x) \o FollowUp(stage, x), cut)[f]]
        /\ view.resultObject = x /\ view.result = x /\ Is(x, "dict")
    BY <1>3, <1>10, <2>1, <2>3, <2>4
  <2>6. PICK h : h = FlagsAfter(Probe(stage, x), cut) \cup AssignedFlags(stage, x)
    OBVIOUS
  <2>7. /\ w.status = view.status /\ w.result = x
        /\ stage \in {"NotifyPost", "NotifyNameState"} => w.nameObject = Get(x, "name")
        /\ stage \in RegistrationKinds =>
             w.registration = IF stage = "NotifyRegistration" THEN x
                              ELSE Get(x, "registration")
    BY <1>1, <1>2, <1>3, <2>5, <2>6, Profiles
  <2>8. ProfileHas(stage, w, x)
    BY <1>1, <2>5, <2>7, ProfileMade
  <2>9. view'.status = [string |-> "ok"] /\ view'.result = r
    BY <1>4, <2>2, <2>4, <2>7
  <2>10. ProfileHas(kind', view', view'.result)
    BY <1>10, <2>2, <2>4, <2>8, <2>9
  <2>11. ProfileShown'
    BY <1>1, <1>4, <1>10, <2>9, <2>10, StatusesDiffer DEF ProfileShown
  <2>12. view.status = Get(root, "status") /\ r = Get(root, "result")
    BY <1>4, <1>6 DEF ResponseShown
  <2>13. ResponseShown'
    BY <1>1, <1>4, <2>9, <2>12, StatusesDiffer DEF ResponseShown
  <2>14. /\ stage' \in {"outcome", "succeeded"}
         /\ stage' = "succeeded" => call # "outcome"
    BY <1>10 DEF Profiled
  <2>. QED BY <1>1, <1>2, <2>11, <2>13, <2>14 DEF Shown
<1>. QED BY <1>7, <1>8, <1>9, <1>10

LEMMA OutcomeShows == JInv /\ Shown /\ Outcome => Shown'
<1>. SUFFICES ASSUME JInv, Shown, Outcome PROVE Shown'
  OBVIOUS
<1>. DEFINE chain == OutcomeChain
<1>1. /\ stage = "outcome" /\ stage \in ResponseStages /\ UNCHANGED <<call, root>>
      /\ call = "outcome"
  BY DEF Outcome, ResponseStages, JInv, Found
<1>2. ResponseShown /\ ProfileShown
  BY <1>1 DEF Shown
<1>3. \/ \E e : Fail(e)
      \/ \E cut \in Cuts(chain) :
            /\ Whole(chain, cut)
            /\ kind \in DOMAIN OutcomeKind
            /\ stage' = "succeeded" /\ outcome' = OutcomeKind[kind]
            /\ view' = Stored(chain, cut) /\ kind' = kind
  BY Zenon DEF Outcome
<1>4. ASSUME NEW e, Fail(e) PROVE Shown'
  BY <1>4, ShowsNothing DEF Fail
<1>5. ASSUME NEW cut \in Cuts(chain), Whole(chain, cut), kind \in DOMAIN OutcomeKind,
             stage' = "succeeded", outcome' = OutcomeKind[kind],
             view' = Stored(chain, cut), kind' = kind
      PROVE  Shown'
  <2>1. ASSUME kind \in {"NotifyPost", "NotifyNameState"}
        PROVE  chain = NameChain(view.nameObject)
    BY <2>1 DEF OutcomeChain
  <2>2. ASSUME kind \in RegistrationKinds PROVE chain = RegistrationViewChain(view.registration)
    BY <2>2 DEF OutcomeChain, RegistrationKinds
  <2>3. ASSUME kind \notin RegistrationKinds \cup {"NotifyPost", "NotifyNameState"}
        PROVE  chain = <<>>
    BY <2>3 DEF OutcomeChain, RegistrationKinds
  <2>. HIDE DEF chain
  <2>4. Into(chain) \subseteq {"name", "scope", "viewToken", "sessionID", "bindingID",
                               "bindingHandle", "lastSeenGeneration", "firstCheckPending"}
    <3>1. CASE kind \in {"NotifyPost", "NotifyNameState"}
      BY <2>1, <3>1, NameChainIs
    <3>2. CASE kind \in RegistrationKinds
      BY <2>2, <3>2, RegistrationViewIs
    <3>3. CASE kind \notin RegistrationKinds \cup {"NotifyPost", "NotifyNameState"}
      BY <2>3, <3>3 DEF Into
    <3>. QED BY <3>1, <3>2, <3>3
  <2>5. {"status", "result", "errorCode", "errorMessage", "resultObject", "notifyNames",
         "registration", "nameObject", "capabilities", "featureFlags", "health", "daemon"}
            \subseteq Fields \ Into(chain)
    BY <2>4 DEF Fields
  <2>6. /\ view'.status = view.status /\ view'.result = view.result
        /\ view'.errorCode = view.errorCode /\ view'.errorMessage = view.errorMessage
    BY <1>5, <2>5, StoredElse
  <2>7. /\ view'.resultObject = view.resultObject /\ view'.notifyNames = view.notifyNames
        /\ view'.registration = view.registration /\ view'.nameObject = view.nameObject
    BY <1>5, <2>5, StoredElse
  <2>8. /\ view'.capabilities = view.capabilities /\ view'.featureFlags = view.featureFlags
        /\ view'.health = view.health /\ view'.daemon = view.daemon
    BY <1>5, <2>5, StoredElse
  <2>9. ResponseShown'
    BY <1>1, <1>2, <2>6 DEF ResponseShown
  <2>10. ProfileHas(kind, view', view'.result)
    <3>1. ProfileHas(kind, view, view.result)
      BY <1>2 DEF ProfileShown
    <3>. QED BY <2>6, <2>7, <2>8, <3>1 DEF ProfileHas
  <2>11. ProfileShown'
    BY <1>2, <1>5, <2>6, <2>10 DEF ProfileShown
  <2>12. ASSUME kind \in {"NotifyPost", "NotifyNameState"}
         PROVE  /\ view'.name = Get(view'.nameObject, "name")
                /\ view'.scope = Get(view'.nameObject, "scope")
    BY <1>5, <2>1, <2>7, <2>12, NameChainIs
  <2>13. ASSUME kind \in RegistrationKinds
         PROVE  LET v == view'.registration IN
                /\ view'.name = Get(v, "name") /\ view'.scope = Get(v, "scope")
                /\ view'.sessionID = Get(v, "session_id")
                /\ view'.bindingID = Get(v, "local_transport_binding_id")
                /\ view'.bindingHandle = Get(v, "local_transport_handle")
                /\ BindingTyped(v)
    <3>. DEFINE v == view.registration
    <3>1. chain = RegistrationViewChain(v) /\ view'.registration = v
      BY <2>2, <2>7, <2>13
    <3>. HIDE DEF v
    <3>2. /\ view'.name = Get(v, "name") /\ view'.scope = Get(v, "scope")
          /\ view'.sessionID = Get(v, "session_id")
          /\ view'.bindingID = Get(v, "local_transport_binding_id")
          /\ view'.bindingHandle = Get(v, "local_transport_handle")
      BY <1>5, <3>1, RegistrationViewIs
    <3>3. Chain(chain)
      BY <3>1, RegistrationViewIs DEF Tidy
    <3>4. AllOk(RegistrationViewChain(v))
      BY <1>5, <3>1, <3>3, WholeIff
    <3>. QED BY <3>1, <3>2, <3>4, RegistrationViewTyped
  <2>14. OutcomeShown'
    BY <1>5, <2>12, <2>13 DEF OutcomeShown
  <2>. QED BY <1>1, <1>5, <2>9, <2>11, <2>14 DEF Shown
<1>. QED BY <1>3, <1>4, <1>5

LEMMA ShownKept == Spec => [](JInv /\ Shown)
<1>1. Init => Shown
  <2>1. ASSUME Init PROVE stage \notin ResponseStages \cup {"succeeded", "outcome"}
    <3>1. stage = "idle"
      BY <2>1 DEF Init
    <3>. QED BY <3>1, KindsAre DEF ResponseStages
  <2>. QED BY <2>1 DEF Shown
<1>2. JInv /\ Shown /\ [Next]_vars => Shown'
  <2>1. Shown /\ UNCHANGED vars => Shown'
    BY DEF Shown, RequestShown, RouteShown, ResponseShown, ProfileShown, OutcomeShown, vars
  <2>2. JInv /\ Call => Shown'
    BY ShowsNothing DEF Call
  <2>3. JInv /\ DecodeEnvelope => Shown'
    <3>1. DecodeEnvelope => stage' \in {"read", "failed"}
      BY DEF DecodeEnvelope, Fail
    <3>. QED BY <3>1, ShowsNothing
  <2>4. JInv /\ Done => Shown'
    BY ShowsNothing DEF Done
  <2>. QED
    BY <2>1, <2>2, <2>3, <2>4, ReadShows, RouteShows, ProfileShows, TryShows, OutcomeShows
       DEF Next
<1>. QED BY <1>1, <1>2, Told, PTL DEF Spec

-----------------------------------------------------------------------------
(* Texts: what they are made of is there.                                  *)

Depth1 == WithParts({root})
Depth2 == WithParts(Depth1)
Depth3 == WithParts(Depth2)

\* A string that can be copied, unless a string of the packet has no UTF-8.
Given(s) == Is(s, "string") /\ (~Spoken(s.string) => Unspoken)
Sound(m) == m.found /\ \A s \in m.copies : Given(s)

LEMMA SoundReadable == \A m : Sound(m) => Readable(m) \/ Unspoken
BY DEF Sound, Given, Readable

LEMMA PartIs ==
    ASSUME NEW S, NEW v \in S
    PROVE  /\ v \in WithParts(S)
           /\ \A key : Get(v, key) # NULL => Get(v, key) \in WithParts(S)
           /\ \A item \in Items(v) : item \in WithParts(S)
<1>1. v \in WithParts(S) /\ Held(v) \subseteq WithParts(S)
  BY DEF WithParts
<1>2. \A key : Get(v, key) # NULL => Get(v, key) \in Held(v)
  BY DEF Get, Held
<1>3. Items(v) \subseteq Held(v)
  BY DEF Held
<1>. QED BY <1>1, <1>2, <1>3

LEMMA Depths ==
    /\ root \in Depth1 /\ root \in Depth2 /\ root \in Depth3
    /\ Depth1 \subseteq Depth2 /\ Depth2 \subseteq Depth3 /\ Depth3 \subseteq Values
<1>1. root \in Depth1
  BY PartIs DEF Depth1
<1>2. Depth1 \subseteq Depth2
  BY PartIs DEF Depth2
<1>3. Depth2 \subseteq Depth3
  BY PartIs DEF Depth3
<1>4. Depth3 \subseteq Values
  BY PartIs DEF Depth3, Depth2, Depth1, Values
<1>. QED BY <1>1, <1>2, <1>3, <1>4

LEMMA Deeper ==
    ASSUME NEW v, NEW key, Get(v, key) # NULL
    PROVE  /\ v = root => Get(v, key) \in Depth1
           /\ v \in Depth1 => Get(v, key) \in Depth2
           /\ v \in Depth2 => Get(v, key) \in Depth3
           /\ v \in Depth3 => Get(v, key) \in Values
<1>1. v = root => Get(v, key) \in Depth1
  BY PartIs DEF Depth1
<1>2. v \in Depth1 => Get(v, key) \in Depth2
  BY PartIs DEF Depth2
<1>3. v \in Depth2 => Get(v, key) \in Depth3
  BY PartIs DEF Depth3
<1>4. v \in Depth3 => Get(v, key) \in Values
  BY PartIs DEF Depth3, Depth2, Depth1, Values
<1>. QED BY <1>1, <1>2, <1>3, <1>4

LEMMA DeeperItem ==
    ASSUME NEW v, NEW item \in Items(v)
    PROVE  /\ v \in Depth1 => item \in Depth2
           /\ v \in Depth2 => item \in Depth3
           /\ v \in Depth3 => item \in Values
<1>1. v \in Depth1 => item \in Depth2
  BY PartIs DEF Depth2
<1>2. v \in Depth2 => item \in Depth3
  BY PartIs DEF Depth3
<1>3. v \in Depth3 => item \in Values
  BY PartIs DEF Depth3, Depth2, Depth1, Values
<1>. QED BY <1>1, <1>2, <1>3

LEMMA GivenString == \A s \in Values : Is(s, "string") => Given(s)
BY DEF Given, Unspoken

LEMMA GivenKeys ==
    ASSUME NEW v \in Values, Is(v, "dict"), Decoded(v)
    PROVE  \A s \in Keys(v) : Given(s)
<1>. SUFFICES ASSUME NEW key \in DOMAIN v.dict, NEW s, s = [string |-> key] PROVE Given(s)
  BY DEF Keys
<1>1. key \in STRING
  BY DEF Decoded
<1>2. s \in [string : STRING]
  BY <1>1
<1>3. Is(s, "string") /\ s.string = key
  BY <1>2, NullIsNoValue DEF Is
<1>4. ~Spoken(key) => Unspoken
  BY DEF Unspoken
<1>. QED BY <1>3, <1>4 DEF Given

\* Strings that are looked up in a value that is not too deep.
LEMMA StringsSound ==
    ASSUME NEW v \in Depth3, NEW keys, \A key \in keys : Is(Get(v, key), "string")
    PROVE  Sound(Strings(v, keys))
<1>1. ASSUME NEW key \in keys PROVE Given(Get(v, key))
  <2>1. Is(Get(v, key), "string") /\ Get(v, key) # NULL
    BY DEF Is
  <2>. QED BY <2>1, Deeper, GivenString
<1>. QED BY <1>1 DEF Sound, Strings, Made

LEMMA GivenText ==
    ASSUME NEW v \in Depth3, NEW key, Is(Get(v, key), "string")
    PROVE  Given(Get(v, key))
<1>1. Get(v, key) # NULL
  BY DEF Is
<1>. QED BY <1>1, Deeper, GivenString

LEMMA CopiesSound == ASSUME NEW S, \A s \in S : Given(s) PROVE Sound(Copies(S))
BY DEF Sound, Copies, Made

LEMMA CopiesReadable ==
    ASSUME NEW S, NEW T, S \subseteq T, Readable(Copies(T)) PROVE Readable(Copies(S))
BY DEF Readable, Copies, Made

LEMMA StatusSpoken ==
    ASSUME NEW s \in {[string |-> "ok"], [string |-> "error"]}
    PROVE  Is(s, "string") /\ Spoken(s.string)
BY NullIsNoValue DEF Is, Spoken

\* What is known of a call that has succeeded.
LEMMA SucceededKnown ==
    ASSUME JInv, stage = "succeeded"
    PROVE  /\ view.packet = root /\ root \in Payloads /\ Envelopes(call, root) /\ call \in Calls
           /\ Decoded(Get(root, "params")) /\ Decoded(Get(root, "result"))
           /\ kind \in ProbeKinds => Fits(kind, view.result)
<1>1. view.packet = root /\ call \in Calls
  BY DEF JInv, IInv, PacketOwned, TypeOK
<1>2. root \in Payloads /\ Envelopes(call, root)
  BY DEF JInv, EnvelopeKept
<1>3. kind \in ProbeKinds => Fits(kind, view.result)
  BY DEF JInv, FieldsAgree, KindFits
<1>. QED BY <1>1, <1>2, <1>3, PayloadsDecoded

\* The texts of a call: what they look up is there, and what has its JSON has the
\* rest.
TextsSound ==
    /\ Sound(JSON) /\ Sound(Summary) /\ Sound(Accepted)
    /\ Readable(JSON) => Readable(Summary) /\ Readable(Accepted)

LEMMA RequestTexts ==
    ASSUME JInv, Shown, stage = "succeeded", call \in {"request", "route"}
    PROVE  TextsSound
<1>. DEFINE keys == Keys(view.params)
            texts == Present({view.clientRegistrationID, view.expectedSessionID, view.name,
                              view.queueName, view.scope})
<1>1. /\ view.packet = root /\ Decoded(view.params)
      /\ view.service = Get(root, "service") /\ view.method = Get(root, "method")
      /\ view.params = Get(root, "params")
      /\ Is(view.service, "string") /\ Is(view.method, "string") /\ Is(view.params, "dict")
  <2>1. /\ view.packet = root /\ Decoded(Get(root, "params"))
        /\ Typed(root, [service |-> "string", method |-> "string", params |-> "dict"])
    BY SucceededKnown DEF Envelopes
  <2>2. /\ Is(Get(root, "service"), "string") /\ Is(Get(root, "method"), "string")
        /\ Is(Get(root, "params"), "dict")
    BY <2>1 DEF Typed
  <2>. QED BY <2>1, <2>2 DEF Shown, RequestShown
<1>2. view.params \in Depth1
  <2>1. Get(root, "params") # NULL
    BY <1>1 DEF Is
  <2>. QED BY <1>1, <2>1, Deeper
<1>3. \A s \in Method : Given(s)
  BY <1>1, Depths, GivenText DEF Method
<1>4. \A s \in keys : Given(s)
  BY <1>1, <1>2, Depths, GivenKeys
<1>5. ASSUME call = "route", NEW s \in texts PROVE Given(s)
  <2>1. PICK f \in RouteTexts : s = view[f] /\ s # NULL
    BY <1>5 DEF Present, RouteTexts
  <2>2. PICK key : view[f] = Get(view.params, key)
    BY <1>5 DEF Shown, RouteShown
  <2>3. view[f] = NULL \/ Is(view[f], "string")
    BY <1>5 DEF Shown, RouteShown
  <2>. QED BY <1>2, <2>1, <2>2, <2>3, Depths, GivenText
<1>6. Accepted = Copies(Method)
  <2>1. Accepted = Strings(root, {"service", "method"})
    BY <1>1 DEF Accepted
  <2>2. {Get(root, key) : key \in {"service", "method"}} = Method
    BY <1>1 DEF Method
  <2>3. \A key \in {"service", "method"} : Is(Get(root, key), "string")
    BY <1>1
  <2>4. Strings(root, {"service", "method"}) =
            Made(\A key \in {"service", "method"} : Is(Get(root, key), "string"), Method)
    BY <2>2 DEF Strings
  <2>. QED BY <2>1, <2>3, <2>4 DEF Copies
<1>. HIDE DEF keys, texts
<1>7. CASE call = "request"
  <2>1. JSON = Copies(keys \cup Method) /\ Summary = Copies(Method)
    BY <1>7 DEF JSON, Summary, RequestJSON, keys
  <2>2. Sound(JSON) /\ Sound(Summary) /\ Sound(Accepted)
    BY <1>3, <1>4, <1>6, <2>1, CopiesSound
  <2>3. Method \subseteq keys \cup Method
    OBVIOUS
  <2>. QED BY <1>6, <2>1, <2>2, <2>3, CopiesReadable DEF TextsSound
<1>8. CASE call = "route"
  <2>1. JSON = Copies(keys \cup Method \cup texts) /\ Summary = Copies(keys)
    BY <1>8 DEF JSON, Summary, RouteJSON, keys, texts
  <2>2. \A s \in keys \cup Method \cup texts : Given(s)
    BY <1>3, <1>4, <1>5, <1>8
  <2>3. Sound(JSON) /\ Sound(Summary) /\ Sound(Accepted)
    BY <1>3, <1>4, <1>6, <2>1, <2>2, CopiesSound
  <2>4. Method \subseteq keys \cup Method \cup texts /\ keys \subseteq keys \cup Method \cup texts
    OBVIOUS
  <2>. QED BY <1>6, <2>1, <2>3, <2>4, CopiesReadable DEF TextsSound
<1>. QED BY <1>7, <1>8

\* A response: its status, and the code and message of its error.
LEMMA ResponseKnows ==
    ASSUME JInv, Shown, stage = "succeeded", call \notin {"request", "route"}
    PROVE  /\ view.packet = root /\ Decoded(Get(root, "result"))
           /\ view.status = Get(root, "status")
           /\ view.status \in {[string |-> "ok"], [string |-> "error"]}
           /\ view.status = [string |-> "ok"] =>
                /\ view.result = Get(root, "result") /\ view.result # NULL
                /\ view.result \in Depth1
           /\ Failed => /\ \A s \in ErrorStrings : Given(s)
                        /\ view.errorCode = Get(Get(root, "error"), "code")
                        /\ Is(view.errorCode, "string")
           /\ Sound(Accepted)
           /\ Readable(Copies(IF Failed THEN {view.errorCode} ELSE {})) => Readable(Accepted)
<1>1. /\ view.packet = root /\ Decoded(Get(root, "result"))
      /\ \/ Get(root, "status") = [string |-> "ok"] /\ Get(root, "result") # NULL
         \/ /\ Get(root, "status") = [string |-> "error"]
            /\ Is(Get(Get(root, "error"), "code"), "string")
            /\ Is(Get(Get(root, "error"), "message"), "string")
  <2>1. view.packet = root /\ Decoded(Get(root, "result")) /\ Envelopes(call, root)
    BY SucceededKnown
  <2>. QED BY <2>1 DEF Envelopes, Typed
<1>2. /\ view.status = Get(root, "status")
      /\ view.status = [string |-> "ok"] => view.result = Get(root, "result")
      /\ view.status = [string |-> "error"] =>
          /\ view.errorCode = Get(Get(root, "error"), "code")
          /\ view.errorMessage = Get(Get(root, "error"), "message")
  BY DEF Shown, ResponseShown
<1>3. view.status \in {[string |-> "ok"], [string |-> "error"]}
  BY <1>1, <1>2
<1>4. ASSUME view.status = [string |-> "ok"]
      PROVE  view.result # NULL /\ view.result \in Depth1
  <2>1. Get(root, "result") # NULL
    BY <1>1, <1>2, <1>4, StatusesDiffer
  <2>. QED BY <1>2, <1>4, <2>1, Deeper
<1>5. ASSUME Failed
      PROVE  /\ \A s \in ErrorStrings : Given(s)
             /\ Is(view.errorCode, "string") /\ Is(view.errorMessage, "string")
             /\ Get(root, "error") \in Depth1
  <2>1. /\ Is(Get(Get(root, "error"), "code"), "string")
        /\ Is(Get(Get(root, "error"), "message"), "string")
    BY <1>1, <1>2, <1>5, StatusesDiffer DEF Failed
  <2>2. Get(root, "error") # NULL
    <3>1. Get(Get(root, "error"), "code") # NULL
      BY <2>1 DEF Is
    <3>. QED BY <3>1, GetIs
  <2>3. Get(root, "error") \in Depth1 /\ Get(root, "error") \in Depth3
    BY <2>2, Deeper, Depths
  <2>. QED BY <1>2, <1>5, <2>1, <2>3, GivenText DEF Failed, ErrorStrings
<1>6. Strings(root, {"status"}) = Copies({view.status})
  <2>1. {Get(root, key) : key \in {"status"}} = {view.status}
    BY <1>2
  <2>2. \A key \in {"status"} : Is(Get(root, key), "string")
    BY <1>2, <1>3, StatusSpoken
  <2>. QED BY <2>1, <2>2 DEF Strings, Copies
<1>7. Given(view.status) /\ Is(view.status, "string") /\ Spoken(view.status.string)
  BY <1>3, StatusSpoken DEF Given
<1>8. Accepted = Copies({view.status} \cup IF Failed THEN {view.errorCode} ELSE {})
  <2>1. CASE Failed
    <3>1. Strings(Get(root, "error"), {"code"}) = Copies({view.errorCode})
      <4>1. {Get(Get(root, "error"), key) : key \in {"code"}} = {view.errorCode}
        BY <1>2, <2>1 DEF Failed
      <4>2. \A key \in {"code"} : Is(Get(Get(root, "error"), key), "string")
        BY <1>2, <1>5, <2>1 DEF Failed
      <4>. QED BY <4>1, <4>2 DEF Strings, Copies
    <3>2. Accepted = Both(Copies({view.status}), Copies({view.errorCode}))
      BY <1>1, <1>6, <2>1, <3>1 DEF Accepted
    <3>. QED BY <2>1, <3>2 DEF Both, Copies, Made
  <2>2. CASE ~Failed
    <3>1. Accepted = Copies({view.status})
      BY <1>1, <1>6, <2>2 DEF Accepted
    <3>. QED BY <2>2, <3>1
  <2>. QED BY <2>1, <2>2
<1>9. Sound(Accepted)
  BY <1>5, <1>7, <1>8, CopiesSound DEF ErrorStrings
<1>10. Readable(Copies(IF Failed THEN {view.errorCode} ELSE {})) => Readable(Accepted)
  BY <1>7, <1>8 DEF Readable, Copies, Made
<1>. QED BY <1>1, <1>2, <1>3, <1>4, <1>5, <1>9, <1>10 DEF Failed

LEMMA ResponseTexts ==
    ASSUME JInv, Shown, stage = "succeeded", call = "response"
    PROVE  TextsSound
<1>1. /\ Decoded(Get(root, "result"))
      /\ view.status \in {[string |-> "ok"], [string |-> "error"]}
      /\ view.status = [string |-> "ok"] =>
            view.result = Get(root, "result") /\ view.result \in Depth1
      /\ Failed => \A s \in ErrorStrings : Given(s)
      /\ Sound(Accepted)
      /\ Readable(Copies(IF Failed THEN {view.errorCode} ELSE {})) => Readable(Accepted)
  BY ResponseKnows
<1>. DEFINE code == IF Failed THEN {view.errorCode} ELSE {}
            all == IF Failed THEN ErrorStrings
                   ELSE IF Is(view.result, "dict") THEN Keys(view.result) ELSE {}
<1>2. JSON = Copies(all) /\ Summary = Copies(code)
  BY DEF JSON, Summary, ResponseJSON
<1>3. code \subseteq all
  BY DEF ErrorStrings
<1>4. ASSUME ~Failed, Is(view.result, "dict") PROVE \A s \in Keys(view.result) : Given(s)
  <2>1. view.result = Get(root, "result") /\ view.result \in Values
    BY <1>1, <1>4, Depths DEF Failed
  <2>. QED BY <1>1, <1>4, <2>1, GivenKeys
<1>5. \A s \in all : Given(s)
  BY <1>1, <1>4
<1>6. Sound(JSON) /\ Sound(Summary)
  BY <1>2, <1>3, <1>5, CopiesSound
<1>7. Readable(JSON) => Readable(Summary)
  BY <1>2, <1>3, CopiesReadable
<1>. QED BY <1>1, <1>2, <1>6, <1>7 DEF TextsSound

\* Two made together: both are found, and all copied.
LEMMA MadeIs ==
    ASSUME NEW b \in BOOLEAN, NEW S
    PROVE  (Made(b, S).found <=> b) /\ Made(b, S).copies = S
BY DEF Made

LEMMA MadeSound ==
    ASSUME NEW b \in BOOLEAN, b, NEW S, \A s \in S : Given(s)
    PROVE  Sound(Made(b, S))
BY MadeIs DEF Sound

LEMMA BothIs ==
    ASSUME NEW m, NEW n
    PROVE  /\ Sound(m) /\ Sound(n) => Sound(Both(m, n))
           /\ Readable(Both(m, n)) => Readable(m) /\ Readable(n)
<1>1. (m.found /\ n.found) \in BOOLEAN
  OBVIOUS
<1>2. /\ Both(m, n).found <=> m.found /\ n.found
      /\ Both(m, n).copies = m.copies \cup n.copies
  BY <1>1, MadeIs, Zenon DEF Both
<1>. QED BY <1>2, Zenon DEF Sound, Readable

\* What the parts of an object are made of, when they are valid.
LEMMA HealthSound ==
    ASSUME NEW v \in Depth2, ValidHealth(v)
    PROVE  /\ Sound(Strings(v, {"state"}))
           /\ v \in Depth1 => Sound(HealthJSON(v))
           /\ Readable(HealthJSON(v)) => Readable(Strings(v, {"state"}))
<1>. DEFINE reasons == Get(v, "reasons")
            statuses == Made(\A key \in Statuses : Is(Get(Get(v, key), "state"), "string"),
                             {Get(Get(v, key), "state") : key \in Statuses})
<1>1. /\ Is(Get(v, "state"), "string") /\ Is(reasons, "array")
      /\ \A item \in Elements(reasons) : Typed(item, ReasonShape)
      /\ \A key \in Statuses : Is(Get(Get(v, key), "state"), "string")
  BY DEF ValidHealth, Typed, HealthShape, OutputStatusShape, Statuses
<1>2. Sound(Strings(v, {"state"}))
  BY <1>1, Depths, StringsSound
<1>3. ASSUME v \in Depth1 PROVE Sound(Reasons(reasons))
  <2>1. reasons # NULL
    BY <1>1 DEF Is
  <2>2. reasons \in Depth2
    BY <1>3, <2>1, Deeper
  <2>3. ASSUME NEW item \in Items(reasons), NEW key \in DOMAIN ReasonShape
        PROVE  Given(Get(item, key))
    <3>1. item \in Depth3
      BY <2>2, DeeperItem
    <3>2. Typed(item, ReasonShape)
      BY <1>1 DEF Items
    <3>3. \A k \in DOMAIN ReasonShape : Is(Get(item, k), "string")
      BY <3>2 DEF Typed, ReasonShape
    <3>. QED BY <3>1, <3>3, GivenText
  <2>4. Is(reasons, "array") /\ \A item \in Items(reasons) : Typed(item, ReasonShape)
    BY <1>1 DEF Items
  <2>5. \A s \in {Get(item, key) : item \in Items(reasons), key \in DOMAIN ReasonShape} :
            Given(s)
    BY <2>3
  <2>. DEFINE found == Is(reasons, "array") /\ \A item \in Items(reasons) :
                                                  Typed(item, ReasonShape)
              copies == {Get(item, key) : item \in Items(reasons), key \in DOMAIN ReasonShape}
  <2>6. Reasons(reasons) = Made(found, copies)
    BY DEF Reasons
  <2>7. found \in BOOLEAN /\ found /\ \A s \in copies : Given(s)
    BY <2>4, <2>5
  <2>. HIDE DEF found, copies, reasons
  <2>. QED BY <2>6, <2>7, MadeSound
<1>4. Sound(statuses)
  <2>1. ASSUME NEW key \in Statuses PROVE Given(Get(Get(v, key), "state"))
    <3>1. Is(Get(Get(v, key), "state"), "string")
      BY <1>1
    <3>2. Get(v, key) # NULL
      <4>1. Get(Get(v, key), "state") # NULL
        BY <3>1 DEF Is
      <4>. QED BY <4>1, GetIs
    <3>3. Get(v, key) \in Depth3
      BY <3>2, Deeper
    <3>. QED BY <3>1, <3>3, GivenText
  <2>. QED BY <1>1, <2>1 DEF Sound, Made
<1>5. HealthJSON(v) = Both(Both(Strings(v, {"state"}), Reasons(reasons)), statuses)
  BY DEF HealthJSON
<1>. HIDE DEF statuses, reasons
<1>6. v \in Depth1 => Sound(HealthJSON(v))
  BY <1>2, <1>3, <1>4, <1>5, BothIs
<1>7. Readable(HealthJSON(v)) => Readable(Strings(v, {"state"}))
  BY <1>5, BothIs
<1>. QED BY <1>2, <1>6, <1>7

LEMMA FlagsSound ==
    ASSUME NEW v \in Depth2, ValidCapabilities(v)
    PROVE  /\ Is(Get(v, "feature_flags"), "array") /\ Typed(v, CapabilitiesShape)
           /\ \A s \in Items(Get(v, "feature_flags")) : Given(s)
<1>. DEFINE flags == Get(v, "feature_flags")
<1>1. /\ Is(flags, "array") /\ Typed(v, CapabilitiesShape)
      /\ \A item \in Elements(flags) : Is(item, "string")
  BY DEF ValidCapabilities
<1>2. flags # NULL
  BY <1>1 DEF Is
<1>3. flags \in Depth3
  BY <1>2, Deeper
<1>4. \A s \in Items(flags) : s \in Values /\ Is(s, "string")
  BY <1>1, <1>3, DeeperItem DEF Items
<1>. QED BY <1>1, <1>4, GivenString

LEMMA DiagnosticsSound ==
    ASSUME NEW r \in Depth1, ValidDiagnostics(r), view.daemon = Get(r, "daemon")
    PROVE  Sound(DiagnosticsJSON(r)) /\ Is(Get(r, "jobs"), "array")
<1>. DEFINE flags == Get(Get(r, "capabilities"), "feature_flags")
            d == Get(r, "daemon")
            h == Get(r, "health")
            c == Get(r, "capabilities")
<1>1. /\ Typed(d, DaemonShape) /\ ValidHealth(h) /\ ValidCapabilities(c)
      /\ Is(Get(r, "jobs"), "array")
  BY DEF ValidDiagnostics
<1>2. Is(Get(d, "daemon_id"), "string") /\ Is(Get(h, "state"), "string") /\ Is(flags, "array")
  BY <1>1 DEF Typed, DaemonShape, ValidHealth, HealthShape, ValidCapabilities
<1>3. Get(d, "daemon_id") # NULL /\ Get(h, "state") # NULL /\ flags # NULL
  BY <1>2 DEF Is
<1>4. d # NULL /\ h # NULL /\ c # NULL
  BY <1>3, GetIs
<1>5. d \in Depth2 /\ h \in Depth2 /\ c \in Depth2
  BY <1>4, Deeper
<1>6. Sound(Strings(d, {"daemon_id"})) /\ Sound(Strings(h, {"state"}))
  BY <1>2, <1>5, Depths, StringsSound
<1>7. \A s \in Items(flags) : Given(s)
  BY <1>1, <1>5, FlagsSound
<1>8. DiagnosticsJSON(r) =
        Both(Both(Strings(d, {"daemon_id"}), Strings(h, {"state"})),
             Made(Is(flags, "array") /\ Is(Get(r, "jobs"), "array"), Items(flags)))
  BY DEF DiagnosticsJSON
<1>9. Sound(Made(Is(flags, "array") /\ Is(Get(r, "jobs"), "array"), Items(flags)))
  BY <1>1, <1>2, <1>7, MadeSound
<1>. HIDE DEF flags, d, h, c
<1>. QED BY <1>1, <1>6, <1>8, <1>9, BothIs

\* The strings of a registration.
LEMMA RegistrationSound ==
    ASSUME NEW v \in Depth2, ValidRegistration(v)
    PROVE  Sound(Strings(v, {"delivery_method", "scope"}))
<1>1. \A key \in {"delivery_method", "scope"} : Is(Get(v, key), "string")
  BY DEF ValidRegistration, Typed, RegistrationShape
<1>. QED BY <1>1, Depths, StringsSound

\* The values that a profile, or an outcome, starts from, as deep as they are.
LEMMA ProfileKnows ==
    ASSUME JInv, Shown, stage = "succeeded", call \in {"profile", "outcome"}
    PROVE  /\ kind \in ProbeKinds \cup {"Error", "NotifyNameList"}
           /\ kind = "Error" <=> Failed
           /\ kind # "Error" => view.result \in Depth1 /\ Decoded(view.result)
           /\ kind \in ProbeKinds => Fits(kind, view.result) /\ view.resultObject = view.result
           /\ kind \in RegistrationKinds \cup {"NotifyCancel"} =>
                view.registration \in Depth2 /\ ValidRegistration(view.registration)
           /\ kind \in {"NotifyPost", "NotifyNameState"} =>
                view.nameObject \in Depth2 /\ ValidName(view.nameObject)
           /\ ProfileHas(kind, view, view.result)
<1>1. /\ kind \in ProbeKinds \cup {"Error", "NotifyNameList"}
      /\ kind = "Error" <=> view.status = [string |-> "error"]
      /\ kind # "Error" => view.status = [string |-> "ok"]
      /\ ProfileHas(kind, view, view.result)
  BY DEF Shown, ProfileShown
<1>2. kind # "Error" => view.result \in Depth1 /\ Decoded(view.result)
  BY <1>1, ResponseKnows
<1>3. kind \in ProbeKinds => Fits(kind, view.result) /\ view.resultObject = view.result
  BY <1>1, SucceededKnown DEF ProfileHas
<1>4. "Error" \notin ProbeKinds /\ RegistrationKinds \cup {"NotifyCancel", "NotifyPost",
          "NotifyNameState"} \subseteq ProbeKinds
  BY KindsAre DEF RegistrationKinds
<1>5. ASSUME kind \in RegistrationKinds \cup {"NotifyCancel"}
      PROVE  view.registration \in Depth2 /\ ValidRegistration(view.registration)
  <2>1. ValidRegistration(view.registration)
    BY <1>1, <1>3, <1>4, <1>5 DEF ProfileHas, Fits, RegistrationKinds
  <2>2. CASE kind = "NotifyRegistration"
    BY <1>1, <1>2, <1>4, <1>5, <2>1, <2>2, Depths DEF ProfileHas
  <2>3. CASE kind # "NotifyRegistration"
    <3>1. view.registration = Get(view.result, "registration") /\ view.registration # NULL
      BY <1>1, <1>5, <2>1, <2>3, RegistrationIs DEF ProfileHas
    <3>. QED BY <1>2, <1>4, <1>5, <2>1, <3>1, Deeper
  <2>. QED BY <2>2, <2>3
<1>6. ASSUME kind \in {"NotifyPost", "NotifyNameState"}
      PROVE  view.nameObject \in Depth2 /\ ValidName(view.nameObject)
  <2>1. view.nameObject = Get(view.result, "name")
    BY <1>1, <1>6 DEF ProfileHas
  <2>2. ValidName(view.nameObject)
    BY <1>3, <1>4, <1>6, <2>1 DEF Fits
  <2>3. view.nameObject # NULL
    BY <2>2, NameIs
  <2>. QED BY <1>2, <1>4, <1>6, <2>1, <2>2, <2>3, Deeper
<1>. QED BY <1>1, <1>2, <1>3, <1>5, <1>6 DEF Failed

LEMMA NoCopies == Sound(Copies({})) /\ Readable(Copies({}))
BY DEF Sound, Readable, Copies, Made

LEMMA ProfileTexts ==
    ASSUME JInv, Shown, stage = "succeeded", call = "profile"
    PROVE  TextsSound
<1>. DEFINE r == view.result
<1>1. /\ kind \in ProbeKinds \cup {"Error", "NotifyNameList"}
      /\ kind = "Error" <=> Failed
      /\ kind # "Error" => r \in Depth1 /\ Decoded(r)
      /\ kind \in ProbeKinds => Fits(kind, r) /\ view.resultObject = r
      /\ kind \in RegistrationKinds \cup {"NotifyCancel"} =>
           view.registration \in Depth2 /\ ValidRegistration(view.registration)
      /\ kind \in {"NotifyPost", "NotifyNameState"} =>
           view.nameObject \in Depth2 /\ ValidName(view.nameObject)
      /\ ProfileHas(kind, view, r)
  BY ProfileKnows
<1>2. /\ Sound(Accepted)
      /\ Failed => \A s \in ErrorStrings : Given(s)
      /\ Readable(Copies(IF Failed THEN {view.errorCode} ELSE {})) => Readable(Accepted)
  BY ResponseKnows
<1>3. JSON = ProfileJSON /\ Summary = ProfileSummary
  BY DEF JSON, Summary
<1>4. /\ ProbeKinds = {"NotifyCancel", "NotifyCheck", "NotifyPost", "NotifyNameState",
           "NotifyRegistrationWrapper", "NotifyRegistration", "NotifyValidity",
           "ControlCapabilities", "ControlHealth", "DiagnosticsSnapshot", "GenericObject"}
      /\ {"Error", "NotifyNameList"} \cap ProbeKinds = {}
  BY KindsAre
<1>5. CASE kind = "Error"
  <2>1. JSON = Copies(ErrorStrings) /\ Summary = Copies({view.errorCode})
    BY <1>3, <1>5 DEF ProfileJSON, ProfileSummary
  <2>2. Failed /\ {view.errorCode} \subseteq ErrorStrings
    BY <1>1, <1>5 DEF ErrorStrings
  <2>3. Sound(JSON) /\ Sound(Summary)
    BY <1>2, <2>1, <2>2, CopiesSound
  <2>4. Readable(JSON) => Readable(Summary)
    BY <2>1, <2>2, CopiesReadable
  <2>. QED BY <1>2, <2>1, <2>2, <2>3, <2>4 DEF TextsSound
<1>6. CASE kind # "Error"
  <2>1. ~Failed /\ Readable(Accepted)
    BY <1>1, <1>2, <1>6, NoCopies
  <2>2. r \in Depth1 /\ r \in Depth2 /\ r \in Values
    BY <1>1, <1>6, Depths
  <2>3. ASSUME Sound(JSON), Summary = Copies({})
        PROVE  TextsSound
    BY <1>2, <2>1, <2>3, NoCopies DEF TextsSound
  <2>4. kind \notin {"Error", "ControlHealth", "DiagnosticsSnapshot"} => Summary = Copies({})
    BY <1>3 DEF ProfileSummary
  <2>5. CASE kind \in {"NotifyRegistrationWrapper", "NotifyRegistration", "NotifyCancel",
                       "NotifyCheck"}
    <3>1. JSON = Strings(view.registration, {"delivery_method", "scope"})
      BY <1>3, <2>5 DEF ProfileJSON
    <3>2. Sound(JSON)
      BY <1>1, <2>5, <3>1, RegistrationSound DEF RegistrationKinds
    <3>. QED BY <2>3, <2>4, <2>5, <3>2
  <2>6. CASE kind \in {"NotifyPost", "NotifyNameState"}
    <3>1. JSON = Strings(view.nameObject, {"name", "scope"})
      BY <1>3, <2>6 DEF ProfileJSON
    <3>2. Sound(JSON)
      BY <1>1, <2>6, <3>1, Depths, NameIs, StringsSound
    <3>. QED BY <2>3, <2>4, <2>6, <3>2
  <2>7. CASE kind = "NotifyValidity"
    <3>1. JSON = Copies({})
      BY <1>3, <2>7 DEF ProfileJSON
    <3>. QED BY <2>3, <2>4, <2>7, <3>1, NoCopies
  <2>8. CASE kind = "NotifyNameList"
    <3>1. JSON = NameListJSON(r) /\ ValidNames(r)
      BY <1>1, <1>3, <2>8 DEF ProfileJSON, ProfileHas
    <3>. DEFINE found == Is(r, "array") /\ \A item \in Items(r) : Typed(item, NameShape)
                copies == {Get(item, key) : item \in Items(r), key \in {"scope", "name"}}
    <3>2. JSON = Made(found, copies)
      BY <3>1 DEF NameListJSON
    <3>3. found \in BOOLEAN /\ found
      BY <3>1 DEF ValidNames, ValidName, Items
    <3>4. ASSUME NEW item \in Items(r), NEW key \in {"scope", "name"}
          PROVE  Given(Get(item, key))
      <4>1. item \in Depth3 /\ ValidName(item)
        BY <2>2, <3>3, DeeperItem DEF ValidName
      <4>2. Is(Get(item, key), "string")
        BY <3>4, <4>1, NameIs
      <4>. QED BY <4>1, <4>2, GivenText
    <3>5. \A s \in copies : Given(s)
      BY <3>4
    <3>. HIDE DEF found, copies
    <3>6. Sound(JSON)
      BY <3>2, <3>3, <3>5, MadeSound
    <3>. QED BY <2>3, <2>4, <2>8, <3>6
  <2>9. CASE kind = "ControlCapabilities"
    <3>1. ValidCapabilities(r) /\ view.capabilities = r
          /\ view.featureFlags = Get(r, "feature_flags")
      BY <1>1, <1>4, <2>9 DEF Fits, ProfileHas
    <3>2. JSON = Made(Typed(r, CapabilitiesShape), Items(Get(r, "feature_flags")))
      BY <1>3, <2>9, <3>1 DEF ProfileJSON
    <3>3. /\ Typed(r, CapabilitiesShape) \in BOOLEAN /\ Typed(r, CapabilitiesShape)
          /\ \A s \in Items(Get(r, "feature_flags")) : Given(s)
      <4>1. Typed(r, CapabilitiesShape) \in BOOLEAN
        BY DEF Typed
      <4>. QED BY <2>2, <3>1, <4>1, FlagsSound
    <3>4. Sound(JSON)
      BY <3>2, <3>3, MadeSound
    <3>. QED BY <2>3, <2>4, <2>9, <3>4
  <2>10. CASE kind = "ControlHealth"
    <3>1. ValidHealth(r) /\ view.health = r
      BY <1>1, <1>4, <2>10 DEF Fits, ProfileHas
    <3>2. JSON = HealthJSON(r) /\ Summary = Strings(r, {"state"})
      BY <1>3, <2>10, <3>1 DEF ProfileJSON, ProfileSummary
    <3>3. /\ Sound(HealthJSON(r)) /\ Sound(Strings(r, {"state"}))
          /\ Readable(HealthJSON(r)) => Readable(Strings(r, {"state"}))
      BY <2>2, <3>1, HealthSound
    <3>. QED BY <1>2, <2>1, <3>2, <3>3 DEF TextsSound
  <2>11. CASE kind = "DiagnosticsSnapshot"
    <3>1. ValidDiagnostics(r) /\ view.resultObject = r /\ view.daemon = Get(r, "daemon")
      BY <1>1, <1>4, <2>11 DEF Fits, ProfileHas
    <3>2. JSON = DiagnosticsJSON(r) /\ Summary = Made(Is(Get(r, "jobs"), "array"), {})
      BY <1>3, <2>11, <3>1 DEF ProfileJSON, ProfileSummary
    <3>3. Sound(DiagnosticsJSON(r)) /\ Is(Get(r, "jobs"), "array")
      BY <2>2, <3>1, DiagnosticsSound
    <3>4. /\ Is(Get(r, "jobs"), "array") \in BOOLEAN
      BY DEF Is
    <3>5. Sound(Summary)
      BY <3>2, <3>3, <3>4, MadeSound
    <3>6. Readable(Summary)
      BY <3>2, <3>3, <3>4, MadeIs DEF Readable
    <3>. QED BY <1>2, <2>1, <3>2, <3>3, <3>5, <3>6 DEF TextsSound
  <2>12. CASE kind = "GenericObject"
    <3>1. JSON = Copies(Keys(r)) /\ Decoded(r)
      BY <1>1, <1>3, <1>4, <1>6, <2>12 DEF ProfileJSON
    <3>2. \A s \in Keys(r) : Given(s)
      <4>1. Is(r, "dict")
        BY <1>1, <1>4, <2>12 DEF ProfileHas
      <4>. QED BY <2>2, <3>1, <4>1, GivenKeys
    <3>. QED BY <2>3, <2>4, <2>12, <3>1, <3>2, CopiesSound
  <2>. QED BY <1>1, <1>4, <1>6, <2>5, <2>6, <2>7, <2>8, <2>9, <2>10, <2>11, <2>12
<1>. QED BY <1>5, <1>6

LEMMA OutcomeTexts ==
    ASSUME JInv, Shown, stage = "succeeded", call = "outcome"
    PROVE  TextsSound
<1>1. /\ kind = "Error" <=> Failed
      /\ kind \in RegistrationKinds \cup {"NotifyCancel"} =>
           view.registration \in Depth2 /\ ValidRegistration(view.registration)
      /\ kind \in {"NotifyPost", "NotifyNameState"} =>
           view.nameObject \in Depth2 /\ ValidName(view.nameObject)
  BY ProfileKnows
<1>2. /\ Sound(Accepted)
      /\ Failed => \A s \in ErrorStrings : Given(s)
      /\ Readable(Copies(IF Failed THEN {view.errorCode} ELSE {})) => Readable(Accepted)
  BY ResponseKnows
<1>3. JSON = OutcomeJSON /\ Summary = OutcomeSummary
  BY DEF JSON, Summary
<1>4. OutcomeShown
  BY DEF Shown
<1>5. /\ kind \in {"Error", "NotifyPost", "NotifyNameState", "NotifyValidity", "NotifyCancel"}
             \cup RegistrationKinds
      /\ outcome = OutcomeKind[kind]
  BY <1>4 DEF OutcomeShown, OutcomeKind, RegistrationKinds
<1>6. CASE kind = "Error"
  <2>1. outcome = "error" /\ Failed /\ {view.errorCode} \subseteq ErrorStrings
    BY <1>1, <1>5, <1>6 DEF OutcomeKind, ErrorStrings
  <2>2. JSON = Copies(ErrorStrings) /\ Summary = Copies({view.errorCode})
    BY <1>3, <2>1 DEF OutcomeJSON, OutcomeSummary
  <2>3. Sound(JSON) /\ Sound(Summary)
    BY <1>2, <2>1, <2>2, CopiesSound
  <2>4. Readable(JSON) => Readable(Summary)
    BY <2>1, <2>2, CopiesReadable
  <2>. QED BY <1>2, <2>1, <2>2, <2>3, <2>4 DEF TextsSound
<1>7. CASE kind # "Error"
  <2>1. Readable(Accepted)
    BY <1>1, <1>2, <1>7, NoCopies
  <2>2. CASE kind \in {"NotifyPost", "NotifyNameState"}
    <3>1. outcome \in {"post", "name_state"}
      BY <1>5, <2>2 DEF OutcomeKind
    <3>2. JSON = Copies({view.name, view.scope}) /\ Summary = Copies({})
      BY <1>3, <3>1 DEF OutcomeJSON, OutcomeSummary
    <3>3. Given(view.name) /\ Given(view.scope)
      <4>1. view.name = Get(view.nameObject, "name") /\ view.scope = Get(view.nameObject, "scope")
        BY <1>4, <2>2 DEF OutcomeShown
      <4>. QED BY <1>1, <2>2, <4>1, NameIs, Depths, GivenText
    <3>. QED BY <1>2, <2>1, <3>2, <3>3, CopiesSound, NoCopies DEF TextsSound
  <2>3. CASE kind \in RegistrationKinds
    <3>. DEFINE v == view.registration
                optional == Present({view.bindingHandle, view.bindingID})
                all == {view.name, view.scope, view.sessionID} \cup optional
    <3>1. outcome \in {"registration", "check"}
      BY <1>5, <2>3 DEF OutcomeKind, RegistrationKinds
    <3>2. JSON = Copies(all) /\ Summary \in {Copies({view.sessionID}), Copies({})}
      BY <1>3, <3>1 DEF OutcomeJSON, OutcomeSummary
    <3>3. /\ view.name = Get(v, "name") /\ view.scope = Get(v, "scope")
          /\ view.sessionID = Get(v, "session_id")
          /\ view.bindingID = Get(v, "local_transport_binding_id")
          /\ view.bindingHandle = Get(v, "local_transport_handle")
          /\ BindingTyped(v)
      BY <1>4, <2>3 DEF OutcomeShown
    <3>4. v \in Depth3 /\ ValidRegistration(v)
      BY <1>1, <2>3, Depths
    <3>. HIDE DEF v
    <3>5. Given(view.name) /\ Given(view.scope) /\ Given(view.sessionID)
      BY <3>3, <3>4, RegistrationIs, GivenText
    <3>6. ASSUME NEW s \in optional PROVE Given(s)
      <4>1. s # NULL /\ s \in {view.bindingHandle, view.bindingID}
        BY <3>6 DEF Present
      <4>2. PICK key \in {"local_transport_binding_id", "local_transport_handle"} :
                s = Get(v, key)
        BY <3>3, <4>1
      <4>3. Is(Get(v, key), "string")
        BY <3>3, <4>1, <4>2 DEF BindingTyped
      <4>. QED BY <3>4, <4>2, <4>3, GivenText
    <3>7. \A s \in all : Given(s)
      BY <3>5, <3>6
    <3>8. {view.sessionID} \subseteq all
      OBVIOUS
    <3>. HIDE DEF all
    <3>9. Sound(JSON) /\ Sound(Summary)
      BY <3>2, <3>7, <3>8, CopiesSound, NoCopies
    <3>10. Readable(JSON) => Readable(Summary)
      BY <3>2, <3>8, CopiesReadable, NoCopies
    <3>. QED BY <1>2, <2>1, <3>9, <3>10 DEF TextsSound
  <2>4. CASE kind \in {"NotifyValidity", "NotifyCancel"}
    <3>1. outcome \in {"validity", "cancel"}
      BY <1>5, <2>4 DEF OutcomeKind
    <3>2. JSON = Copies({}) /\ Summary = Copies({})
      BY <1>3, <3>1 DEF OutcomeJSON, OutcomeSummary
    <3>. QED BY <1>2, <2>1, <3>2, NoCopies DEF TextsSound
  <2>. QED BY <1>5, <1>7, <2>2, <2>3, <2>4
<1>. QED BY <1>6, <1>7

LEMMA CallTexts == JInv /\ Shown /\ stage = "succeeded" => TextsSound
BY RequestTexts, ResponseTexts, ProfileTexts, OutcomeTexts, SucceededKnown DEF Calls

-----------------------------------------------------------------------------
(* Texts: the copies.                                                      *)

\* A text that was not given was not paid for, or has a string without UTF-8.
Excused == ~text.got => text.starved \/ (stage = "succeeded" /\ Unspoken)

LEMMA TextExcused ==
    ASSUME NEW of, NEW readable, CopyText(of, readable),
           readable \/ (stage = "succeeded" /\ Unspoken)
    PROVE  Excused'
<1>1. \/ text' = [of |-> of, got |-> readable, starved |-> FALSE]
      \/ text' = [of |-> of, got |-> FALSE, starved |-> TRUE]
  BY DEF CopyText
<1>2. UNCHANGED vars
  BY DEF CopyText
<1>3. stage' = stage /\ (Unspoken' <=> Unspoken)
  BY <1>2 DEF vars, Unspoken, Values
<1>4. CASE text' = [of |-> of, got |-> readable, starved |-> FALSE]
  <2>1. text'.got <=> readable
    BY <1>4, Zenon
  <2>. QED BY <1>3, <2>1 DEF Excused
<1>5. CASE text' = [of |-> of, got |-> FALSE, starved |-> TRUE]
  <2>1. text'.starved
    BY <1>5
  <2>. QED BY <2>1 DEF Excused
<1>. QED BY <1>1, <1>4, <1>5

\* The texts ask for no more than the checks of the call have found: what was
\* accepted has all its texts and what was rejected has its error, unless a string of
\* the packet has no UTF-8 or memory runs out; and what has its JSON has its
\* summaries.  (FXCFControlPacket.c, the CopyCanonicalJSON and CopySummary functions
\* and _FXCFControlPacketCopyAcceptedSummary, which look up again what the Init
\* functions have checked.)
THEOREM TextsGiven == TextsSpec => []TextsReadable
<1>1. TextsInit => Init /\ Excused
  BY DEF TextsInit, Excused, NoText
<1>2. [TextsNext]_<<vars, text>> => [Next]_vars
  BY DEF TextsNext, CopyJSON, CopySummary, CopyAccepted, CopyError, CopyText
<1>3. TextsSpec => Spec
  BY <1>1, <1>2, PTL DEF TextsSpec, Spec
<1>4. JInv /\ Shown /\ Excused /\ [TextsNext]_<<vars, text>> => Excused'
  <2>. SUFFICES ASSUME JInv, Shown, Excused, [TextsNext]_<<vars, text>> PROVE Excused'
    OBVIOUS
  <2>1. stage = "succeeded" =>
            /\ Readable(JSON) \/ Unspoken
            /\ Readable(Summary) \/ Unspoken
            /\ Readable(Accepted) \/ Unspoken
    BY CallTexts, SoundReadable DEF TextsSound
  <2>2. CASE CopyJSON
    BY <2>1, <2>2, TextExcused DEF CopyJSON
  <2>3. CASE CopySummary
    BY <2>1, <2>3, TextExcused DEF CopySummary
  <2>4. CASE CopyAccepted
    BY <2>1, <2>4, TextExcused DEF CopyAccepted
  <2>5. CASE CopyError
    <3>1. error # "none" /\ CopyText("error", error # "none")
      BY <2>5 DEF CopyError, JInv, ErrorTellsFailure
    <3>. QED BY <3>1, TextExcused
  <2>6. CASE Next /\ text' = NoText
    BY <2>6 DEF Excused, NoText
  <2>7. CASE UNCHANGED <<vars, text>>
    <3>1. stage' = stage /\ text' = text /\ (Unspoken' <=> Unspoken)
      BY <2>7 DEF vars, Unspoken, Values
    <3>. QED BY <3>1 DEF Excused
  <2>. QED BY <2>2, <2>3, <2>4, <2>5, <2>6, <2>7 DEF TextsNext
<1>5. JInv /\ Shown /\ Excused => TextsReadable
  BY CallTexts DEF TextsReadable, Excused, TextsSound
<1>. QED BY <1>1, <1>3, <1>4, <1>5, ShownKept, PTL DEF TextsSpec
=============================================================================
