------------------------ MODULE NotifyOwnershipProofs ------------------------
(***************************************************************************)
(* Every string is held by exactly what points to it, and the structures    *)
(* implement NotifyClient, for any number of threads, tokens, bindings and *)
(* strings, with answers lost and late.                                    *)
(***************************************************************************)
EXTENDS NotifyOwnership, FiniteSetTheorems, TLAPS

-----------------------------------------------------------------------------
(* The inductive invariant.                                                *)

\* What is under way between the client and the daemon.
ClientTyped ==
    /\ call \in [Thread -> Client!Request \cup {NULL}]
    /\ reply \in [Thread -> Client!Profile \cup {NULL}]
    /\ \A c \in Thread : reply[c] # NULL => call[c] # NULL
    /\ bound \in [Token -> Binding \cup {NULL}]
    /\ last \in [Token -> Nat] /\ first \in [Token -> BOOLEAN] /\ generation \in Nat

\* The answer is being applied, and the table does not say so yet.
Pending == holder # NULL /\ reply[holder] # NULL

HasRegistration(o) == o \in OutcomeStructure /\ "registration" \in DOMAIN o

\* What there is at which stage of the calls that apply an answer.
StageOK ==
    /\ holder = NULL => outcome = NULL /\ transition = NULL
    /\ outcome = NULL => packet = {}
    /\ holder # NULL /\ transition = NULL => Pending

\* A transition hands back a binding only when it discards the registration, so
\* it has no string twice.
TransitionOK == transition # NULL /\ transition.released # NULL => transition.registration = NULL

OutcomeOK == HasRegistration(outcome) => Strings(outcome.registration) \subseteq packet

\* The registration under way is about the token of the request.
NamesOK ==
    Pending =>
        /\ HasRegistration(outcome) =>
            text[outcome.registration.name] = call[holder].token
        /\ transition # NULL /\ transition.registration # NULL =>
            text[transition.registration.name] = call[holder].token

CountsOK == \A s \in Str : rc[s] = Holders(s)
TableOK == \A t \in Token : table[t] # NULL => text[table[t].name] = t

IInv ==
    /\ TypeOK /\ ClientTyped /\ StageOK /\ TransitionOK /\ OutcomeOK /\ NamesOK
    /\ CountsOK /\ TableOK

\* A transition has the contents that the rule gives.
Means(tr, rule) ==
    /\ tr.ok = rule.ok /\ tr.changed = rule.changed /\ tr.valid = rule.valid
    /\ Contents(tr.registration) = rule.registration
    /\ Deref(tr.released) = rule.released

\* The outcome is one of the answer's, and the transition is what the rules give
\* for such an outcome.
AppliedOK ==
    Pending =>
        /\ outcome # NULL /\ transition = NULL =>
            /\ Read(outcome) \in Client!NotifyOutcomes(reply[holder])
            /\ HasRegistration(outcome) /\ outcome.registration.binding # NULL =>
                text[outcome.registration.binding] # NULL
        /\ transition # NULL =>
            \E o \in Client!NotifyOutcomes(reply[holder]) :
                Means(transition, Client!Transition(call[holder].op, o,
                                                    cache[call[holder].token]))

-----------------------------------------------------------------------------
(* The contents of what the structures point to.                           *)

\* The contents of a registration, by the strings' texts.
ContentsIn(tx, r) ==
    IF r = NULL THEN NULL
    ELSE [binding |-> IF r.binding = NULL THEN NULL ELSE tx[r.binding],
          last |-> r.last, first |-> r.first]

LEMMA ContentsInText ==
    /\ \A r : Contents(r) = ContentsIn(text, r)
    /\ cache = [t \in Token |-> ContentsIn(text, table[t])]
BY DEF Contents, Deref, ContentsIn, cache

LEMMA ContentsInTextNext ==
    /\ \A r : Contents(r)' = ContentsIn(text', r)
    /\ cache' = [t \in Token |-> ContentsIn(text', table'[t])]
BY DEF Contents, Deref, ContentsIn, cache

LEMMA SameContents ==
    ASSUME NEW tx, NEW ty, NEW r \in Structure \cup {NULL},
           \A s \in Strings(r) : tx[s] = ty[s]
    PROVE  ContentsIn(tx, r) = ContentsIn(ty, r)
BY DEF ContentsIn, Strings

-----------------------------------------------------------------------------
(* Counting.                                                               *)

\* The entries of a table that hold a string.
Entries(tab, s) == {t \in Token : s \in Strings(tab[t])}

LEMMA EntriesFinite ==
    ASSUME NEW tab, NEW s
    PROVE  IsFiniteSet(Entries(tab, s)) /\ Cardinality(Entries(tab, s)) \in Nat
<1>1. IsFiniteSet(Entries(tab, s))
  BY TokensAssumption, FS_Subset DEF Entries
<1>. QED BY <1>1, FS_CardinalityType

\* Tables that differ in the entry t only; what an entry adds to a count.
SameBut(t, tab, new) == \A u \in Token \ {t} : new[u] = tab[u]
HeldBy(r, s) == One(s \in Strings(r))

\* An entry that is replaced gives up its strings and holds the new ones.
LEMMA EntriesReplaced ==
    ASSUME NEW tab, NEW new, NEW t \in Token, NEW s,
           SameBut(t, tab, new)
    PROVE  Cardinality(Entries(new, s))
             = Cardinality(Entries(tab, s)) - HeldBy(tab[t], s) + HeldBy(new[t], s)
<1>. DEFINE E == Entries(tab, s)
            F == Entries(new, s)
<1>. SUFFICES Cardinality(F) = Cardinality(E) - One(s \in Strings(tab[t]))
                               + One(s \in Strings(new[t]))
  BY DEF HeldBy
<1>1. /\ IsFiniteSet(E) /\ IsFiniteSet(F)
      /\ Cardinality(E) \in Nat /\ Cardinality(F) \in Nat
  BY EntriesFinite
<1>2. /\ t \in E <=> s \in Strings(tab[t])
      /\ t \in F <=> s \in Strings(new[t])
      /\ \A u \in Token \ {t} : u \in E <=> u \in F
      /\ E \subseteq Token /\ F \subseteq Token
  BY DEF Entries, SameBut
<1>. HIDE DEF E, F
<1>3. CASE s \in Strings(tab[t]) /\ s \in Strings(new[t])
  <2>1. E = F
    BY <1>2, <1>3
  <2>. QED BY <1>1, <1>3, <2>1 DEF One
<1>4. CASE s \in Strings(tab[t]) /\ s \notin Strings(new[t])
  <2>1. F = E \ {t} /\ t \in E
    BY <1>2, <1>4
  <2>2. Cardinality(F) = Cardinality(E) - 1
    BY <1>1, <2>1, FS_RemoveElement
  <2>. QED BY <1>1, <1>4, <2>2 DEF One
<1>5. CASE s \notin Strings(tab[t]) /\ s \in Strings(new[t])
  <2>1. F = E \cup {t} /\ t \notin E
    BY <1>2, <1>5
  <2>2. Cardinality(F) = Cardinality(E) + 1
    BY <1>1, <2>1, FS_AddElement
  <2>. QED BY <1>1, <1>5, <2>2 DEF One
<1>6. CASE s \notin Strings(tab[t]) /\ s \notin Strings(new[t])
  <2>1. E = F
    BY <1>2, <1>6
  <2>. QED BY <1>1, <1>6, <2>1 DEF One
<1>. QED BY <1>3, <1>4, <1>5, <1>6

\* The holders of a string among a table, a packet and a transition.
Sum(tab, p, tr, s) ==
    Cardinality(Entries(tab, s))
    + One(s \in p) + One(s \in Registered(tr)) + One(s \in Released(tr))

LEMMA SumIsHolders == \A s : Holders(s) = Sum(table, packet, transition, s)
BY Zenon DEF Holders, Sum, Entries

LEMMA SumIsHoldersNext == \A s : Holders(s)' = Sum(table', packet', transition', s)
BY Zenon DEF Holders, Sum, Entries

LEMMA SumType == ASSUME NEW tab, NEW p, NEW tr, NEW s PROVE Sum(tab, p, tr, s) \in Nat
<1>1. \A b : One(b) \in Nat
  BY DEF One
<1>. QED BY <1>1, EntriesFinite DEF Sum

\* What is held has a count.
LEMMA HeldHasCount ==
    ASSUME NEW tab, NEW p, NEW tr, NEW s,
           \/ \E t \in Token : s \in Strings(tab[t])
           \/ s \in p \/ s \in Registered(tr) \/ s \in Released(tr)
    PROVE  Sum(tab, p, tr, s) # 0
<1>1. Cardinality(Entries(tab, s)) \in Nat
  BY EntriesFinite
<1>2. ASSUME NEW t \in Token, s \in Strings(tab[t]) PROVE Cardinality(Entries(tab, s)) # 0
  <2>1. t \in Entries(tab, s)
    BY <1>2 DEF Entries
  <2>. QED BY <2>1, EntriesFinite, FS_EmptySet
<1>. QED BY <1>1, <1>2 DEF Sum, One

-----------------------------------------------------------------------------
(* The daemon and the calls in flight.                                     *)

LEMMA EffectTyped ==
    ASSUME ClientTyped, NEW r, Client!Effect(r)
    PROVE  /\ bound' \in [Token -> Binding \cup {NULL}]
           /\ last' \in [Token -> Nat] /\ first' \in [Token -> BOOLEAN]
           /\ generation' = generation
<1>1. /\ bound \in [Token -> Binding \cup {NULL}]
      /\ last \in [Token -> Nat] /\ first \in [Token -> BOOLEAN] /\ generation \in Nat
      /\ generation' = generation
  BY DEF ClientTyped, Client!Effect
<1>2. CASE Client!Starts(r.token) /\ UNCHANGED bound
  <2>1. PICK g \in Nat : last' = [last EXCEPT ![r.token] = g]
    BY <1>1, <1>2 DEF Client!Starts
  <2>2. first' = [first EXCEPT ![r.token] = TRUE]
    BY <1>2 DEF Client!Starts
  <2>. QED BY <1>1, <1>2, <2>1, <2>2
<1>3. CASE last' = [last EXCEPT ![r.token] = generation]
           /\ first' = [first EXCEPT ![r.token] = FALSE] /\ UNCHANGED bound
  BY <1>1, <1>3
<1>4. CASE UNCHANGED <<bound, last, first>>
  BY <1>1, <1>4
<1>5. CASE Client!Renews(r.token)
  <2>1. CASE UNCHANGED <<bound, last, first>>
    BY <1>1, <2>1
  <2>2. CASE ~ UNCHANGED <<bound, last, first>>
    <3>1. /\ \E b \in Binding \cup {NULL} : bound' = [bound EXCEPT ![r.token] = b]
          /\ last' = [last EXCEPT ![r.token] = 0] /\ first' = [first EXCEPT ![r.token] = TRUE]
      BY <1>5, <2>2 DEF Client!Renews
    <3>. QED BY <1>1, <3>1
  <2>. QED BY <2>1, <2>2
<1>. QED BY <1>2, <1>3, <1>4, <1>5 DEF Client!Effect

LEMMA AnswersTyped ==
    ASSUME ClientTyped, NEW r \in Client!Request, Client!Effect(r), NEW p \in Client!Answers(r)
    PROVE  p \in Client!Profile
<1>. DEFINE t == r.token
<1>1. t \in Token /\ bound'[t] \in Binding \cup {NULL}
  BY EffectTyped DEF Client!Request
<1>2. ASSUME NEW b \in Binding \cup {NULL}
      PROVE  Client!After(t, b) \in Client!Registration
  BY <1>1, EffectTyped DEF Client!After, Client!Registration
<1>3. Client!Unknown \in Client!Profile
  BY DEF Client!Unknown, Client!Profile, Client!Code, Client!Cause
<1>4. generation \in Nat
  BY DEF ClientTyped
<1>5. CASE \E v \in BOOLEAN : p = [kind |-> "NotifyValidity", valid |-> v]
  BY <1>5 DEF Client!Profile
<1>6. CASE \E k \in Client!RegistrationKinds :
             p = [kind |-> k, registration |-> Client!After(t, bound'[t])]
  BY <1>1, <1>2, <1>6 DEF Client!Profile
<1>7. CASE \E v \in BOOLEAN, b \in {NULL, bound'[t]} :
             p = [kind |-> "NotifyCheck", generation |-> generation, changed |-> v,
                  registration |-> Client!After(t, b)]
  BY <1>1, <1>2, <1>4, <1>7 DEF Client!Profile
<1>8. CASE p = [kind |-> "NotifyCancel", canceled |-> TRUE]
  BY <1>8 DEF Client!Profile
<1>9. CASE p = [kind |-> "NotifyNameState"]
  BY <1>9 DEF Client!Profile
<1>10. \/ p = Client!Unknown
       \/ \E v \in BOOLEAN : p = [kind |-> "NotifyValidity", valid |-> v]
       \/ \E k \in Client!RegistrationKinds :
             p = [kind |-> k, registration |-> Client!After(t, bound'[t])]
       \/ \E v \in BOOLEAN, b \in {NULL, bound'[t]} :
             p = [kind |-> "NotifyCheck", generation |-> generation, changed |-> v,
                  registration |-> Client!After(t, b)]
       \/ p = [kind |-> "NotifyCancel", canceled |-> TRUE]
       \/ p = [kind |-> "NotifyNameState"]
  <2>1. first[t] \in BOOLEAN
    BY <1>1 DEF ClientTyped
  <2>2. /\ (known[t] = "active") \in BOOLEAN
        /\ (first[t] \/ generation > last[t]) \in BOOLEAN
    OBVIOUS
  <2>. QED BY <1>1, <2>2 DEF Client!Answers, Client!RegistrationKinds
<1>. QED BY <1>3, <1>5, <1>6, <1>7, <1>8, <1>9, <1>10

\* Neither the daemon nor a call of another thread changes what the thread that
\* applies an answer works on.
LEMMA ClientStep ==
    ASSUME IInv, Outside
    PROVE  /\ ClientTyped'
           /\ holder # NULL => call'[holder] = call[holder] /\ reply'[holder] = reply[holder]
<1>1. /\ call \in [Thread -> Client!Request \cup {NULL}]
      /\ reply \in [Thread -> Client!Profile \cup {NULL}]
      /\ \A c \in Thread : reply[c] # NULL => call[c] # NULL
      /\ bound \in [Token -> Binding \cup {NULL}]
      /\ last \in [Token -> Nat] /\ first \in [Token -> BOOLEAN] /\ generation \in Nat
      /\ holder \in Thread \cup {NULL} /\ ClientTyped
  BY DEF IInv, ClientTyped, TypeOK
<1>2. ASSUME NEW c \in Thread, Waiting(c), NEW op \in Client!Operation, NEW t \in Token,
             Client!Ask(c, op, t)
      PROVE  ClientTyped' /\ (holder # NULL => call'[holder] = call[holder]
                                              /\ reply'[holder] = reply[holder])
  <2>1. [op |-> op, token |-> t] \in Client!Request
    BY DEF Client!Request
  <2>2. /\ call' = [call EXCEPT ![c] = [op |-> op, token |-> t]]
        /\ UNCHANGED <<reply, bound, last, first, generation>>
    BY <1>2 DEF Client!Ask, Client!daemonVars
  <2>3. reply[c] = NULL
    BY <1>1, <1>2 DEF Client!Ask
  <2>. QED BY <1>1, <1>2, <2>1, <2>2, <2>3 DEF ClientTyped, Waiting
<1>3. ASSUME NEW c \in Thread, Waiting(c), Client!Handle(c)
      PROVE  ClientTyped' /\ (holder # NULL => call'[holder] = call[holder]
                                              /\ reply'[holder] = reply[holder])
  <2>1. call[c] \in Client!Request /\ call[c] # NULL /\ Client!Effect(call[c])
    BY <1>1, <1>3 DEF Client!Handle
  <2>2. PICK p \in Client!Answers(call[c]) : reply' = [reply EXCEPT ![c] = p]
    BY <1>3 DEF Client!Handle
  <2>3. p \in Client!Profile
    BY <1>1, <2>1, AnswersTyped
  <2>4. UNCHANGED call
    BY <1>3 DEF Client!Handle
  <2>5. /\ bound' \in [Token -> Binding \cup {NULL}]
        /\ last' \in [Token -> Nat] /\ first' \in [Token -> BOOLEAN]
        /\ generation' = generation
    BY <1>1, <2>1, EffectTyped
  <2>. QED BY <1>1, <1>3, <2>1, <2>2, <2>3, <2>4, <2>5 DEF ClientTyped, Waiting
<1>4. ASSUME NEW c \in Thread, Waiting(c), Client!Refuse(c)
      PROVE  ClientTyped' /\ (holder # NULL => call'[holder] = call[holder]
                                              /\ reply'[holder] = reply[holder])
  <2>1. PICK p \in Client!Refusals : reply' = [reply EXCEPT ![c] = p]
    BY <1>4 DEF Client!Refuse
  <2>2. p \in Client!Profile
    BY DEF Client!Refusals, Client!Profile, Client!Code, Client!Cause
  <2>3. call[c] # NULL /\ UNCHANGED <<call, bound, last, first, generation>>
    BY <1>4 DEF Client!Refuse, Client!daemonVars
  <2>. QED BY <1>1, <1>4, <2>1, <2>2, <2>3 DEF ClientTyped, Waiting
<1>5. ASSUME NEW c \in Thread, Waiting(c), Client!TimeOut(c)
      PROVE  ClientTyped' /\ (holder # NULL => call'[holder] = call[holder]
                                              /\ reply'[holder] = reply[holder])
  BY <1>1, <1>5 DEF ClientTyped, Waiting, Client!TimeOut, Client!daemonVars
<1>6. ASSUME Client!HandleLate
      PROVE  ClientTyped' /\ UNCHANGED <<call, reply>>
  <2>1. PICK r \in late : Client!Effect(r)
    BY <1>6 DEF Client!HandleLate
  <2>2. /\ bound' \in [Token -> Binding \cup {NULL}]
        /\ last' \in [Token -> Nat] /\ first' \in [Token -> BOOLEAN]
        /\ generation' = generation
    BY <1>1, <2>1, EffectTyped
  <2>3. UNCHANGED <<call, reply>>
    BY <1>6 DEF Client!HandleLate, Client!clientVars
  <2>. QED BY <1>1, <2>2, <2>3 DEF ClientTyped
<1>7. ASSUME Client!Post \/ Client!Restart
      PROVE  ClientTyped' /\ UNCHANGED <<call, reply>>
  BY <1>1, <1>7 DEF ClientTyped, Client!Post, Client!Restart, Client!clientVars
<1>. QED BY <1>2, <1>3, <1>4, <1>5, <1>6, <1>7, Zenon DEF Outside

\* Steps that leave the structures alone.
LEMMA StructuresKept ==
    ASSUME IInv, UNCHANGED <<structures, strings>>, ClientTyped',
           holder # NULL => call'[holder] = call[holder] /\ reply'[holder] = reply[holder]
    PROVE  IInv'
<1>1. UNCHANGED <<table, holder, outcome, packet, transition, rc, text>>
  BY DEF structures, strings
<1>2. TypeOK'
  BY <1>1 DEF IInv, TypeOK
<1>3. StageOK' /\ NamesOK'
  BY <1>1 DEF IInv, StageOK, NamesOK, Pending, HasRegistration
<1>4. TransitionOK' /\ OutcomeOK' /\ TableOK'
  BY <1>1 DEF IInv, TransitionOK, OutcomeOK, TableOK, HasRegistration
<1>5. CountsOK'
  BY <1>1, SumIsHolders, SumIsHoldersNext DEF IInv, CountsOK
<1>. QED BY <1>2, <1>3, <1>4, <1>5 DEF IInv

LEMMA OutsideOK == IInv /\ Outside => IInv'
BY ClientStep, StructuresKept DEF Outside

-----------------------------------------------------------------------------
(* An outcome is made.                                                     *)

\* A field that is replaced and put back.
LEMMA PutBack ==
    ASSUME NEW o, o = [x \in DOMAIN o |-> o[x]], NEW r
    PROVE  [[o EXCEPT !.registration = r] EXCEPT !.registration = o.registration] = o
<1>. DEFINE p == [[o EXCEPT !.registration = r] EXCEPT !.registration = o.registration]
<1>1. p = [x \in DOMAIN o |-> p[x]]
  OBVIOUS
<1>2. \A x \in DOMAIN o : p[x] = o[x]
  OBVIOUS
<1>. HIDE DEF p
<1>3. p = [x \in DOMAIN o |-> o[x]]
  BY <1>1, <1>2
<1>. QED BY <1>3 DEF p

\* The outcome of an answer has the answer's registration, or none.
LEMMA OutcomeTyped ==
    ASSUME NEW p \in Client!Profile, NEW o \in Client!NotifyOutcomes(p)
    PROVE  \/ /\ o \in OutcomeStructure /\ "registration" \notin DOMAIN o
           \/ /\ "registration" \in DOMAIN p /\ p.registration \in Client!Registration
              /\ "registration" \in DOMAIN o /\ o.registration = p.registration
              /\ \A r \in Structure : [o EXCEPT !.registration = r] \in OutcomeStructure
              /\ \A r : [[o EXCEPT !.registration = r] EXCEPT !.registration = p.registration] = o
<1>1. CASE p.kind = "Error"
  <2>1. p.code \in Client!Code /\ p.causes \in SUBSET Client!Cause
    BY <1>1 DEF Client!Profile, Client!RegistrationKinds
  <2>2. PICK f \in {Client!StatusFamilyForError(p.code, p.causes), "failed"} :
          o = [kind |-> "error", family |-> f]
    BY <1>1 DEF Client!NotifyOutcomes
  <2>3. f \in Client!Family
    BY <2>1, <2>2 DEF Client!StatusFamilyForError, Client!NotifyFailedFamily, Client!Family
  <2>. QED BY <2>2, <2>3 DEF OutcomeStructure
<1>2. CASE p.kind \in Client!RegistrationKinds
  <2>1. "registration" \in DOMAIN p /\ p.registration \in Client!Registration
    BY <1>2 DEF Client!Profile, Client!RegistrationKinds
  <2>2. o = [kind |-> "registration", registration |-> p.registration]
    BY <1>2 DEF Client!NotifyOutcomes, Client!RegistrationKinds
  <2>3. o = [x \in DOMAIN o |-> o[x]] /\ o.registration = p.registration
    BY <2>2
  <2>4. \A r : [[o EXCEPT !.registration = r] EXCEPT !.registration = p.registration] = o
    BY <2>3, PutBack
  <2>5. \A r \in Structure : [o EXCEPT !.registration = r] \in OutcomeStructure
    BY <2>1, <2>2 DEF OutcomeStructure
  <2>6. "registration" \in DOMAIN o
    BY <2>2
  <2>. QED BY <2>1, <2>3, <2>4, <2>5, <2>6
<1>3. CASE p.kind = "NotifyCheck"
  <2>1. /\ "registration" \in DOMAIN p /\ p.registration \in Client!Registration
        /\ p.generation \in Nat /\ p.changed \in BOOLEAN
    BY <1>3 DEF Client!Profile, Client!RegistrationKinds
  <2>2. o = [kind |-> "check", registration |-> p.registration,
             generation |-> p.generation, changed |-> p.changed]
    BY <1>3 DEF Client!NotifyOutcomes, Client!RegistrationKinds
  <2>3. o = [x \in DOMAIN o |-> o[x]] /\ o.registration = p.registration
    BY <2>2
  <2>4. \A r : [[o EXCEPT !.registration = r] EXCEPT !.registration = p.registration] = o
    BY <2>3, PutBack
  <2>5. \A r \in Structure : [o EXCEPT !.registration = r] \in OutcomeStructure
    BY <2>1, <2>2 DEF OutcomeStructure
  <2>6. "registration" \in DOMAIN o
    BY <2>2
  <2>. QED BY <2>1, <2>3, <2>4, <2>5, <2>6
<1>4. CASE p.kind = "NotifyValidity"
  <2>1. p.valid \in BOOLEAN
    BY <1>4 DEF Client!Profile, Client!RegistrationKinds
  <2>2. o = [kind |-> "validity", valid |-> p.valid]
    BY <1>4 DEF Client!NotifyOutcomes, Client!RegistrationKinds
  <2>. QED BY <2>1, <2>2 DEF OutcomeStructure
<1>5. CASE p.kind = "NotifyCancel"
  <2>1. p.canceled \in BOOLEAN
    BY <1>5 DEF Client!Profile, Client!RegistrationKinds
  <2>2. o = [kind |-> "cancel", canceled |-> p.canceled]
    BY <1>5 DEF Client!NotifyOutcomes, Client!RegistrationKinds
  <2>. QED BY <2>1, <2>2 DEF OutcomeStructure
<1>6. CASE p.kind \in {"NotifyNameState", "NotifyPost"}
  <2>1. PICK k \in {"name_state", "post"} : o = [kind |-> k]
    BY <1>6 DEF Client!NotifyOutcomes, Client!RegistrationKinds
  <2>. QED BY <2>1 DEF OutcomeStructure
<1>7. CASE p.kind = "GenericObject"
  BY <1>7 DEF Client!NotifyOutcomes, Client!RegistrationKinds
<1>. QED BY <1>1, <1>2, <1>3, <1>4, <1>5, <1>6, <1>7 DEF Client!Profile, Client!RegistrationKinds

LEMMA OutcomeInitOK ==
    ASSUME IInv, NEW c \in Thread, OutcomeInit(c)
    PROVE  IInv' /\ AppliedOK'
<1>. DEFINE t == call[c].token
            p == reply[c]
<1>1. PICK o \in Client!NotifyOutcomes(p), at \in NewStrings(TextsIn(p, t)) :
        LET texts == DOMAIN at
            new == {at[x] : x \in texts}
        IN  /\ packet' = new
            /\ rc' = Retained(rc, new)
            /\ text' = [s \in Str |-> IF s \in new THEN CHOOSE x \in texts : at[x] = s
                                      ELSE text[s]]
            /\ outcome' = IF "registration" \notin DOMAIN o THEN o
                          ELSE [o EXCEPT !.registration =
                                   [name |-> at[t],
                                    binding |-> IF o.registration.binding = NULL THEN NULL
                                                ELSE at[o.registration.binding],
                                    last |-> o.registration.last,
                                    first |-> o.registration.first]]
  BY DEF OutcomeInit
<1>. DEFINE texts == TextsIn(p, t)
            new == {at[x] : x \in texts}
<1>2. /\ holder = NULL /\ p # NULL /\ holder' = c
      /\ UNCHANGED <<call, reply, bound, last, first, generation, table, transition>>
      /\ c # NULL /\ outcome = NULL /\ transition = NULL /\ packet = {}
  BY NullIsNothing DEF OutcomeInit, clientVars, daemonVars, IInv, StageOK
<1>3. p \in Client!Profile /\ call[c] \in Client!Request /\ t \in Token /\ t # NULL
  <2>1. p \in Client!Profile /\ call[c] \in Client!Request
    BY <1>2 DEF IInv, ClientTyped
  <2>. QED BY <2>1, NullIsNothing DEF Client!Request
<1>4. /\ at \in [texts -> Free] /\ DOMAIN at = texts
      /\ \A x, y \in texts : at[x] = at[y] => x = y
      /\ new \subseteq Free /\ new \subseteq Str
  BY DEF NewStrings, Free
<1>5. texts \subseteq Token \cup Binding
  <2>1. "registration" \in DOMAIN p => p.registration.binding \in Binding \cup {NULL}
    BY <1>3 DEF Client!Profile, Client!Registration, Client!RegistrationKinds
  <2>. QED BY <1>3, <2>1 DEF TextsIn
<1>6. /\ packet' = new
      /\ rc' = Retained(rc, new)
      /\ text' = [s \in Str |-> IF s \in new THEN CHOOSE x \in texts : at[x] = s
                                ELSE text[s]]
  BY <1>1, <1>4
<1>7. /\ text' \in [Str -> Token \cup Binding \cup {NULL}]
      /\ \A x \in texts : text'[at[x]] = x
      /\ \A s \in Str \ new : text'[s] = text[s]
  <2>1. \A x \in texts : (CHOOSE y \in texts : at[y] = at[x]) = x
    BY <1>4
  <2>2. \A s \in new : \E x \in texts : s = at[x]
    OBVIOUS
  <2>3. \A x \in texts : at[x] \in new /\ at[x] \in Str
    BY <1>4
  <2>4. text \in [Str -> Token \cup Binding \cup {NULL}]
    BY DEF IInv, TypeOK
  <2>. HIDE DEF new, texts
  <2>5. \A x \in texts : text'[at[x]] = x
    BY <1>6, <2>1, <2>3
  <2>6. \A s \in Str : text'[s] \in Token \cup Binding \cup {NULL}
    BY <1>5, <1>6, <2>2, <2>4, <2>5
  <2>. QED BY <1>6, <2>5, <2>6
<1>. HIDE DEF new
<1>8. /\ outcome' \in OutcomeStructure
      /\ HasRegistration(outcome)' =>
            /\ Strings(outcome'.registration) \subseteq new
            /\ text'[outcome'.registration.name] = t
            /\ outcome'.registration.binding # NULL =>
                text'[outcome'.registration.binding] # NULL
      /\ Read(outcome)' = o
  <2>1. CASE o \in OutcomeStructure /\ "registration" \notin DOMAIN o
    BY <1>1, <2>1 DEF HasRegistration, Read
  <2>2. CASE /\ "registration" \in DOMAIN p /\ p.registration \in Client!Registration
             /\ "registration" \in DOMAIN o /\ o.registration = p.registration
             /\ \A r \in Structure : [o EXCEPT !.registration = r] \in OutcomeStructure
             /\ \A r : [[o EXCEPT !.registration = r] EXCEPT !.registration = p.registration] = o
    <3>. DEFINE r == [name |-> at[t],
                      binding |-> IF o.registration.binding = NULL THEN NULL
                                  ELSE at[o.registration.binding],
                      last |-> o.registration.last,
                      first |-> o.registration.first]
    <3>1. texts = {t, p.registration.binding} \ {NULL}
      BY <2>2 DEF TextsIn
    <3>2. t \in texts /\ (p.registration.binding # NULL => p.registration.binding \in texts)
      BY <1>3, <3>1
    <3>3. at[t] \in new /\ (p.registration.binding # NULL => at[p.registration.binding] \in new)
      BY <3>2 DEF new
    <3>4. r \in Structure
      BY <1>4, <2>2, <3>3 DEF Structure, Client!Registration
    <3>5. outcome' = [o EXCEPT !.registration = r]
      BY <1>1, <2>2
    <3>6. outcome'.registration = r
      BY <2>2, <3>5
    <3>7. Strings(r) \subseteq new
      BY <2>2, <3>3 DEF Strings
    <3>8. text'[r.name] = t
      BY <1>7, <3>2
    <3>9. r.binding # NULL => text'[r.binding] # NULL
      BY <1>7, <2>2, <3>1, <3>2
    <3>10. ContentsIn(text', r) = p.registration
      <4>1. p.registration.binding # NULL =>
              at[p.registration.binding] # NULL
              /\ text'[at[p.registration.binding]] = p.registration.binding
        BY <1>4, <1>7, <3>2, <3>3, NullIsNothing
      <4>2. r # NULL
        <5>. HIDE DEF r
        <5>. QED BY <3>4, NullIsNothing
      <4>3. o.registration = p.registration
        BY <2>2
      <4>4. r.binding = IF p.registration.binding = NULL THEN NULL
                        ELSE at[p.registration.binding]
        BY <4>3
      <4>5. r.last = p.registration.last /\ r.first = p.registration.first
        BY <4>3
      <4>. HIDE DEF r
      <4>6. ContentsIn(text', r) = [binding |-> p.registration.binding,
              last |-> p.registration.last, first |-> p.registration.first]
        BY <4>1, <4>2, <4>4, <4>5 DEF ContentsIn
      <4>. QED BY <2>2, <4>6 DEF Client!Registration
    <3>. HIDE DEF r
    <3>11. "registration" \in DOMAIN outcome'
      BY <2>2, <3>5
    <3>12. Read(outcome)' = [outcome' EXCEPT !.registration = Contents(outcome.registration)']
      BY <3>11 DEF Read
    <3>13. Contents(outcome.registration)' = p.registration
      BY <3>6, <3>10 DEF Contents, ContentsIn, Deref
    <3>14. Read(outcome)' = o
      BY <2>2, <3>5, <3>12, <3>13
    <3>. QED BY <2>2, <3>4, <3>5, <3>6, <3>7, <3>8, <3>9, <3>14
  <2>. QED BY <1>3, <2>1, <2>2, OutcomeTyped
<1>9. TypeOK'
  <2>1. rc' \in [Str -> Nat]
    BY <1>6 DEF IInv, TypeOK, Retained, One
  <2>. QED BY <1>2, <1>4, <1>6, <1>7, <1>8, <2>1 DEF IInv, TypeOK
<1>10. CountsOK'
  <2>1. ASSUME NEW s \in Str PROVE rc'[s] = Sum(table', packet', transition', s)
    <3>1. rc'[s] = rc[s] + One(s \in new)
      BY <1>6 DEF Retained
    <3>2. rc[s] = Sum(table, {}, transition, s)
      BY <1>2, SumIsHolders DEF IInv, CountsOK
    <3>3. One(s \in {}) = 0 /\ \A b : One(b) \in Nat
      BY DEF One
    <3>. QED BY <1>2, <1>6, <3>1, <3>2, <3>3, EntriesFinite DEF Sum
  <2>. QED BY <2>1, SumIsHoldersNext DEF CountsOK
<1>11. TableOK'
  <2>1. ASSUME NEW u \in Token, table[u] # NULL PROVE table[u].name \in Str \ new
    <3>1. table[u].name \in Str /\ table[u].name \in Strings(table[u])
      <4>1. table[u] \in Structure
        BY <2>1 DEF IInv, TypeOK
      <4>. QED BY <2>1, <4>1, NullIsNothing DEF Structure, Strings
    <3>2. rc[table[u].name] # 0
      BY <3>1, HeldHasCount, SumIsHolders DEF IInv, CountsOK
    <3>. QED BY <1>4, <3>1, <3>2 DEF Free
  <2>. QED BY <1>2, <1>7, <2>1 DEF IInv, TableOK
<1>12. ClientTyped'
  BY <1>2 DEF IInv, ClientTyped
<1>13. StageOK' /\ TransitionOK' /\ OutcomeOK' /\ NamesOK'
  <2>1. outcome' # NULL
    BY <1>8, NullIsNothing
  <2>. QED
    BY <1>2, <1>6, <1>8, <2>1 DEF StageOK, TransitionOK, OutcomeOK, NamesOK, Pending
<1>14. AppliedOK'
  BY <1>2, <1>8 DEF AppliedOK
<1>. QED BY <1>9, <1>10, <1>11, <1>12, <1>13, <1>14 DEF IInv

\* A response without an outcome changes no structure.
LEMMA OutcomeFailsOK ==
    ASSUME IInv, NEW c \in Thread, OutcomeFails(c)
    PROVE  IInv'
<1>1. /\ holder = NULL /\ UNCHANGED <<structures, strings>>
      /\ call' = [call EXCEPT ![c] = NULL] /\ reply' = [reply EXCEPT ![c] = NULL]
      /\ UNCHANGED <<bound, last, first, generation>>
  BY DEF OutcomeFails, Client!Ignore, Client!Return, Client!daemonVars
<1>2. ClientTyped'
  BY <1>1 DEF IInv, ClientTyped
<1>. QED BY <1>1, <1>2, StructuresKept

-----------------------------------------------------------------------------
(* A transition is made of it.                                             *)

\* What the rules give, for an outcome and what is cached.
RuleOK(rule, op, o, cached) ==
    /\ rule.ok \in BOOLEAN
    /\ rule.changed \in BOOLEAN \cup {NULL} /\ rule.valid \in BOOLEAN \cup {NULL}
    /\ rule.released # NULL =>
        cached # NULL /\ rule.registration = NULL /\ rule.released = Contents(cached).binding
    /\ rule.registration # NULL =>
        \/ /\ o.kind = "error" \/ op \in {"get_state", "is_valid_token"}
           /\ cached # NULL /\ rule.registration = Contents(cached)
        \/ /\ op = "check" /\ o.kind = "check" /\ cached # NULL
           /\ rule.registration.last \in Nat /\ rule.registration.first \in BOOLEAN
           /\ rule.registration = Client!Merged(Read(o), Contents(cached))
        \/ /\ op \in Client!StoreOperation /\ o.kind = "registration"
           /\ rule.registration = Read(o).registration

LEMMA RuleEffect ==
    ASSUME NEW op \in Client!Operation, NEW o \in OutcomeStructure,
           NEW cached \in Structure \cup {NULL}
    PROVE  RuleOK(Client!Transition(op, Read(o), Contents(cached)), op, o, cached)
<1>. DEFINE rule == Client!Transition(op, Read(o), Contents(cached))
            old == Contents(cached)
<1>. SUFFICES RuleOK(rule, op, o, cached)
  OBVIOUS
<1>1. /\ Read(o).kind = o.kind
      /\ o.kind = "error" => Read(o).family = o.family
      /\ o.kind = "validity" => Read(o).valid = o.valid /\ o.valid \in BOOLEAN
      /\ o.kind = "check" => /\ Read(o).generation \in Nat /\ Read(o).changed \in BOOLEAN
                            /\ Read(o).registration.last \in Nat
                            /\ Read(o).registration.first \in BOOLEAN
  <2>1. CASE "registration" \notin DOMAIN o
    BY <2>1 DEF Read, OutcomeStructure
  <2>2. CASE "registration" \in DOMAIN o
    <3>1. o.registration \in Structure /\ o.kind \in {"registration", "check"}
      BY <2>2 DEF OutcomeStructure
    <3>2. /\ Contents(o.registration).last \in Nat /\ Contents(o.registration).first \in BOOLEAN
      BY <3>1, NullIsNothing DEF Contents, Structure
    <3>3. /\ Read(o).kind = o.kind /\ Read(o).registration = Contents(o.registration)
          /\ o.kind = "check" => /\ Read(o).generation = o.generation
                                /\ Read(o).changed = o.changed
                                /\ o.generation \in Nat /\ o.changed \in BOOLEAN
      BY <2>2 DEF Read, OutcomeStructure
    <3>. QED BY <3>1, <3>2, <3>3
  <2>. QED BY <2>1, <2>2
<1>2. /\ cached = NULL => old = NULL
      /\ cached # NULL => old.last \in Nat /\ old.first \in BOOLEAN
      /\ old = Contents(cached)
  BY DEF Contents, Structure
<1>. HIDE DEF old
<1>3. ASSUME NEW valid \in BOOLEAN \cup {NULL}
      PROVE  RuleOK(Client!Discard(old, valid), op, o, cached)
  BY <1>2 DEF RuleOK, Client!Discard, Client!ReleasedBinding
<1>4. ASSUME NEW valid \in BOOLEAN \cup {NULL},
             o.kind = "error" \/ op \in {"get_state", "is_valid_token"}
      PROVE  RuleOK(Client!Caching(old, NULL, valid), op, o, cached)
  BY <1>2, <1>4 DEF RuleOK, Client!Caching
<1>5. CASE o.kind = "error"
  <2>1. PICK valid \in BOOLEAN \cup {NULL} :
          rule = Client!Discard(old, valid) \/ rule = Client!Caching(old, NULL, valid)
    BY <1>1, <1>5, Zenon DEF Client!Transition, Client!HandleError, old
  <2>. HIDE DEF rule
  <2>2. CASE rule = Client!Discard(old, valid)
    BY <1>3, <2>2
  <2>3. CASE rule = Client!Caching(old, NULL, valid)
    BY <1>4, <1>5, <2>3
  <2>. QED BY <2>1, <2>2, <2>3
<1>6. CASE o.kind # "error"
  <2>1. rule = Client!HandleSuccess(op, Read(o), old)
    BY <1>1, <1>6 DEF Client!Transition, old
  <2>. HIDE DEF rule
  <2>2. CASE rule = Client!Failure
    BY <2>2 DEF RuleOK, Client!Failure
  <2>3. CASE /\ op \in Client!StoreOperation /\ o.kind = "registration"
             /\ rule = Client!Caching(Read(o).registration, NULL, NULL)
    BY <2>3 DEF RuleOK, Client!Caching
  <2>4. CASE /\ op = "check" /\ o.kind = "check" /\ cached # NULL
             /\ rule = Client!Caching(Client!Merged(Read(o), old), Client!Changed(Read(o), old),
                                      NULL)
    <3>1. /\ Client!Merged(Read(o), old).last \in Nat
          /\ Client!Merged(Read(o), old).first \in BOOLEAN
      BY <1>1, <1>2, <2>4 DEF Client!Merged, Client!Max3, Client!AtLeast
    <3>2. Client!Changed(Read(o), old) \in BOOLEAN
      BY <1>1, <1>2, <2>4 DEF Client!Changed
    <3>. QED BY <1>2, <2>4, <3>1, <3>2 DEF RuleOK, Client!Caching
  <2>5. CASE \E valid \in BOOLEAN \cup {NULL} : rule = Client!Discard(old, valid)
    BY <1>3, <2>5
  <2>6. CASE /\ op \in {"get_state", "is_valid_token"}
             /\ \E valid \in BOOLEAN \cup {NULL} : rule = Client!Caching(old, NULL, valid)
    BY <1>4, <2>6
  <2>7. \/ rule = Client!Failure
        \/ /\ op \in Client!StoreOperation /\ o.kind = "registration"
           /\ rule = Client!Caching(Read(o).registration, NULL, NULL)
        \/ /\ op = "check" /\ o.kind = "check" /\ cached # NULL
           /\ rule = Client!Caching(Client!Merged(Read(o), old), Client!Changed(Read(o), old),
                                    NULL)
        \/ \E valid \in BOOLEAN \cup {NULL} : rule = Client!Discard(old, valid)
        \/ /\ op \in {"get_state", "is_valid_token"}
           /\ \E valid \in BOOLEAN \cup {NULL} : rule = Client!Caching(old, NULL, valid)
    BY <1>1, <1>2, <2>1 DEF Client!HandleSuccess, Client!HandleValidity, Client!ExpectedKind,
       Client!StoreOperation, Client!Operation
  <2>. QED BY <2>2, <2>3, <2>4, <2>5, <2>6, <2>7
<1>. QED BY <1>5, <1>6

\* The registration of a transition is about the token, and its strings are strings.
LEMMA SourceOK ==
    ASSUME NEW op \in Client!Operation, NEW o \in OutcomeStructure,
           NEW cached \in Structure \cup {NULL}, NEW rule, RuleOK(rule, op, o, cached),
           rule.registration # NULL
    PROVE  /\ Source(op, o, cached, rule) \in Structure
           /\ \/ cached # NULL /\ Source(op, o, cached, rule).name = cached.name
              \/ "registration" \in DOMAIN o
                 /\ Source(op, o, cached, rule).name = o.registration.name
<1>1. CASE (o.kind = "error" \/ op \in {"get_state", "is_valid_token"}) /\ cached # NULL
  BY <1>1 DEF Source
<1>2. CASE /\ op = "check" /\ o.kind = "check" /\ cached # NULL
           /\ rule.registration.last \in Nat /\ rule.registration.first \in BOOLEAN
  <2>1. "registration" \in DOMAIN o /\ o.registration \in Structure
    BY <1>2 DEF OutcomeStructure
  <2>2. cached.binding \in Str \cup {NULL}
    BY <1>2 DEF Structure
  <2>. QED BY <1>2, <2>1, <2>2 DEF Source, Structure
<1>3. CASE op \in Client!StoreOperation /\ o.kind = "registration"
  <2>1. "registration" \in DOMAIN o /\ o.registration \in Structure
    BY <1>3 DEF OutcomeStructure
  <2>. QED BY <1>3, <2>1 DEF Source, Client!StoreOperation
<1>. QED BY <1>1, <1>2, <1>3 DEF RuleOK

\* It has the contents the rule gives.
LEMMA SourceMeans ==
    ASSUME NEW op \in Client!Operation, NEW o \in OutcomeStructure,
           NEW cached \in Structure \cup {NULL}, NEW rule, RuleOK(rule, op, o, cached),
           rule.registration # NULL,
           "registration" \in DOMAIN o /\ o.registration.binding # NULL
             => text[o.registration.binding] # NULL
    PROVE  Contents(Source(op, o, cached, rule)) = rule.registration
<1>. DEFINE source == Source(op, o, cached, rule)
<1>1. CASE /\ o.kind = "error" \/ op \in {"get_state", "is_valid_token"}
           /\ cached # NULL /\ rule.registration = Contents(cached)
  BY <1>1 DEF Source
<1>2. CASE /\ op = "check" /\ o.kind = "check" /\ cached # NULL
           /\ rule.registration.last \in Nat /\ rule.registration.first \in BOOLEAN
           /\ rule.registration = Client!Merged(Read(o), Contents(cached))
  <2>1. "registration" \in DOMAIN o /\ o.registration \in Structure
    BY <1>2 DEF OutcomeStructure
  <2>2. /\ source.binding = IF o.registration.binding # NULL THEN o.registration.binding
                             ELSE cached.binding
        /\ source.last = rule.registration.last /\ source.first = rule.registration.first
    BY <1>2 DEF Source
  <2>3. source \in Structure /\ source # NULL
    <3>1. source \in Structure
      BY SourceOK
    <3>. HIDE DEF source
    <3>. QED BY <3>1, NullIsNothing
  <2>4. Read(o).registration.binding = Deref(o.registration.binding)
    <3>1. Contents(o.registration).binding = Deref(o.registration.binding)
      BY <2>1, NullIsNothing DEF Contents
    <3>2. Read(o).registration = Contents(o.registration)
      BY <2>1 DEF Read, OutcomeStructure
    <3>. QED BY <3>1, <3>2
  <2>5. Contents(cached).binding = Deref(cached.binding)
    BY <1>2 DEF Contents
  <2>. HIDE DEF source
  <2>6. Contents(source) = [binding |-> Deref(source.binding),
                            last |-> source.last, first |-> source.first]
    BY <2>3 DEF Contents
  <2>7. Deref(source.binding) = IF Read(o).registration.binding # NULL
                                THEN Read(o).registration.binding
                                ELSE Contents(cached).binding
    BY <2>1, <2>2, <2>4, <2>5 DEF Deref
  <2>8. rule.registration = [binding |-> IF Read(o).registration.binding # NULL
                                         THEN Read(o).registration.binding
                                         ELSE Contents(cached).binding,
                             last |-> rule.registration.last,
                             first |-> rule.registration.first]
    BY <1>2 DEF Client!Merged
  <2>9. Contents(source) = rule.registration
    BY <2>2, <2>6, <2>7, <2>8
  <2>. QED BY <2>9 DEF source
<1>3. CASE /\ op \in Client!StoreOperation /\ o.kind = "registration"
           /\ rule.registration = Read(o).registration
  <2>1. "registration" \in DOMAIN o /\ Read(o).registration = Contents(o.registration)
    BY <1>3 DEF OutcomeStructure, Read
  <2>. QED BY <1>3, <2>1 DEF Source, Client!StoreOperation
<1>. QED BY <1>1, <1>2, <1>3 DEF RuleOK

LEMMA TransitionInitOK ==
    ASSUME IInv, NEW c \in Thread, TransitionInit(c)
    PROVE  IInv' /\ (AppliedOK => AppliedOK')
<1>. DEFINE op == call[c].op
            t == call[c].token
            cached == table[t]
            rule == Client!Transition(op, Read(outcome), Contents(cached))
            registration == IF rule.registration = NULL THEN NULL
                            ELSE Source(op, outcome, cached, rule)
            released == IF rule.released = NULL THEN NULL ELSE cached.binding
            new == [ok |-> rule.ok, registration |-> registration,
                    released |-> released, changed |-> rule.changed,
                    valid |-> rule.valid, family |-> Family(outcome)]
<1>1. /\ holder = c /\ outcome # NULL /\ transition = NULL
      /\ transition' = new
      /\ rc' = Retained(Retained(rc, Strings(registration)), {released} \ {NULL})
      /\ UNCHANGED <<call, reply, bound, last, first, generation, table, holder, outcome, packet, text>>
  BY DEF TransitionInit, Assigned, clientVars, daemonVars
<1>2. /\ c # NULL /\ reply[c] # NULL /\ call[c] \in Client!Request
      /\ op \in Client!Operation /\ t \in Token
  <2>1. c # NULL
    BY NullIsNothing
  <2>2. reply[c] # NULL
    BY <1>1, <2>1 DEF IInv, StageOK, Pending
  <2>3. call[c] \in Client!Request
    BY <2>2 DEF IInv, ClientTyped
  <2>. QED BY <2>1, <2>2, <2>3 DEF Client!Request
<1>3. outcome \in OutcomeStructure /\ cached \in Structure \cup {NULL}
  BY <1>1, <1>2 DEF IInv, TypeOK
<1>4. RuleOK(rule, op, outcome, cached)
  BY <1>2, <1>3, RuleEffect
<1>. HIDE DEF rule
<1>5. /\ registration \in Structure \cup {NULL}
      /\ registration # NULL => text[registration.name] = t
  <2>1. CASE rule.registration = NULL
    BY <2>1
  <2>2. CASE rule.registration # NULL
    <3>. DEFINE source == Source(op, outcome, cached, rule)
    <3>1. /\ source \in Structure
          /\ \/ cached # NULL /\ source.name = cached.name
             \/ "registration" \in DOMAIN outcome /\ source.name = outcome.registration.name
      BY <1>2, <1>3, <1>4, <2>2, SourceOK
    <3>2. cached # NULL => text[cached.name] = t
      BY <1>2 DEF IInv, TableOK
    <3>3. "registration" \in DOMAIN outcome => text[outcome.registration.name] = t
      BY <1>1, <1>2, <1>3 DEF IInv, NamesOK, Pending, HasRegistration
    <3>. QED BY <2>2, <3>1, <3>2, <3>3
  <2>. QED BY <2>1, <2>2
<1>6. /\ released \in Str \cup {NULL}
      /\ released # NULL => registration = NULL
  BY <1>3, <1>4 DEF RuleOK, Structure
<1>7. AppliedOK => /\ Read(outcome) \in Client!NotifyOutcomes(reply[c])
                   /\ Contents(registration) = rule.registration
                   /\ Deref(released) = rule.released
  <2>. SUFFICES ASSUME AppliedOK
                PROVE  /\ Read(outcome) \in Client!NotifyOutcomes(reply[c])
                       /\ Contents(registration) = rule.registration
                       /\ Deref(released) = rule.released
    OBVIOUS
  <2>1. /\ Read(outcome) \in Client!NotifyOutcomes(reply[c])
        /\ HasRegistration(outcome) /\ outcome.registration.binding # NULL =>
            text[outcome.registration.binding] # NULL
    BY <1>1, <1>2 DEF AppliedOK, Pending
  <2>2. Contents(registration) = rule.registration
    <3>1. CASE rule.registration = NULL
      BY <3>1 DEF Contents
    <3>2. CASE rule.registration # NULL
      BY <1>2, <1>3, <1>4, <2>1, <3>2, SourceMeans DEF HasRegistration
    <3>. QED BY <3>1, <3>2
  <2>3. Deref(released) = rule.released
    BY <1>4 DEF RuleOK, Deref, Contents
  <2>. QED BY <2>1, <2>2, <2>3
<1>17. Family(outcome) \in Client!Family
  BY <1>3 DEF Family, OutcomeStructure, Client!Family
<1>. HIDE DEF registration, released
<1>8. new \in TransitionStructure /\ new # NULL
  <2>1. new \in TransitionStructure
    BY <1>4, <1>5, <1>6, <1>17 DEF TransitionStructure, RuleOK
  <2>. QED BY <2>1, NullIsNothing
<1>9. Registered(new) = Strings(registration) /\ Released(new) = {released} \ {NULL}
  BY <1>8 DEF Registered, Released
<1>10. /\ new.registration = registration /\ new.released = released
       /\ new.ok = rule.ok /\ new.changed = rule.changed /\ new.valid = rule.valid
  OBVIOUS
<1>. HIDE DEF new
<1>11. \A s \in Str : /\ rc[s] \in Nat
                      /\ rc'[s] = rc[s] + One(s \in Strings(registration))
                                        + One(s \in {released} \ {NULL})
  BY <1>1 DEF IInv, TypeOK, Retained
<1>12. CountsOK'
  <2>1. ASSUME NEW s \in Str PROVE rc'[s] = Sum(table', packet', transition', s)
    <3>1. rc[s] = Sum(table, packet, NULL, s)
      BY <1>1, SumIsHolders DEF IInv, CountsOK
    <3>2. One(s \in Registered(NULL)) = 0 /\ One(s \in Released(NULL)) = 0
      BY DEF One, Registered, Released
    <3>3. \A b : One(b) \in Nat
      BY DEF One
    <3>4. Sum(table', packet', transition', s) = Sum(table, packet, new, s)
      BY <1>1, Zenon
    <3>5. Sum(table, packet, new, s)
            = Cardinality(Entries(table, s)) + One(s \in packet)
              + One(s \in Strings(registration)) + One(s \in {released} \ {NULL})
      BY <1>9, Zenon DEF Sum
    <3>6. Cardinality(Entries(table, s)) \in Nat
      BY EntriesFinite
    <3>. QED BY <1>11, <3>1, <3>2, <3>3, <3>4, <3>5, <3>6 DEF Sum
  <2>. QED BY <2>1, SumIsHoldersNext DEF CountsOK
<1>13. TypeOK'
  <2>1. rc' \in [Str -> Nat]
    BY <1>1, <1>11 DEF Retained, One
  <2>. QED BY <1>1, <1>8, <2>1 DEF IInv, TypeOK
<1>14. ClientTyped' /\ OutcomeOK' /\ TableOK'
  BY <1>1 DEF IInv, ClientTyped, OutcomeOK, TableOK, HasRegistration
<1>15. StageOK' /\ TransitionOK'
  BY <1>1, <1>6, <1>8, <1>10 DEF IInv, StageOK, TransitionOK, Pending
<1>16. NamesOK'
  BY <1>1, <1>5, <1>10 DEF IInv, NamesOK, Pending, HasRegistration
<1>18. ASSUME AppliedOK PROVE AppliedOK'
  <2>1. rule = Client!Transition(op, Read(outcome), cache[t])
    BY <1>2 DEF rule, cache
  <2>2. /\ \A r : Contents(r)' = Contents(r)
        /\ \A s : Deref(s)' = Deref(s)
        /\ cache' = cache
    BY <1>1 DEF Contents, Deref, cache
  <2>3. /\ transition' # NULL /\ holder' = c /\ reply' = reply /\ call' = call
        /\ transition'.ok = rule.ok /\ transition'.changed = rule.changed
        /\ transition'.valid = rule.valid
        /\ transition'.registration = registration /\ transition'.released = released
    BY <1>1, <1>8, <1>10
  <2>4. Contents(transition.registration)' = rule.registration
    <3>1. Contents(transition.registration)' = Contents(registration)
      BY <2>3, <1>1 DEF Contents, Deref
    <3>. QED BY <3>1, <1>7, <1>18
  <2>5. Deref(transition.released)' = rule.released
    <3>1. Deref(transition.released)' = Deref(released)
      BY <2>3, <1>1 DEF Deref
    <3>. QED BY <3>1, <1>7, <1>18
  <2>6. \E o \in Client!NotifyOutcomes(reply'[holder']) :
          Means(transition, Client!Transition(call[holder].op, o, cache[call[holder].token]))'
    <3>1. Read(outcome) \in Client!NotifyOutcomes(reply'[holder'])
      BY <1>7, <1>18, <2>3
    <3>2. Client!Transition(call'[holder'].op, Read(outcome), cache'[call'[holder'].token])
            = rule
      BY <2>1, <2>2, <2>3
    <3>. QED BY <2>3, <2>4, <2>5, <3>1, <3>2 DEF Means
  <2>. QED BY <2>3, <2>6 DEF AppliedOK
<1>. QED BY <1>12, <1>13, <1>14, <1>15, <1>16, <1>18 DEF IInv

-----------------------------------------------------------------------------
(* The table is changed, and what is not needed any more is cleared.       *)

\* A string that is held is still there.
LEMMA HeldSurvives ==
    ASSUME text \in [Str -> Token \cup Binding \cup {NULL}], Surviving, CountsOK'
    PROVE  /\ text' \in [Str -> Token \cup Binding \cup {NULL}]
           /\ \A s \in Str :
                (\/ \E t \in Token : s \in Strings(table'[t])
                 \/ s \in packet' \/ s \in Registered(transition')
                 \/ s \in Released(transition'))
                => text'[s] = text[s]
<1>1. text' \in [Str -> Token \cup Binding \cup {NULL}]
  BY DEF Surviving
<1>2. ASSUME NEW s \in Str,
             \/ \E t \in Token : s \in Strings(table'[t])
             \/ s \in packet' \/ s \in Registered(transition')
             \/ s \in Released(transition')
      PROVE  text'[s] = text[s]
  <2>1. rc'[s] = Sum(table', packet', transition', s)
    BY SumIsHoldersNext DEF CountsOK
  <2>2. rc'[s] # 0
    BY <1>2, <2>1, HeldHasCount
  <2>. QED BY <2>2 DEF Surviving
<1>. QED BY <1>1, <1>2

\* The name of a registration is one of its strings.
LEMMA NameHeld ==
    ASSUME NEW r \in Structure
    PROVE  r # NULL /\ r.name \in Str /\ r.name \in Strings(r)
<1>1. r # NULL /\ r.name \in Str /\ r.name # NULL
  BY NullIsNothing DEF Structure
<1>. QED BY <1>1 DEF Strings

LEMMA AdoptOK ==
    ASSUME IInv, NEW c \in Thread, Adopt(c)
    PROVE  IInv'
<1>. DEFINE t == call[c].token
            r == transition.registration
<1>1. /\ holder = c /\ c # NULL /\ transition # NULL /\ reply[c] # NULL
      /\ call[c] \in Client!Request /\ t \in Token
      /\ UNCHANGED <<holder, outcome, packet, transition, bound, last, first, generation>>
      /\ call' = [call EXCEPT ![c] = NULL] /\ reply' = [reply EXCEPT ![c] = NULL]
  <2>1. holder = c /\ transition # NULL /\ reply[c] # NULL /\ c # NULL
    BY NullIsNothing DEF Adopt, Applying
  <2>2. call[c] \in Client!Request
    BY <2>1 DEF IInv, ClientTyped
  <2>. QED BY <2>1, <2>2 DEF Adopt, Client!Return, Client!daemonVars, Client!Request
<1>2. /\ table \in [Token -> Structure \cup {NULL}]
      /\ transition \in TransitionStructure /\ r \in Structure \cup {NULL}
      /\ rc \in [Str -> Nat] /\ text \in [Str -> Token \cup Binding \cup {NULL}]
  BY <1>1 DEF IInv, TypeOK, TransitionStructure
<1>3. \A s \in Str : rc[s] = Sum(table, packet, transition, s)
  BY SumIsHolders DEF IInv, CountsOK
<1>4. \A b : One(b) \in Nat
  BY DEF One
<1>5. /\ table' \in [Token -> Structure \cup {NULL}]
      /\ \A u \in Token : table'[u] = table[u] \/ (u = t /\ table'[u] = r)
      /\ DOMAIN rc' = Str
      /\ \A s \in Str : rc'[s] = Sum(table', packet', transition', s)
      /\ rc' = [s \in Str |-> rc'[s]]
  <2>1. CASE transition.ok
    <3>1. /\ table' = [table EXCEPT ![t] = r]
          /\ rc' = Retained(Dropped(rc, Strings(table[t])), Strings(r))
      BY <2>1 DEF Adopt, Replaced
    <3>2. ASSUME NEW s \in Str PROVE rc'[s] = Sum(table', packet', transition', s)
      <4>1. rc'[s] = rc[s] - One(s \in Strings(table[t])) + One(s \in Strings(r))
        BY <3>1 DEF Retained, Dropped
      <4>2. /\ SameBut(t, table, table')
            /\ t \in Token /\ table'[t] = r
        BY <1>1, <1>2, <3>1 DEF SameBut
      <4>3. Cardinality(Entries(table', s))
              = Cardinality(Entries(table, s)) - HeldBy(table[t], s) + HeldBy(table'[t], s)
        BY <4>2, EntriesReplaced
      <4>. QED BY <1>1, <1>3, <1>4, <4>1, <4>2, <4>3, EntriesFinite DEF Sum, HeldBy
    <3>3. rc' = [s \in Str |-> rc'[s]] /\ DOMAIN rc' = Str
      BY <3>1 DEF Retained
    <3>. QED BY <1>1, <1>2, <3>1, <3>2, <3>3
  <2>2. CASE ~transition.ok
    <3>1. UNCHANGED <<table, rc>>
      BY <2>2 DEF Adopt
    <3>. QED BY <1>1, <1>2, <1>3, <3>1
  <2>. QED BY <2>1, <2>2
<1>6. CountsOK' /\ rc' \in [Str -> Nat]
  BY <1>5, SumIsHoldersNext, SumType DEF CountsOK
<1>7. Surviving
  BY DEF Adopt
<1>8. TypeOK'
  <2>1. text' \in [Str -> Token \cup Binding \cup {NULL}]
    BY <1>2, <1>6, <1>7, HeldSurvives
  <2>. QED BY <1>1, <1>5, <1>6, <2>1 DEF IInv, TypeOK
<1>9. TableOK'
  <2>1. ASSUME NEW u \in Token, table'[u] # NULL PROVE text'[table'[u].name] = u
    <3>1. table'[u] \in Structure
      BY <1>5, <2>1
    <3>2. table'[u].name \in Str /\ table'[u].name \in Strings(table'[u])
      BY <3>1, NameHeld
    <3>3. text'[table'[u].name] = text[table'[u].name]
      BY <1>2, <1>6, <1>7, <3>2, HeldSurvives
    <3>4. text[table'[u].name] = u
      BY <1>1, <1>5, <2>1 DEF IInv, TableOK, NamesOK, Pending
    <3>. QED BY <3>3, <3>4
  <2>. QED BY <2>1 DEF TableOK
<1>10. ClientTyped'
  BY <1>1 DEF IInv, ClientTyped
<1>11. StageOK' /\ TransitionOK' /\ OutcomeOK'
  BY <1>1 DEF IInv, StageOK, TransitionOK, OutcomeOK, HasRegistration
<1>12. NamesOK'
  <2>1. reply'[holder'] = NULL
    BY <1>1 DEF IInv, ClientTyped
  <2>. QED BY <2>1 DEF NamesOK, Pending
<1>. QED BY <1>6, <1>8, <1>9, <1>10, <1>11, <1>12 DEF IInv

LEMMA OutcomeClearOK ==
    ASSUME IInv, NEW c \in Thread, OutcomeClear(c)
    PROVE  IInv'
<1>1. /\ holder = c /\ outcome # NULL /\ transition # NULL
      /\ outcome' = NULL /\ packet' = {} /\ rc' = Dropped(rc, packet) /\ Surviving
      /\ UNCHANGED <<call, reply, bound, last, first, generation, table, holder, transition>>
  BY DEF OutcomeClear, clientVars, daemonVars
<1>2. \A s \in Str : rc'[s] = Sum(table', packet', transition', s)
  <2>1. ASSUME NEW s \in Str PROVE rc'[s] = Sum(table', packet', transition', s)
    <3>1. rc[s] = Sum(table, packet, transition, s)
      BY SumIsHolders DEF IInv, CountsOK
    <3>2. rc'[s] = rc[s] - One(s \in packet) /\ One(s \in {}) = 0 /\ \A b : One(b) \in Nat
      BY <1>1 DEF Dropped, One
    <3>. QED BY <1>1, <3>1, <3>2, EntriesFinite DEF Sum
  <2>. QED BY <2>1
<1>3. CountsOK' /\ rc' \in [Str -> Nat]
  BY <1>1, <1>2, SumIsHoldersNext, SumType DEF CountsOK, Dropped
<1>4. /\ text' \in [Str -> Token \cup Binding \cup {NULL}]
      /\ \A s \in Str : (\E t \in Token : s \in Strings(table'[t])) => text'[s] = text[s]
      /\ \A s \in Registered(transition') \cap Str : text'[s] = text[s]
  BY <1>1, <1>3, HeldSurvives DEF IInv, TypeOK
<1>5. TypeOK'
  BY <1>1, <1>3, <1>4 DEF IInv, TypeOK
<1>6. TableOK'
  <2>1. ASSUME NEW u \in Token, table[u] # NULL PROVE text'[table[u].name] = u
    <3>1. table[u] \in Structure
      BY <2>1 DEF IInv, TypeOK
    <3>. QED BY <1>1, <1>4, <2>1, <3>1, NameHeld DEF IInv, TableOK
  <2>. QED BY <1>1, <2>1 DEF TableOK
<1>7. NamesOK'
  <2>1. ~HasRegistration(outcome')
    BY <1>1, NullIsNothing DEF HasRegistration
  <2>2. ASSUME Pending, transition.registration # NULL
        PROVE  text'[transition.registration.name] = call[holder].token
    <3>1. transition \in TransitionStructure
      BY <1>1 DEF IInv, TypeOK
    <3>2. transition.registration \in Structure
      BY <2>2, <3>1 DEF TransitionStructure
    <3>3. Registered(transition') = Strings(transition.registration)
      BY <1>1 DEF Registered
    <3>4. text[transition.registration.name] = call[holder].token
      BY <1>1, <2>2 DEF IInv, NamesOK
    <3>5. /\ transition.registration.name \in Str
          /\ transition.registration.name \in Registered(transition')
      BY <3>2, <3>3, NameHeld
    <3>. QED BY <1>4, <3>4, <3>5
  <2>. QED BY <1>1, <2>1, <2>2 DEF NamesOK, Pending
<1>8. ClientTyped' /\ StageOK' /\ TransitionOK' /\ OutcomeOK'
  BY <1>1, NullIsNothing
     DEF IInv, ClientTyped, StageOK, TransitionOK, OutcomeOK, HasRegistration, Pending
<1>. QED BY <1>3, <1>5, <1>6, <1>7, <1>8 DEF IInv

LEMMA TransitionClearOK ==
    ASSUME IInv, NEW c \in Thread, TransitionClear(c)
    PROVE  IInv'
<1>1. /\ holder = c /\ outcome = NULL /\ transition # NULL
      /\ rc' = Dropped(rc, Cleared(transition)) /\ Surviving
      /\ transition' = NULL /\ holder' = NULL
      /\ UNCHANGED <<call, reply, bound, last, first, generation, table, outcome, packet>>
  BY DEF TransitionClear, clientVars, daemonVars
<1>2. Registered(transition) = {} \/ Released(transition) = {}
  BY <1>1 DEF IInv, TransitionOK, Registered, Released, Strings
<1>3. \A s \in Str : rc'[s] = Sum(table', packet', transition', s)
  <2>1. ASSUME NEW s \in Str PROVE rc'[s] = Sum(table', packet', transition', s)
    <3>1. rc[s] = Sum(table, packet, transition, s)
      BY SumIsHolders DEF IInv, CountsOK
    <3>2. rc'[s] = rc[s] - One(s \in Registered(transition) \cup Released(transition))
      BY <1>1 DEF Dropped, Cleared
    <3>3. One(s \in Registered(transition) \cup Released(transition))
            = One(s \in Registered(transition)) + One(s \in Released(transition))
      BY <1>2 DEF One
    <3>4. One(s \in Registered(NULL)) = 0 /\ One(s \in Released(NULL)) = 0
      BY DEF One, Registered, Released
    <3>5. \A b : One(b) \in Nat
      BY DEF One
    <3>. QED BY <1>1, <3>1, <3>2, <3>3, <3>4, <3>5, EntriesFinite DEF Sum
  <2>. QED BY <2>1
<1>4. CountsOK' /\ rc' \in [Str -> Nat]
  BY <1>1, <1>3, SumIsHoldersNext, SumType DEF CountsOK, Dropped
<1>5. /\ text' \in [Str -> Token \cup Binding \cup {NULL}]
      /\ \A s \in Str : (\E t \in Token : s \in Strings(table'[t])) => text'[s] = text[s]
  BY <1>1, <1>4, HeldSurvives DEF IInv, TypeOK
<1>6. TypeOK'
  BY <1>1, <1>4, <1>5 DEF IInv, TypeOK
<1>7. TableOK'
  <2>1. ASSUME NEW u \in Token, table[u] # NULL PROVE text'[table[u].name] = u
    <3>1. table[u] \in Structure
      BY <2>1 DEF IInv, TypeOK
    <3>. QED BY <1>1, <1>5, <2>1, <3>1, NameHeld DEF IInv, TableOK
  <2>. QED BY <1>1, <2>1 DEF TableOK
<1>8. ClientTyped' /\ StageOK' /\ TransitionOK' /\ OutcomeOK' /\ NamesOK'
  BY <1>1 DEF IInv, ClientTyped, StageOK, TransitionOK, OutcomeOK, NamesOK, HasRegistration,
              Pending
<1>. QED BY <1>4, <1>6, <1>7, <1>8 DEF IInv

-----------------------------------------------------------------------------
(* The theorem.                                                            *)

LEMMA InitOK == Init => IInv
<1>. SUFFICES ASSUME Init PROVE IInv
  OBVIOUS
<1>1. /\ table = [t \in Token |-> NULL]
      /\ holder = NULL /\ outcome = NULL /\ packet = {} /\ transition = NULL
      /\ rc = [s \in Str |-> 0] /\ text = [s \in Str |-> NULL]
      /\ call = [c \in Thread |-> NULL] /\ reply = [c \in Thread |-> NULL]
      /\ bound = BindingOf
      /\ last = [t \in Token |-> 0] /\ first = [t \in Token |-> TRUE] /\ generation = 0
  BY DEF Init, Client!Init
<1>2. TypeOK
  BY <1>1 DEF TypeOK
<1>3. ClientTyped
  BY <1>1, TokensAssumption DEF ClientTyped
<1>4. CountsOK
  <2>1. ASSUME NEW s \in Str PROVE Holders(s) = 0
    <3>1. Entries(table, s) = {}
      BY <1>1 DEF Entries, Strings
    <3>2. Cardinality(Entries(table, s)) = 0
      BY <3>1, FS_EmptySet
    <3>3. /\ One(s \in packet) = 0 /\ One(s \in Registered(transition)) = 0
          /\ One(s \in Released(transition)) = 0
      BY <1>1 DEF One, Registered, Released
    <3>. QED BY <3>2, <3>3, SumIsHolders DEF Sum
  <2>. QED BY <1>1, <2>1 DEF CountsOK
<1>5. StageOK /\ TransitionOK /\ OutcomeOK /\ NamesOK /\ TableOK
  BY <1>1, NullIsNothing
     DEF StageOK, TransitionOK, OutcomeOK, NamesOK, TableOK, HasRegistration, Pending
<1>. QED BY <1>2, <1>3, <1>4, <1>5 DEF IInv

LEMMA StutterOK == IInv /\ UNCHANGED vars => IInv'
<1>. SUFFICES ASSUME IInv, UNCHANGED vars PROVE IInv'
  OBVIOUS
<1>1. UNCHANGED <<call, reply, bound, last, first, generation, structures, strings>>
  BY DEF vars, clientVars, daemonVars
<1>2. ClientTyped'
  BY <1>1 DEF IInv, ClientTyped
<1>. QED BY <1>1, <1>2, StructuresKept

LEMMA NextOK == IInv /\ [Next]_vars => IInv'
BY OutsideOK, OutcomeInitOK, OutcomeFailsOK, TransitionInitOK, AdoptOK, OutcomeClearOK,
   TransitionClearOK, StutterOK DEF Next

LEMMA IInvImplies == IInv => StringsOwned
BY DEF IInv, StringsOwned, CountsOK, TableOK, OutcomeOK, HasRegistration, TypeOK

\* __FXCFControlNotifyCachedRegistrationAssign and the functions that clear an
\* outcome, a transition and an entry of the table keep the count of every string
\* equal to the number of those that hold it, whatever the daemon answers.
THEOREM Owned == Spec => []StringsOwned
BY InitOK, NextOK, IInvImplies, PTL DEF Spec

-----------------------------------------------------------------------------
(* The structures implement the client that has no strings.                *)

\* What a step leaves in the table has the texts it had.
LEMMA TableTextKept ==
    ASSUME IInv, IInv', [Next]_vars
    PROVE  \A t \in Token : \A s \in Strings(table'[t]) : text'[s] = text[s]
<1>1. CASE \E c \in Thread : OutcomeInit(c)
  <2>. PICK c \in Thread : OutcomeInit(c)
    BY <1>1
  <2>1. PICK at \in NewStrings(TextsIn(reply[c], call[c].token)) :
          /\ UNCHANGED table
          /\ text' = [s \in Str |-> IF s \in {at[x] : x \in DOMAIN at}
                                   THEN CHOOSE x \in DOMAIN at : at[x] = s ELSE text[s]]
    BY DEF OutcomeInit
  <2>2. {at[x] : x \in DOMAIN at} \subseteq Free
    BY DEF NewStrings, Free
  <2>3. ASSUME NEW t \in Token, NEW s \in Strings(table'[t]) PROVE text'[s] = text[s]
    <3>1. s \in Str
      BY DEF IInv, TypeOK, Strings, Structure
    <3>2. rc[s] # 0
      BY <2>1, <2>3, <3>1, HeldHasCount, SumIsHolders DEF IInv, CountsOK
    <3>. QED BY <2>1, <2>2, <3>1, <3>2 DEF Free
  <2>. QED BY <2>3
<1>2. CASE Surviving
  <2>1. ASSUME NEW t \in Token, NEW s \in Strings(table'[t]) PROVE text'[s] = text[s]
    <3>1. s \in Str
      BY DEF IInv, TypeOK, Strings, Structure
    <3>. QED BY <1>2, <2>1, <3>1, HeldSurvives DEF IInv, TypeOK
  <2>. QED BY <2>1
<1>3. CASE UNCHANGED text
  BY <1>3
<1>. QED
  BY <1>1, <1>2, <1>3
     DEF Next, Outside, OutcomeFails, TransitionInit, Adopt, OutcomeClear, TransitionClear,
         strings, vars

\* A step that leaves the table alone leaves what it says alone.
LEMMA CacheKept ==
    ASSUME IInv, IInv', [Next]_vars, UNCHANGED table
    PROVE  UNCHANGED cache
<1>1. ASSUME NEW t \in Token PROVE ContentsIn(text', table[t]) = ContentsIn(text, table[t])
  <2>1. table[t] \in Structure \cup {NULL}
    BY DEF IInv, TypeOK
  <2>2. \A s \in Strings(table[t]) : text'[s] = text[s]
    BY TableTextKept
  <2>. QED BY <2>1, <2>2, SameContents
<1>. QED BY <1>1, ContentsInText, ContentsInTextNext

\* The answer being applied keeps its meaning while what it reads is kept.
LEMMA AppliedKept ==
    ASSUME AppliedOK, UNCHANGED <<cache, holder, transition>>,
           holder # NULL => call'[holder] = call[holder] /\ reply'[holder] = reply[holder],
           transition = NULL => UNCHANGED <<outcome, text>>,
           transition # NULL => /\ Contents(transition.registration)'
                                     = Contents(transition.registration)
                                /\ Deref(transition.released)' = Deref(transition.released)
    PROVE  AppliedOK'
<1>. SUFFICES ASSUME Pending' PROVE
        /\ (outcome # NULL /\ transition = NULL)' =>
            /\ Read(outcome)' \in Client!NotifyOutcomes(reply'[holder'])
            /\ HasRegistration(outcome)' /\ (outcome.registration.binding # NULL)' =>
                (text[outcome.registration.binding] # NULL)'
        /\ transition' # NULL =>
            \E o \in Client!NotifyOutcomes(reply'[holder']) :
                Means(transition, Client!Transition(call[holder].op, o,
                                                    cache[call[holder].token]))'
  BY DEF AppliedOK
<1>1. Pending
  BY DEF Pending
<1>2. /\ holder' = holder /\ reply'[holder'] = reply[holder] /\ call'[holder'] = call[holder]
      /\ cache' = cache /\ transition' = transition
  BY <1>1 DEF Pending
<1>3. CASE transition = NULL
  <2>1. outcome' = outcome /\ text' = text
    BY <1>3
  <2>2. Read(outcome)' = Read(outcome)
    BY <2>1 DEF Read, Contents, Deref
  <2>. QED BY <1>1, <1>2, <1>3, <2>1, <2>2 DEF AppliedOK, HasRegistration
<1>4. CASE transition # NULL
  <2>1. PICK o \in Client!NotifyOutcomes(reply[holder]) :
          Means(transition, Client!Transition(call[holder].op, o, cache[call[holder].token]))
    BY <1>1, <1>4 DEF AppliedOK
  <2>2. Client!Transition(call[holder].op, o, cache[call[holder].token])'
          = Client!Transition(call[holder].op, o, cache[call[holder].token])
    BY <1>2
  <2>3. Means(transition, Client!Transition(call[holder].op, o, cache[call[holder].token]))'
    BY <1>2, <1>4, <2>1, <2>2 DEF Means
  <2>. QED BY <1>2, <1>4, <2>1, <2>3
<1>. QED BY <1>3, <1>4

LEMMA AppliedNext ==
    ASSUME IInv, IInv', AppliedOK, [Next]_vars
    PROVE  AppliedOK'
<1>1. CASE UNCHANGED <<structures, strings>> /\ (holder # NULL => call'[holder] = call[holder]
                                                           /\ reply'[holder] = reply[holder])
  <2>1. UNCHANGED <<table, holder, outcome, packet, transition, rc, text>>
    BY <1>1 DEF structures, strings
  <2>2. UNCHANGED cache
    BY <2>1 DEF cache, Contents, Deref
  <2>3. /\ Contents(transition.registration)' = Contents(transition.registration)
        /\ Deref(transition.released)' = Deref(transition.released)
    BY <2>1 DEF Contents, Deref
  <2>. QED BY <1>1, <2>1, <2>2, <2>3, AppliedKept
<1>2. CASE Outside
  <2>1. UNCHANGED <<structures, strings>>
    BY <1>2 DEF Outside
  <2>. QED BY <1>1, <1>2, <2>1, ClientStep
<1>3. CASE UNCHANGED vars
  BY <1>1, <1>3 DEF vars, clientVars
<1>4. ASSUME NEW c \in Thread, OutcomeInit(c) PROVE AppliedOK'
  BY <1>4, OutcomeInitOK
<1>5. ASSUME NEW c \in Thread, TransitionInit(c) PROVE AppliedOK'
  BY <1>5, TransitionInitOK
<1>6. ASSUME NEW c \in Thread, OutcomeFails(c) PROVE AppliedOK'
  <2>1. holder = NULL /\ UNCHANGED <<structures, strings>>
    BY <1>6 DEF OutcomeFails
  <2>. QED BY <1>1, <2>1
<1>7. ASSUME NEW c \in Thread, Adopt(c) PROVE AppliedOK'
  <2>1. holder' = c /\ reply' = [reply EXCEPT ![c] = NULL]
    BY <1>7 DEF Adopt, Applying, Client!Return
  <2>2. reply'[holder'] = NULL
    BY <2>1 DEF IInv, ClientTyped
  <2>. QED BY <2>2 DEF AppliedOK, Pending
<1>8. ASSUME NEW c \in Thread, OutcomeClear(c) PROVE AppliedOK'
  <2>1. /\ UNCHANGED <<table, holder, transition, call, reply>>
        /\ Surviving /\ transition # NULL
    BY <1>8 DEF OutcomeClear, clientVars
  <2>2. UNCHANGED cache
    BY <2>1, CacheKept
  <2>3. transition \in TransitionStructure
    BY <2>1 DEF IInv, TypeOK
  <2>4. \A s \in Str : s \in Registered(transition') \/ s \in Released(transition')
                       => text'[s] = text[s]
    BY <2>1, HeldSurvives DEF IInv, TypeOK
  <2>5. /\ Registered(transition') = Strings(transition.registration)
        /\ Released(transition') = {transition.released} \ {NULL}
    BY <2>1 DEF Registered, Released
  <2>6. /\ transition.registration \in Structure \cup {NULL}
        /\ transition.released \in Str \cup {NULL}
    BY <2>3 DEF TransitionStructure
  <2>7. \A s \in Strings(transition.registration) : text'[s] = text[s]
    BY <2>4, <2>5, <2>6 DEF Strings, Structure
  <2>8. Contents(transition.registration)' = Contents(transition.registration)
    <3>1. ContentsIn(text', transition.registration) = ContentsIn(text, transition.registration)
      BY <2>6, <2>7, SameContents
    <3>2. Contents(transition.registration)' = ContentsIn(text', transition.registration)
      BY <2>1 DEF Contents, ContentsIn, Deref
    <3>. QED BY <3>1, <3>2, ContentsInText
  <2>9. Deref(transition.released)' = Deref(transition.released)
    BY <2>1, <2>4, <2>5, <2>6 DEF Deref
  <2>. QED BY <2>1, <2>2, <2>8, <2>9, AppliedKept
<1>9. ASSUME NEW c \in Thread, TransitionClear(c) PROVE AppliedOK'
  BY <1>9 DEF TransitionClear, AppliedOK, Pending
<1>. QED BY <1>2, <1>3, <1>4, <1>5, <1>6, <1>7, <1>8, <1>9 DEF Next

\* An answer that has been applied is one step of the client.
LEMMA AdoptIsApply ==
    ASSUME IInv, IInv', AppliedOK, NEW c \in Thread, Adopt(c)
    PROVE  Client!Apply(c)
<1>. DEFINE t == call[c].token
            r == transition.registration
<1>1. /\ holder = c /\ c # NULL /\ transition # NULL /\ reply[c] # NULL
      /\ Client!Return(c)
  BY NullIsNothing DEF Adopt, Applying
<1>2. t \in Token /\ transition \in TransitionStructure /\ r \in Structure \cup {NULL}
  <2>1. call[c] \in Client!Request
    BY <1>1 DEF IInv, ClientTyped
  <2>. QED BY <1>1, <2>1 DEF IInv, TypeOK, TransitionStructure, Client!Request
<1>3. PICK o \in Client!NotifyOutcomes(reply[c]) :
        Means(transition, Client!Transition(call[c].op, o, cache[t]))
  BY <1>1 DEF AppliedOK, Pending
<1>. DEFINE rule == Client!Transition(call[c].op, o, cache[t])
<1>4. /\ transition.ok = rule.ok /\ transition.changed = rule.changed
      /\ transition.valid = rule.valid
      /\ Contents(r) = rule.registration /\ Deref(transition.released) = rule.released
  BY <1>3 DEF Means
<1>. HIDE DEF rule
<1>5. ASSUME NEW u \in Token
      PROVE  /\ cache'[u] = ContentsIn(text, table'[u])
             /\ cache[u] = ContentsIn(text, table[u])
  <2>1. table'[u] \in Structure \cup {NULL}
    BY DEF IInv, TypeOK
  <2>2. \A s \in Strings(table'[u]) : text'[s] = text[s]
    BY TableTextKept DEF Next
  <2>3. ContentsIn(text', table'[u]) = ContentsIn(text, table'[u])
    BY <2>1, <2>2, SameContents
  <2>. QED BY <2>3, ContentsInText, ContentsInTextNext
<1>6. cache = [u \in Token |-> cache[u]] /\ cache' = [u \in Token |-> cache'[u]]
  BY ContentsInText, ContentsInTextNext
<1>7. CASE transition.ok
  <2>1. /\ table' = [table EXCEPT ![t] = r]
        /\ result' = [result EXCEPT ![c] = [changed |-> rule.changed, valid |-> rule.valid]]
        /\ Client!Account(c, t, [registration |-> rule.registration,
                                 released |-> rule.released, changed |-> rule.changed])
    BY <1>4, <1>7 DEF Adopt
  <2>2. cache' = [cache EXCEPT ![t] = rule.registration]
    <3>1. \A u \in Token : cache'[u] = IF u = t THEN rule.registration ELSE cache[u]
      <4>1. ContentsIn(text, r) = rule.registration
        BY <1>4, ContentsInText
      <4>2. \A u \in Token : table'[u] = IF u = t THEN r ELSE table[u]
        BY <2>1 DEF IInv, TypeOK
      <4>. QED BY <1>5, <4>1, <4>2
    <3>. QED BY <1>6, <3>1
  <2>3. Client!Account(c, t, rule)
    BY <2>1 DEF Client!Account
  <2>. QED BY <1>1, <1>4, <1>7, <2>1, <2>2, <2>3 DEF Client!Apply, rule
<1>8. CASE ~transition.ok
  <2>1. UNCHANGED <<table, result, history>>
    BY <1>8 DEF Adopt
  <2>2. UNCHANGED cache
    BY <1>5, <1>6, <2>1
  <2>. QED BY <1>1, <1>4, <1>8, <2>1, <2>2 DEF Client!Apply, Client!history, history, rule
<1>. QED BY <1>7, <1>8

LEMMA StepRefines ==
    ASSUME IInv, IInv', AppliedOK, [Next]_vars
    PROVE  [Client!Next]_Client!vars
<1>1. CASE Outside
  BY <1>1, Zenon DEF Outside, Client!Next
<1>2. ASSUME NEW c \in Thread, OutcomeFails(c) PROVE Client!Next
  BY <1>2 DEF OutcomeFails, Client!Next
<1>3. ASSUME NEW c \in Thread, Adopt(c) PROVE Client!Next
  BY <1>3, AdoptIsApply DEF Client!Next
<1>4. ASSUME UNCHANGED <<clientVars, daemonVars, history, table>> PROVE UNCHANGED Client!vars
  BY <1>4, CacheKept DEF Client!vars, Client!clientVars, Client!daemonVars, Client!history,
                            clientVars, daemonVars, history
<1>5. ASSUME NEW c \in Thread,
             OutcomeInit(c) \/ TransitionInit(c) \/ OutcomeClear(c) \/ TransitionClear(c)
      PROVE  UNCHANGED Client!vars
  BY <1>4, <1>5 DEF OutcomeInit, TransitionInit, OutcomeClear, TransitionClear
<1>6. CASE UNCHANGED vars
  BY <1>4, <1>6 DEF vars, structures
<1>. QED BY <1>1, <1>2, <1>3, <1>5, <1>6, Zenon DEF Next

\* With their contents in place of the pointers, the structures that
\* _FXCFControlNotifyTransitionInit works on behave as the client of NotifyClient,
\* which has no strings: what is cleared, and when, changes no answer.
THEOREM Refinement == Spec => ImplementsNotifyClient
<1>1. Init => IInv /\ AppliedOK /\ Client!Init
  BY InitOK, NullIsNothing DEF Init, AppliedOK, Pending
<1>2. IInv /\ AppliedOK /\ [Next]_vars => IInv' /\ AppliedOK' /\ [Client!Next]_Client!vars
  BY NextOK, AppliedNext, StepRefines
<1>. QED BY <1>1, <1>2, PTL DEF Spec, ImplementsNotifyClient, Client!Spec

\* NotifyClient's own assumptions hold here, so what NotifyClientProofs says of
\* Client!Spec holds of Spec by Refinement: below, that one thread stays in step and
\* that changes are reported.
THEOREM ClientAssumed ==
    /\ NULL \notin Binding \cup BOOLEAN /\ NULL \notin Client!Registration
    /\ BindingOf \in [Token -> Binding \cup {NULL}]
    /\ {MaxGeneration, MaxRenewals} \subseteq Nat /\ Lossy \in BOOLEAN
    /\ NULL \notin Token \cup Client!Profile
    /\ IsFiniteSet(Token)
BY TokensAssumption, NullIsNothing

-----------------------------------------------------------------------------
(* What is proved of the client without strings holds of the structures.   *)

Proved == INSTANCE NotifyClientProofs

\* The assumptions of the modules that NotifyClientProofs extends.
LEMMA NullAssumed == Proved!NullAssumption
BY ClientAssumed DEF Proved!NullAssumption

LEMMA NullIsNoRegistrationAssumed == Proved!NullIsNoRegistration
BY ClientAssumed DEF Proved!NullIsNoRegistration, Proved!Registration, Client!Registration

LEMMA SameProfile == Proved!Profile = Client!Profile
BY DEF Proved!Profile, Client!Profile, Proved!RegistrationKinds, Client!RegistrationKinds,
   Proved!Registration, Client!Registration, Proved!Cause, Client!Cause, Proved!Code, Client!Code

LEMMA ClientAssumptionHolds == Proved!ClientAssumption
BY ClientAssumed, SameProfile, Zenon DEF Proved!ClientAssumption, Proved!IsFiniteSet, IsFiniteSet

LEMMA SameInit == Client!Init => Proved!Init
BY DEF Client!Init, Proved!Init, Client!NoResult, Proved!NoResult

\* The two instances of NotifyClient say the same.
LEMMA SameRules ==
    /\ \A op, o, c : Proved!Transition(op, o, c) = Client!Transition(op, o, c)
    /\ \A p : Proved!NotifyOutcomes(p) = Client!NotifyOutcomes(p)
<1>1. \A op, f, c : Proved!HandleError(op, f, c) = Client!HandleError(op, f, c)
  BY DEF Proved!HandleError, Client!HandleError, Proved!Discard, Client!Discard,
     Proved!Caching, Client!Caching, Proved!ReleasedBinding, Client!ReleasedBinding
<1>2. \A o, c : Proved!Merged(o, c) = Client!Merged(o, c) /\ Proved!Changed(o, c) = Client!Changed(o, c)
  BY DEF Proved!Merged, Client!Merged, Proved!Changed, Client!Changed, Proved!Max3, Client!Max3,
     Proved!AtLeast, Client!AtLeast
<1>3. \A op, o, c : Proved!HandleSuccess(op, o, c) = Client!HandleSuccess(op, o, c)
  <2>1. /\ Proved!Failure = Client!Failure
        /\ Proved!StoreOperation = Client!StoreOperation
        /\ \A op : Proved!ExpectedKind(op) = Client!ExpectedKind(op)
    BY DEF Proved!Failure, Client!Failure, Proved!StoreOperation, Client!StoreOperation,
       Proved!ExpectedKind, Client!ExpectedKind
  <2>2. \A r, d, v : Proved!Caching(r, d, v) = Client!Caching(r, d, v)
    BY DEF Proved!Caching, Client!Caching
  <2>3. \A c, v : Proved!Discard(c, v) = Client!Discard(c, v)
    BY DEF Proved!Discard, Client!Discard, Proved!ReleasedBinding, Client!ReleasedBinding
  <2>4. \A o, c : Proved!HandleValidity(o, c) = Client!HandleValidity(o, c)
    BY <2>2, <2>3 DEF Proved!HandleValidity, Client!HandleValidity
  <2>. QED BY <1>2, <2>1, <2>2, <2>3, <2>4 DEF Proved!HandleSuccess, Client!HandleSuccess
<1>4. \A op, o, c : Proved!Transition(op, o, c) = Client!Transition(op, o, c)
  BY <1>1, <1>3 DEF Proved!Transition, Client!Transition
<1>5. \A p : Proved!NotifyOutcomes(p) = Client!NotifyOutcomes(p)
  BY DEF Proved!NotifyOutcomes, Client!NotifyOutcomes, Proved!RegistrationKinds,
     Client!RegistrationKinds, Proved!StatusFamilyForError, Client!StatusFamilyForError,
     Proved!NotifyFailedFamily, Client!NotifyFailedFamily
<1>. QED BY <1>4, <1>5

\* The daemon does and answers the same.
LEMMA SameDaemon ==
    /\ \A r : Client!Effect(r) <=> Proved!Effect(r)
    /\ \A r : Client!Answers(r) = Proved!Answers(r)
<1>1. \A r : Client!Effect(r) <=> Proved!Effect(r)
  BY DEF Client!Effect, Proved!Effect, Client!Starts, Proved!Starts, Client!Renews, Proved!Renews
<1>2. \A r : Client!Answers(r) = Proved!Answers(r)
  BY DEF Client!Answers, Proved!Answers, Client!After, Proved!After, Client!Unknown, Proved!Unknown
<1>. QED BY <1>1, <1>2

\* A step of the one client is a step of the other.
LEMMA SameSteps ==
    Client!Next => Proved!Next
<1>. USE DEF Client!clientVars, Proved!clientVars, Client!daemonVars, Proved!daemonVars,
             Client!history, Proved!history
<1>1. ASSUME NEW c \in Thread, NEW op, NEW t, Client!Ask(c, op, t) PROVE Proved!Ask(c, op, t)
  BY <1>1 DEF Client!Ask, Proved!Ask, Client!InFlight, Proved!InFlight, Client!NoResult, Proved!NoResult
<1>2. ASSUME NEW c \in Thread, Client!Handle(c) PROVE Proved!Handle(c)
  BY <1>2, SameDaemon DEF Client!Handle, Proved!Handle
<1>3. ASSUME NEW c \in Thread, Client!Refuse(c) PROVE Proved!Refuse(c)
  BY <1>3 DEF Client!Refuse, Proved!Refuse, Client!Refusals, Proved!Refusals
<1>4. ASSUME NEW c \in Thread, Client!TimeOut(c) PROVE Proved!TimeOut(c)
  BY <1>4 DEF Client!TimeOut, Proved!TimeOut, Client!Questions, Proved!Questions
<1>5. ASSUME NEW c \in Thread, Client!Apply(c) PROVE Proved!Apply(c)
  <2>1. \A t, tr : Client!Account(c, t, tr) <=> Proved!Account(c, t, tr)
    BY DEF Client!Account, Proved!Account, Client!Holds, Proved!Holds, Client!One, Proved!One,
       Client!Displaces, Proved!Displaces, Client!RegistrationKinds, Proved!RegistrationKinds
  <2>2. Client!Return(c) <=> Proved!Return(c)
    BY DEF Client!Return, Proved!Return
  <2>. QED BY <1>5, <2>1, <2>2, SameRules DEF Client!Apply, Proved!Apply
<1>6. ASSUME NEW c \in Thread, Client!Ignore(c) PROVE Proved!Ignore(c)
  BY <1>6, SameRules DEF Client!Ignore, Proved!Ignore, Client!Return, Proved!Return
<1>7. ASSUME Client!HandleLate \/ Client!Post \/ Client!Restart
      PROVE  Proved!HandleLate \/ Proved!Post \/ Proved!Restart
  BY <1>7, SameDaemon DEF Client!HandleLate, Proved!HandleLate, Client!Post, Proved!Post,
     Client!Restart, Proved!Restart
<1>8. Client!Operation = Proved!Operation
  BY DEF Client!Operation, Proved!Operation
<1>. QED BY <1>1, <1>2, <1>3, <1>4, <1>5, <1>6, <1>7, <1>8 DEF Client!Next, Proved!Next

LEMMA SameClient == Client!Spec => Proved!Spec
<1>1. Client!Init => Proved!Init
  BY SameInit
<1>2. [Client!Next]_Client!vars => [Proved!Next]_Proved!vars
  BY SameSteps DEF Client!vars, Client!clientVars, Client!daemonVars, Client!history,
                   Proved!vars, Proved!clientVars, Proved!daemonVars, Proved!history
<1>. QED BY <1>1, <1>2, PTL DEF Client!Spec, Proved!Spec

\* One thread whose calls are all answered.
Sequential == ~Lossy /\ \A c, d \in Thread : c = d

\* For one thread whose calls are all answered, and for any number of tokens, posts
\* and restarts of the daemon: between calls, the structure of the table that
\* _FXCFControlNotifyTransitionInit reads and replaces says of a token what the daemon
\* has of it.
THEOREM StaysInStep ==
    ASSUME Sequential
    PROVE  Spec => []CacheInStep
<1>1. Proved!Sequential
  BY DEF Sequential, Proved!Sequential
<1>2. Proved!CacheInStep => CacheInStep
  BY DEF CacheInStep, Client!CacheInStep, Proved!CacheInStep
<1>3. Proved!Spec => []Proved!CacheInStep
  BY <1>1, NullAssumed, NullIsNoRegistrationAssumed, ClientAssumptionHolds,
      Proved!StaysInStep, PTL
<1>4. Spec => Client!Spec
  BY Refinement DEF ImplementsNotifyClient
<1>. QED BY <1>2, <1>3, <1>4, SameClient, PTL

\* For one thread whose calls are all answered: no change that the daemon tells of is
\* lost when the answer is merged into the structure that is cached.
THEOREM ChangesReported ==
    ASSUME Sequential
    PROVE  Spec => ChangeReported
<1>1. Proved!Sequential
  BY DEF Sequential, Proved!Sequential
<1>2. Proved!Spec => Proved!ChangeReported
  BY <1>1, NullAssumed, NullIsNoRegistrationAssumed, ClientAssumptionHolds,
      Proved!ChangesReported, PTL
<1>3. Spec => Client!Spec
  BY Refinement DEF ImplementsNotifyClient
<1>4. [\A c \in Thread :
          /\ reply[c] # NULL /\ reply'[c] = NULL
          /\ reply[c].kind = "NotifyCheck"
          => result'[c].changed = reply[c].changed]_Proved!vars
      => [\A c \in Thread :
          /\ reply[c] # NULL /\ reply'[c] = NULL
          /\ reply[c].kind = "NotifyCheck"
          => result'[c].changed = reply[c].changed]_Client!vars
  BY DEF Client!vars, Client!clientVars, Client!daemonVars, Client!history,
         Proved!vars, Proved!clientVars, Proved!daemonVars, Proved!history
<1>. QED BY <1>2, <1>3, <1>4, SameClient, PTL
    DEF ChangeReported, Client!ChangeReported, Proved!ChangeReported
=============================================================================
