---------------------------- MODULE LiveTabProofs -----------------------------
(***************************************************************************)
(* Theorems about LiveTab, for every set of sessions, every bound on       *)
(* reloads and all kinds of trouble: the overlay's state keeps its types,  *)
(* and as long as nothing goes wrong a discarded session stays discarded.  *)
(***************************************************************************)
EXTENDS LiveTab, NaturalsInduction, WellFoundedInduction, FiniteSetTheorems, TLAPS

-------------------------------------------------------------------------------
(* Requests in the order in which they are carried out *)

Less == {ss \in Nat \X Nat : ss[1] < ss[2]}

\* A property of numbers that fails somewhere fails somewhere first.
LEMMA LeastNumber ==
  ASSUME NEW S \in SUBSET Nat, S # {}
  PROVE  \E n \in S : \A m \in S : n <= m
<1>1. IsWellFoundedOn(Less, Nat)
  BY NatLessThanWellFounded, Zenon DEF OpToRel, Less
<1>2. PICK n \in S : \A m \in S : <<m, n>> \notin Less
  BY <1>1, WFMin, Zenon
<1>3. ASSUME NEW m \in S PROVE n <= m
  <2>1. m \in Nat /\ n \in Nat
    OBVIOUS
  <2>2. ~ m < n
    BY <1>2, <2>1 DEF Less
  <2> QED BY <2>1, <2>2
<1> QED BY <1>3

WorkTypes == {"generate", "accept", "discard", "steer"}
Work == [type : WorkTypes, id : Sessions]

\* The requests that end session s.
Ends(s) == {Message("accept", s), Message("discard", s)}

EndAsked(q, s) == \E i \in 1..Len(q) : q[i] \in Ends(s)

\* The end of t is asked for, and that of s is not asked for before it.
EndsFirst(q, t, s) ==
  \E i \in 1..Len(q) : q[i] \in Ends(t) /\ \A j \in 1..i : q[j] \notin Ends(s)

\* The variants of s are asked for after the end of t.
GeneratesAfter(q, s, t) ==
  \E i, j \in 1..Len(q) : i < j /\ q[i] \in Ends(t) /\ q[j] = Message("generate", s)

GeneratesOnce(q) ==
  \A i, j \in 1..Len(q) : q[i] = q[j] /\ q[i].type = "generate" => i = j

LEMMA MessageFacts ==
  ASSUME NEW s, NEW t, NEW k, NEW l
  PROVE  /\ Message(k, s) = Message(l, t) <=> k = l /\ s = t
         /\ Message(k, s).type = k /\ Message(k, s).id = s
  BY DEF Message

LEMMA ToSetIs ==
  ASSUME NEW S, NEW q \in Seq(S)
  PROVE  ToSet(q) = {q[i] : i \in 1..Len(q)} /\ ToSet(q) \subseteq S
  BY DEF ToSet

LEMMA ToSetFacts ==
  ASSUME NEW S, NEW q \in Seq(S)
  PROVE  /\ ToSet(q) = {q[i] : i \in 1..Len(q)} /\ ToSet(q) \subseteq S
         /\ q # <<>> => /\ ToSet(q) = {Head(q)} \cup ToSet(Tail(q))
                        /\ Tail(q) \in Seq(S)
                        /\ Head(q) \in ToSet(q) /\ Head(q) \in S
<1>1. ToSet(q) = {q[i] : i \in 1..Len(q)} /\ ToSet(q) \subseteq S
  BY ToSetIs
<1>2. ASSUME q # <<>>
      PROVE  /\ ToSet(q) = {Head(q)} \cup ToSet(Tail(q)) /\ Tail(q) \in Seq(S)
             /\ Head(q) \in ToSet(q) /\ Head(q) \in S
  <2>1. /\ Tail(q) \in Seq(S) /\ Len(q) \in Nat \ {0} /\ Len(Tail(q)) = Len(q) - 1
        /\ Head(q) = q[1] /\ \A i \in 1..Len(q) - 1 : Tail(q)[i] = q[i + 1]
    BY <1>2
  <2>2. ToSet(Tail(q)) = {Tail(q)[i] : i \in 1..Len(Tail(q))}
    BY <2>1, ToSetIs
  <2>3. ASSUME NEW x \in ToSet(q)
        PROVE  x \in {Head(q)} \cup ToSet(Tail(q))
    <3>1. PICK i \in 1..Len(q) : x = q[i]
      BY <1>1
    <3>2. CASE i = 1
      BY <2>1, <3>1, <3>2
    <3>3. CASE i # 1
      <4>1. i - 1 \in 1..Len(Tail(q)) /\ Tail(q)[i - 1] = q[i]
        BY <2>1, <3>3
      <4> QED BY <2>2, <3>1, <4>1
    <3> QED BY <3>2, <3>3
  <2>4. ASSUME NEW x \in ToSet(Tail(q))
        PROVE  x \in ToSet(q)
    <3>1. PICK i \in 1..Len(Tail(q)) : x = Tail(q)[i]
      BY <2>2
    <3>2. i + 1 \in 1..Len(q) /\ q[i + 1] = x
      BY <2>1, <3>1
    <3> QED BY <1>1, <3>2
  <2>5. Head(q) \in ToSet(q) /\ Head(q) \in S
    <3>1. 1 \in 1..Len(q)
      BY <2>1
    <3> QED BY <1>1, <2>1, <3>1
  <2> QED BY <2>1, <2>3, <2>4, <2>5
<1> QED BY <1>1, <1>2

LEMMA ToSetOfConcat ==
  ASSUME NEW S, NEW p \in Seq(S), NEW q \in Seq(S)
  PROVE  ToSet(q \o p) = ToSet(q) \cup ToSet(p)
<1>1. /\ q \o p \in Seq(S) /\ Len(q \o p) = Len(q) + Len(p)
      /\ \A i \in 1..Len(q) : (q \o p)[i] = q[i]
      /\ \A i \in 1..Len(p) : (q \o p)[Len(q) + i] = p[i]
      /\ Len(q) \in Nat /\ Len(p) \in Nat
  OBVIOUS
<1>2. \A i \in 1..Len(q \o p) :
        i \in 1..Len(q) \/ (i - Len(q) \in 1..Len(p) /\ i = Len(q) + (i - Len(q)))
  BY <1>1
<1>3. \A i \in 1..Len(q) : i \in 1..Len(q \o p)
  BY <1>1
<1>4. \A i \in 1..Len(p) : Len(q) + i \in 1..Len(q \o p)
  BY <1>1
<1>5. /\ ToSet(q) = {q[i] : i \in 1..Len(q)} /\ ToSet(p) = {p[i] : i \in 1..Len(p)}
      /\ ToSet(q \o p) = {(q \o p)[i] : i \in 1..Len(q \o p)}
  BY <1>1 DEF ToSet
<1> QED BY <1>1, <1>2, <1>3, <1>4, <1>5

\* What more requests at the end change, and what they do not.
LEMMA ConcatFacts ==
  ASSUME NEW p \in Seq(Work), NEW q \in Seq(Work), NEW s, NEW t
  PROVE  /\ EndAsked(q \o p, t) <=> EndAsked(q, t) \/ EndAsked(p, t)
         /\ EndsFirst(q, t, s) => EndsFirst(q \o p, t, s)
         /\ ~ EndAsked(q, s) /\ EndAsked(q, t) => EndsFirst(q, t, s)
         /\ ~ EndAsked(q \o p, s) /\ EndAsked(q \o p, t) => EndsFirst(q \o p, t, s)
         /\ GeneratesAfter(q, s, t) => GeneratesAfter(q \o p, s, t)
         /\ EndAsked(q, t) /\ Message("generate", s) \in ToSet(p)
              => GeneratesAfter(q \o p, s, t)
<1>1. /\ q \o p \in Seq(Work) /\ Len(q \o p) = Len(q) + Len(p)
      /\ \A i \in 1..Len(q) : (q \o p)[i] = q[i]
      /\ \A i \in 1..Len(p) : (q \o p)[Len(q) + i] = p[i]
      /\ Len(q) \in Nat /\ Len(p) \in Nat
  OBVIOUS
<1>2. \A i \in 1..Len(q \o p) :
        i \in 1..Len(q) \/ (i - Len(q) \in 1..Len(p) /\ i = Len(q) + (i - Len(q)))
  BY <1>1
<1>3. \A i \in 1..Len(q) : i \in 1..Len(q \o p)
  BY <1>1
<1>4. \A i \in 1..Len(p) : Len(q) + i \in 1..Len(q \o p)
  BY <1>1
<1>5. EndAsked(q \o p, t) <=> EndAsked(q, t) \/ EndAsked(p, t)
  BY <1>1, <1>2, <1>3, <1>4 DEF EndAsked
<1>6. EndsFirst(q, t, s) => EndsFirst(q \o p, t, s)
  <2>1. ASSUME NEW i \in 1..Len(q), q[i] \in Ends(t), \A j \in 1..i : q[j] \notin Ends(s)
        PROVE  EndsFirst(q \o p, t, s)
    <3>1. \A j \in 1..i : j \in 1..Len(q)
      BY <1>1
    <3> QED BY <1>1, <1>3, <2>1, <3>1 DEF EndsFirst
  <2> QED BY <2>1 DEF EndsFirst
<1>7. ASSUME NEW r \in Seq(Work), ~ EndAsked(r, s), EndAsked(r, t)
      PROVE  EndsFirst(r, t, s)
  <2>1. PICK i \in 1..Len(r) : r[i] \in Ends(t)
    BY <1>7 DEF EndAsked
  <2>2. \A j \in 1..i : j \in 1..Len(r)
    OBVIOUS
  <2> QED BY <1>7, <2>1, <2>2 DEF EndsFirst, EndAsked
<1>8. GeneratesAfter(q, s, t) => GeneratesAfter(q \o p, s, t)
  BY <1>1, <1>3 DEF GeneratesAfter
<1>9. ASSUME EndAsked(q, t), Message("generate", s) \in ToSet(p)
      PROVE  GeneratesAfter(q \o p, s, t)
  <2>1. PICK i \in 1..Len(q) : q[i] \in Ends(t)
    BY <1>9 DEF EndAsked
  <2>2. PICK j \in 1..Len(p) : p[j] = Message("generate", s)
    BY <1>9, ToSetFacts
  <2>3. /\ i < Len(q) + j /\ i \in 1..Len(q \o p) /\ Len(q) + j \in 1..Len(q \o p)
        /\ (q \o p)[i] \in Ends(t) /\ (q \o p)[Len(q) + j] = Message("generate", s)
    BY <1>1, <1>3, <1>4, <2>1, <2>2
  <2> QED BY <2>3 DEF GeneratesAfter
<1> QED BY <1>1, <1>5, <1>6, <1>7, <1>8, <1>9

\* Requests that are appended and generate nothing, or something new once.
LEMMA OnceFacts ==
  ASSUME NEW q \in Seq(Work), GeneratesOnce(q)
  PROVE  /\ \A p \in Seq(Work) :
              (\A m \in ToSet(p) : m.type # "generate") => GeneratesOnce(q \o p)
         /\ \A m \in Work : m \notin ToSet(q) => GeneratesOnce(q \o <<m>>)
         /\ q # <<>> => /\ GeneratesOnce(Tail(q))
                        /\ Head(q).type = "generate" => Head(q) \notin ToSet(Tail(q))
<1>1. ASSUME NEW p \in Seq(Work), \A m \in ToSet(p) : m.type # "generate"
      PROVE  GeneratesOnce(q \o p)
  <2>1. /\ Len(q \o p) = Len(q) + Len(p)
        /\ \A i \in 1..Len(q) : (q \o p)[i] = q[i]
        /\ \A i \in 1..Len(p) : (q \o p)[Len(q) + i] = p[i]
        /\ Len(q) \in Nat /\ Len(p) \in Nat
    OBVIOUS
  <2>2. \A i \in 1..Len(q \o p) :
          i \in 1..Len(q) \/ (i - Len(q) \in 1..Len(p) /\ i = Len(q) + (i - Len(q)))
    BY <2>1
  <2>3. \A i \in 1..Len(p) : p[i].type # "generate"
    BY <1>1, ToSetFacts
  <2>4. ASSUME NEW i \in 1..Len(q \o p), NEW j \in 1..Len(q \o p),
               (q \o p)[i] = (q \o p)[j], (q \o p)[i].type = "generate"
        PROVE  i = j
    <3>1. i \in 1..Len(q) /\ j \in 1..Len(q)
      BY <2>1, <2>2, <2>3, <2>4
    <3> QED BY <2>1, <2>4, <3>1 DEF GeneratesOnce
  <2> QED BY <2>4 DEF GeneratesOnce
<1>2. ASSUME NEW m \in Work, m \notin ToSet(q)
      PROVE  GeneratesOnce(q \o <<m>>)
  <2>1. /\ Len(q \o <<m>>) = Len(q) + 1 /\ Len(q) \in Nat
        /\ \A i \in 1..Len(q) : (q \o <<m>>)[i] = q[i]
        /\ (q \o <<m>>)[Len(q) + 1] = m
    OBVIOUS
  <2>2. \A i \in 1..Len(q \o <<m>>) : i \in 1..Len(q) \/ i = Len(q) + 1
    BY <2>1
  <2>3. \A i \in 1..Len(q) : q[i] # m
    BY <1>2, ToSetFacts
  <2> QED BY <2>1, <2>2, <2>3 DEF GeneratesOnce
<1>3. ASSUME q # <<>>
      PROVE  /\ GeneratesOnce(Tail(q))
             /\ Head(q).type = "generate" => Head(q) \notin ToSet(Tail(q))
  <2>1. /\ Tail(q) \in Seq(Work) /\ Len(q) \in Nat \ {0} /\ Len(Tail(q)) = Len(q) - 1
        /\ Head(q) = q[1] /\ \A i \in 1..Len(q) - 1 : Tail(q)[i] = q[i + 1]
    BY <1>3
  <2>2. \A i \in 1..Len(Tail(q)) : i + 1 \in 1..Len(q) /\ i + 1 # 1 /\ Tail(q)[i] = q[i + 1]
    BY <2>1
  <2>3. GeneratesOnce(Tail(q))
    BY <2>1, <2>2 DEF GeneratesOnce
  <2>4. ASSUME Head(q).type = "generate", NEW i \in 1..Len(Tail(q)), Tail(q)[i] = Head(q)
        PROVE  FALSE
    <3>1. 1 \in 1..Len(q)
      BY <2>1
    <3> QED BY <2>1, <2>2, <2>4, <3>1 DEF GeneratesOnce
  <2>5. ToSet(Tail(q)) = {Tail(q)[i] : i \in 1..Len(Tail(q))}
    BY <2>1, ToSetIs
  <2> QED BY <2>3, <2>4, <2>5
<1> QED BY <1>1, <1>2, <1>3

\* What carrying out the first request changes, and what it does not.
LEMMA TailFacts ==
  ASSUME NEW q \in Seq(Work), q # <<>>, NEW s, NEW t
  PROVE  /\ EndAsked(Tail(q), t) => EndAsked(q, t)
         /\ EndAsked(q, t) /\ Head(q) \notin Ends(t) => EndAsked(Tail(q), t)
         /\ EndsFirst(q, t, s) => Head(q) \notin Ends(s)
         /\ EndsFirst(q, t, s) /\ Head(q) \notin Ends(t) => EndsFirst(Tail(q), t, s)
         /\ GeneratesAfter(q, s, t) /\ Head(q) \notin Ends(t) => GeneratesAfter(Tail(q), s, t)
<1>1. /\ Tail(q) \in Seq(Work) /\ Len(q) \in Nat \ {0} /\ Len(Tail(q)) = Len(q) - 1
      /\ Head(q) = q[1] /\ \A i \in 1..Len(q) - 1 : Tail(q)[i] = q[i + 1]
  OBVIOUS
<1>2. \A i \in 1..Len(Tail(q)) : i + 1 \in 1..Len(q) /\ Tail(q)[i] = q[i + 1]
  BY <1>1
<1>3. \A i \in 1..Len(q) : i # 1 => i - 1 \in 1..Len(Tail(q)) /\ Tail(q)[i - 1] = q[i]
  BY <1>1
<1>4. EndAsked(Tail(q), t) => EndAsked(q, t)
  BY <1>2 DEF EndAsked
<1>5. EndAsked(q, t) /\ Head(q) \notin Ends(t) => EndAsked(Tail(q), t)
  BY <1>1, <1>3 DEF EndAsked
<1>6. ASSUME EndsFirst(q, t, s)
      PROVE  /\ Head(q) \notin Ends(s)
             /\ Head(q) \notin Ends(t) => EndsFirst(Tail(q), t, s)
  <2>1. PICK i \in 1..Len(q) : q[i] \in Ends(t) /\ \A j \in 1..i : q[j] \notin Ends(s)
    BY <1>6 DEF EndsFirst
  <2>2. 1 \in 1..i
    BY <1>1
  <2>3. ASSUME Head(q) \notin Ends(t)
        PROVE  EndsFirst(Tail(q), t, s)
    <3>1. i # 1
      BY <1>1, <2>1, <2>3
    <3>2. i - 1 \in 1..Len(Tail(q)) /\ Tail(q)[i - 1] \in Ends(t)
      BY <1>3, <2>1, <3>1
    <3>3. ASSUME NEW j \in 1..(i - 1)
          PROVE  Tail(q)[j] \notin Ends(s)
      <4>1. j \in 1..Len(Tail(q)) /\ j + 1 \in 1..i
        BY <1>1, <3>1, <3>2
      <4> QED BY <1>2, <2>1, <4>1
    <3> QED BY <3>2, <3>3 DEF EndsFirst
  <2> QED BY <1>1, <2>1, <2>2, <2>3
<1>7. ASSUME GeneratesAfter(q, s, t), Head(q) \notin Ends(t)
      PROVE  GeneratesAfter(Tail(q), s, t)
  <2>1. PICK i \in 1..Len(q), j \in 1..Len(q) :
          i < j /\ q[i] \in Ends(t) /\ q[j] = Message("generate", s)
    BY <1>7 DEF GeneratesAfter
  <2>2. i # 1 /\ j # 1
    BY <1>1, <1>7, <2>1
  <2>3. /\ i - 1 \in 1..Len(Tail(q)) /\ j - 1 \in 1..Len(Tail(q)) /\ i - 1 < j - 1
        /\ Tail(q)[i - 1] \in Ends(t) /\ Tail(q)[j - 1] = Message("generate", s)
    BY <1>3, <2>1, <2>2
  <2> QED BY <2>3 DEF GeneratesAfter
<1> QED BY <1>4, <1>5, <1>6, <1>7

-------------------------------------------------------------------------------
(* Types *)

Kinds == {"capture", "accept", "discard", "source", "cleanup"}
AnswerTypes == {"done", "complete", "discarded", "steer_done", "agent_done", "error"}
Answers == [type : AnswerTypes, id : Sessions]
Saves == [id : Sessions, state : {"GENERATING", "CYCLING", "SAVING"}, arrived : BOOLEAN]

TabTyped ==
  /\ state \in States /\ arrived \in BOOLEAN
  /\ currentSessionId \in used \cup {None} /\ observer \in used \cup {None}
  /\ pendingAccepted \in [id : used \cup {None}, finalizing : BOOLEAN]

StorageTyped ==
  /\ stored \in {NoSession} \cup Saves /\ stored.id \in used \cup {None}
  /\ handled \in used \cup {None} /\ confirmed \subseteq used

CallsTyped ==
  /\ calls \subseteq [kind : Kinds, id : used] /\ IsFiniteSet(calls)
  /\ steerRequestId \in used \cup {None}

ServerTyped ==
  /\ work \in Seq(Work) /\ ToSet(work) \subseteq [type : WorkTypes, id : used]
  /\ edited \in BOOLEAN /\ (edited => work # <<>>)
  /\ source \subseteq used

PageTyped ==
  /\ sse \in Seq(Answers)
  /\ ToSet(sse) \subseteq [type : AnswerTypes, id : used]
  /\ dom \subseteq used /\ used \subseteq Sessions
  /\ trouble \in {None, "late"} \cup Troubles

Typed == TabTyped /\ StorageTyped /\ CallsTyped /\ ServerTyped /\ PageTyped

LEMMA TypedInit == Init => Typed
<1> SUFFICES ASSUME Init PROVE Typed
  OBVIOUS
<1>1. \A S : <<>> \in Seq(S) /\ ToSet(<<>>) = {}
  BY DEF ToSet
<1>2. IsFiniteSet(calls)
  BY FS_EmptySet DEF Init
<1> QED
  BY <1>1, <1>2 DEF Init, Typed, TabTyped, StorageTyped, CallsTyped, ServerTyped, PageTyped,
     States, NoSession, NoAccept

LEMMA TypedImplies == Typed => TypeOK
<1> SUFFICES ASSUME Typed PROVE TypeOK
  OBVIOUS
<1>1. /\ state \in States /\ arrived \in BOOLEAN /\ edited \in BOOLEAN
      /\ {currentSessionId, observer, handled, steerRequestId, pendingAccepted.id}
           \subseteq Sessions \cup {None}
  BY DEF Typed, TabTyped, StorageTyped, CallsTyped, ServerTyped, PageTyped
<1>2. /\ stored \in {NoSession} \cup Saves /\ source \subseteq used /\ dom \subseteq used
      /\ trouble \in {None, "late"} \cup Troubles
  BY DEF Typed, StorageTyped, ServerTyped, PageTyped
<1>3. {c.id : c \in calls} \subseteq used
  BY DEF Typed, CallsTyped
<1>4. {m.id : m \in ToSet(work)} \subseteq used
  BY DEF Typed, ServerTyped
<1> QED BY <1>1, <1>2, <1>3, <1>4 DEF TypeOK, Saves

\* A save names a session the page knows.
LEMMA SavedTyped ==
  ASSUME StorageTyped, TabTyped, PageTyped, NEW mode \in {"GENERATING", "CYCLING", "SAVING"}
  PROVE  /\ Saved(currentSessionId, mode) \in {NoSession} \cup Saves
         /\ Saved(currentSessionId, mode).id \in used \cup {None}
  BY SessionsAssumption DEF StorageTyped, TabTyped, PageTyped, Saved, Saves

LEMMA CallFacts ==
  ASSUME NEW s, NEW t, NEW k, NEW l
  PROVE  /\ Call(k, s) = Call(l, t) <=> k = l /\ s = t
         /\ Call(k, s).kind = k /\ Call(k, s).id = s
  BY DEF Call

LEMMA CallTyped ==
  ASSUME NEW s \in used, NEW k \in Kinds
  PROVE  Call(k, s) \in [kind : Kinds, id : used]
  BY DEF Call

\* Calls that begin and end keep their types.
LEMMA CallsStayTyped ==
  ASSUME CallsTyped, NEW c
  PROVE  /\ IsFiniteSet(calls \cup {c}) /\ IsFiniteSet(calls \ {c})
         /\ calls \ {c} \subseteq [kind : Kinds, id : used]
  BY FS_AddElement, FS_RemoveElement DEF CallsTyped

\* One more request, or one more message.
LEMMA WorkAppend ==
  ASSUME NEW q \in Seq(Work), NEW m \in Work
  PROVE  /\ Append(q, m) \in Seq(Work) /\ Append(q, m) = q \o <<m>> /\ Append(q, m) # <<>>
         /\ ToSet(Append(q, m)) = ToSet(q) \cup {m} /\ <<m>> \in Seq(Work) /\ ToSet(<<m>>) = {m}
<1>1. <<m>> \in Seq(Work) /\ ToSet(<<m>>) = {m}
  BY DEF ToSet
<1>2. Append(q, m) = q \o <<m>> /\ Append(q, m) \in Seq(Work) /\ Append(q, m) # <<>>
  OBVIOUS
<1>3. ToSet(q \o <<m>>) = ToSet(q) \cup ToSet(<<m>>)
  BY <1>1, ToSetOfConcat
<1> QED BY <1>1, <1>2, <1>3

LEMMA AnswerAppend ==
  ASSUME NEW q \in Seq(Answers), NEW m \in Answers
  PROVE  /\ Append(q, m) \in Seq(Answers) /\ Append(q, m) = q \o <<m>> /\ Append(q, m) # <<>>
         /\ ToSet(Append(q, m)) = ToSet(q) \cup {m} /\ <<m>> \in Seq(Answers) /\ ToSet(<<m>>) = {m}
<1>1. <<m>> \in Seq(Answers) /\ ToSet(<<m>>) = {m}
  BY DEF ToSet
<1>2. Append(q, m) = q \o <<m>> /\ Append(q, m) \in Seq(Answers) /\ Append(q, m) # <<>>
  OBVIOUS
<1>3. ToSet(q \o <<m>>) = ToSet(q) \cup ToSet(<<m>>)
  BY <1>1, ToSetOfConcat
<1> QED BY <1>1, <1>2, <1>3

LEMMA WorkAppendTyped ==
  ASSUME ServerTyped, PageTyped, NEW s \in used, NEW k \in WorkTypes
  PROVE  LET w == Append(work, Message(k, s))
         IN  w \in Seq(Work) /\ ToSet(w) \subseteq [type : WorkTypes, id : used] /\ w # <<>>
<1>1. Message(k, s) \in Work /\ Message(k, s) \in [type : WorkTypes, id : used]
  BY DEF Message, Work, PageTyped
<1>2. /\ Append(work, Message(k, s)) \in Seq(Work) /\ Append(work, Message(k, s)) # <<>>
      /\ ToSet(Append(work, Message(k, s))) = ToSet(work) \cup {Message(k, s)}
  <2>1. work \in Seq(Work)
    BY DEF ServerTyped
  <2> QED BY <1>1, <2>1, WorkAppend
<1> QED BY <1>1, <1>2 DEF ServerTyped

LEMMA UserTyped ==
  ASSUME Typed, Pick \/ exitConfigureToPicking \/ SteerTimesOut \/ HotUpdate
  PROVE  Typed'
<1> USE DEF Typed, TabTyped, StorageTyped, CallsTyped, ServerTyped, PageTyped, tabVars, storage, serverVars
<1>1. CASE Pick
  BY <1>1 DEF Pick, States
<1>2. CASE exitConfigureToPicking
  BY <1>2 DEF exitConfigureToPicking, States
<1>3. CASE SteerTimesOut
  BY <1>3 DEF SteerTimesOut
<1>4. CASE HotUpdate
  BY <1>4 DEF HotUpdate
<1> QED BY <1>1, <1>2, <1>3, <1>4

LEMMA GoTyped ==
  ASSUME Typed, NEW s \in Sessions, handleGo(s)
  PROVE  Typed'
<1> USE DEF Typed
<1>1. TabTyped'
  BY DEF TabTyped, handleGo, States, NoAccept
<1>2. StorageTyped'
  BY DEF StorageTyped, handleGo, Saves
<1>3. CallsTyped'
  <2>1. IsFiniteSet(calls \cup {Call("capture", s)})
    BY CallsStayTyped
  <2>2. Call("capture", s) \in [kind : Kinds, id : used']
    BY DEF Call, Kinds, handleGo
  <2> QED BY <2>1, <2>2 DEF CallsTyped, handleGo
<1>4. ServerTyped'
  BY DEF ServerTyped, handleGo, serverVars
<1>5. PageTyped'
  BY DEF PageTyped, handleGo
<1> QED BY <1>1, <1>2, <1>3, <1>4, <1>5

LEMMA captureTyped ==
  ASSUME Typed, NEW s \in Sessions, captureAndEmit(s)
  PROVE  Typed'
<1> USE DEF Typed
<1>0. s \in used
  BY CallFacts DEF CallsTyped, captureAndEmit
<1>1. TabTyped'
  BY DEF TabTyped, captureAndEmit, tabVars
<1>2. StorageTyped'
  BY DEF StorageTyped, captureAndEmit, storage
<1>3. CallsTyped'
  BY CallsStayTyped DEF CallsTyped, captureAndEmit
<1>4. ServerTyped'
  BY <1>0, WorkAppendTyped DEF ServerTyped, captureAndEmit, WorkTypes
<1>5. PageTyped'
  BY DEF PageTyped, captureAndEmit, Suffers
<1> QED BY <1>1, <1>2, <1>3, <1>4, <1>5

LEMMA AcceptTyped ==
  ASSUME Typed, handleAccept
  PROVE  Typed'
<1> USE DEF Typed
<1>1. TabTyped'
  BY DEF TabTyped, handleAccept, States, Enter
<1>2. StorageTyped'
  BY SavedTyped DEF StorageTyped, handleAccept, Enter
<1>3. CallsTyped'
  <2>1. IsFiniteSet(calls \cup {Call("accept", currentSessionId)})
    BY CallsStayTyped
  <2>2. Call("accept", currentSessionId) \in [kind : Kinds, id : used]
    BY CallTyped DEF Kinds, handleAccept, TabTyped
  <2> QED BY <2>1, <2>2 DEF CallsTyped, handleAccept
<1>4. ServerTyped'
  BY DEF ServerTyped, handleAccept, serverVars
<1>5. PageTyped'
  BY DEF PageTyped, handleAccept
<1> QED BY <1>1, <1>2, <1>3, <1>4, <1>5

LEMMA AcceptPostedTyped ==
  ASSUME Typed, NEW s \in Sessions, AcceptPosted(s)
  PROVE  Typed'
<1> USE DEF Typed
<1>0. s \in used
  BY CallFacts DEF CallsTyped, AcceptPosted
<1>1. TabTyped'
  <2>1. NoAccept \in [id : used \cup {None}, finalizing : BOOLEAN]
    BY DEF NoAccept
  <2>2. /\ state' \in States /\ pendingAccepted' \in {pendingAccepted, NoAccept}
        /\ UNCHANGED <<currentSessionId, arrived, observer, used>>
    BY DEF AcceptPosted, States, TabTyped
  <2> QED BY <2>1, <2>2 DEF TabTyped
<1>2. StorageTyped'
  BY DEF StorageTyped, AcceptPosted, storage
<1>3. CallsTyped'
  BY CallsStayTyped DEF CallsTyped, AcceptPosted
<1>4. ServerTyped'
  BY <1>0, WorkAppendTyped DEF ServerTyped, AcceptPosted, WorkTypes
<1>5. PageTyped'
  BY DEF PageTyped, AcceptPosted, Suffers
<1> QED BY <1>1, <1>2, <1>3, <1>4, <1>5

LEMMA DiscardTyped ==
  ASSUME Typed, handleDiscard
  PROVE  Typed'
<1> USE DEF Typed
<1>1. TabTyped'
  BY DEF TabTyped, handleDiscard, tabVars
<1>2. StorageTyped'
  BY DEF StorageTyped, handleDiscard, storage
<1>3. CallsTyped'
  <2>1. IsFiniteSet(calls \cup {Call("discard", currentSessionId)})
    BY CallsStayTyped
  <2>2. Call("discard", currentSessionId) \in [kind : Kinds, id : used]
    BY CallTyped DEF Kinds, handleDiscard, TabTyped
  <2> QED BY <2>1, <2>2 DEF CallsTyped, handleDiscard
<1>4. ServerTyped'
  BY DEF ServerTyped, handleDiscard, serverVars
<1>5. PageTyped'
  BY DEF PageTyped, handleDiscard
<1> QED BY <1>1, <1>2, <1>3, <1>4, <1>5

LEMMA DiscardPostedTyped ==
  ASSUME Typed, NEW s \in Sessions, DiscardPosted(s)
  PROVE  Typed'
<1> USE DEF Typed
<1>0. s \in used
  BY CallFacts DEF CallsTyped, DiscardPosted
<1>1. TabTyped'
  BY DEF TabTyped, DiscardPosted, States, cleanup, tabVars
<1>2. StorageTyped'
  BY <1>0 DEF StorageTyped, TabTyped, DiscardPosted, storage, cleanup, NoSession
<1>3. CallsTyped'
  BY CallsStayTyped DEF CallsTyped, DiscardPosted
<1>4. ServerTyped'
  BY <1>0, WorkAppendTyped DEF ServerTyped, DiscardPosted, WorkTypes
<1>5. PageTyped'
  BY DEF PageTyped, DiscardPosted, Suffers, Drops
<1> QED BY <1>1, <1>2, <1>3, <1>4, <1>5

LEMMA SteerTyped ==
  ASSUME Typed, NEW s \in Sessions, submitSteerMessage(s)
  PROVE  Typed'
<1> USE DEF Typed
<1>1. TabTyped'
  BY DEF TabTyped, submitSteerMessage, tabVars
<1>2. StorageTyped'
  BY DEF StorageTyped, submitSteerMessage, storage
<1>3. CallsTyped'
  BY DEF CallsTyped, submitSteerMessage
<1>4. ServerTyped'
  <2>1. Message("steer", s) \in Work /\ Message("steer", s) \in [type : WorkTypes, id : used']
    BY DEF Message, Work, WorkTypes, submitSteerMessage
  <2>2. /\ Append(work, Message("steer", s)) \in Seq(Work) /\ Append(work, Message("steer", s)) # <<>>
        /\ ToSet(Append(work, Message("steer", s))) = ToSet(work) \cup {Message("steer", s)}
    <3>1. work \in Seq(Work)
      BY DEF ServerTyped
    <3> QED BY <2>1, <3>1, WorkAppend
  <2>3. used \subseteq used'
    BY DEF submitSteerMessage
  <2>4. work' \in Seq(Work) /\ ToSet(work') \subseteq [type : WorkTypes, id : used'] /\ (edited => work' # <<>>)
    <3>1. CASE work' = work
      BY <2>3, <3>1 DEF ServerTyped
    <3>2. CASE work' = Append(work, Message("steer", s))
      BY <2>1, <2>2, <2>3, <3>2 DEF ServerTyped
    <3> QED BY <3>1, <3>2 DEF submitSteerMessage
  <2> QED BY <2>3, <2>4 DEF ServerTyped, submitSteerMessage
<1>5. PageTyped'
  BY DEF PageTyped, submitSteerMessage, Suffers
<1> QED BY <1>1, <1>2, <1>3, <1>4, <1>5

LEMMA VariantsTyped ==
  ASSUME Typed, VariantsSeen
  PROVE  Typed'
<1> USE DEF Typed
<1>1. TabTyped'
  BY DEF TabTyped, VariantsSeen, States, Enter
<1>2. StorageTyped'
  BY SavedTyped DEF StorageTyped, VariantsSeen, Enter
<1>3. CallsTyped' /\ ServerTyped' /\ PageTyped'
  BY DEF CallsTyped, ServerTyped, PageTyped, VariantsSeen, serverVars
<1> QED BY <1>1, <1>2, <1>3

LEMMA injectTyped ==
  ASSUME Typed, NEW s \in Sessions, injectVariantsFromSource(s)
  PROVE  Typed'
<1> USE DEF Typed
<1>0. s \in used
  BY CallFacts DEF CallsTyped, injectVariantsFromSource
<1>1. TabTyped'
  BY DEF TabTyped, injectVariantsFromSource, States, Enter
<1>2. StorageTyped'
  BY SavedTyped DEF StorageTyped, injectVariantsFromSource, Enter
<1>3. CallsTyped'
  BY CallsStayTyped DEF CallsTyped, injectVariantsFromSource
<1>4. ServerTyped' /\ PageTyped'
  BY <1>0 DEF ServerTyped, PageTyped, injectVariantsFromSource, serverVars
<1> QED BY <1>1, <1>2, <1>3, <1>4

LEMMA CleanupTyped ==
  ASSUME Typed, NEW s \in Sessions, AcceptCleanup(s)
  PROVE  Typed'
<1> USE DEF Typed
<1>1. TabTyped'
  <2>1. NoAccept \in [id : used \cup {None}, finalizing : BOOLEAN]
    BY DEF NoAccept
  <2>2. CASE cleanupAcceptedSession
    BY <2>1, <2>2 DEF TabTyped, AcceptCleanup, States, cleanupAcceptedSession
  <2>3. CASE UNCHANGED tabVars
    BY <2>3 DEF TabTyped, AcceptCleanup, tabVars
  <2> QED BY <2>2, <2>3 DEF AcceptCleanup
<1>2. StorageTyped'
  BY DEF StorageTyped, AcceptCleanup, cleanupAcceptedSession, NoSession
<1>3. CallsTyped'
  BY CallsStayTyped DEF CallsTyped, AcceptCleanup
<1>4. ServerTyped' /\ PageTyped'
  BY DEF ServerTyped, PageTyped, AcceptCleanup, serverVars, Drops
<1> QED BY <1>1, <1>2, <1>3, <1>4

LEMMA ReceiveTyped ==
  ASSUME Typed, Receive
  PROVE  Typed'
<1> USE DEF Typed
<1> DEFINE m == Head(sse)
<1>1. /\ m \in [type : AnswerTypes, id : used] /\ m.id \in used
      /\ sse' \in Seq(Answers) /\ ToSet(sse') \subseteq [type : AnswerTypes, id : used]
  <2>1. /\ ToSet(sse) = {Head(sse)} \cup ToSet(Tail(sse)) /\ Tail(sse) \in Seq(Answers)
        /\ Head(sse) \in ToSet(sse)
    BY ToSetFacts, Zenon DEF Receive, PageTyped
  <2> QED BY <2>1 DEF PageTyped, Receive
<1> HIDE DEF m
<1>2. UNCHANGED <<work, edited, source, dom, used, reloads>>
  BY DEF Receive, serverVars
<1>3. ServerTyped'
  BY <1>2 DEF ServerTyped
<1>4. CASE maybeCompleteSteer(m)
  <2>1. steerRequestId' = None /\ UNCHANGED <<tabVars, storage, calls, trouble>>
    BY <1>4 DEF Receive, m
  <2>2. TabTyped' /\ StorageTyped'
    BY <1>2, <2>1 DEF TabTyped, StorageTyped, tabVars, storage
  <2>3. CallsTyped' /\ PageTyped'
    BY <1>1, <1>2, <2>1 DEF CallsTyped, PageTyped
  <2> QED BY <1>3, <2>2, <2>3
<1>5. CASE ~ maybeCompleteSteer(m)
  <2>0. /\ UNCHANGED steerRequestId
        /\ CASE m.type = "done" ->
                  /\ OnDone(m)
                  /\ UNCHANGED <<currentSessionId, arrived, pendingAccepted,
                                 observer, storage>>
             [] m.type = "complete" ->
                  /\ maybeCompleteAcceptedSession(m)
                  /\ UNCHANGED <<currentSessionId, arrived, observer, stored, confirmed, trouble>>
             [] m.type = "discarded" ->
                  OnDiscarded(m) /\ UNCHANGED <<calls, trouble>>
             [] m.type = "error" ->
                  /\ OnError(m)
                  /\ UNCHANGED <<currentSessionId, arrived, observer, storage, calls, trouble>>
             [] OTHER -> UNCHANGED <<tabVars, storage, calls, trouble>>
    BY <1>5 DEF Receive, m
  <2>1. CASE m.type = "done"
    <3>1. OnDone(m) /\ UNCHANGED <<currentSessionId, arrived, pendingAccepted, observer, storage>>
      BY <2>0, <2>1
    <3>2. TabTyped' /\ StorageTyped'
      BY <1>2, <3>1 DEF TabTyped, StorageTyped, storage, OnDone, States
    <3>3. CallsTyped'
      <4>1. Call("source", m.id) \in [kind : Kinds, id : used]
        BY <1>1, CallTyped DEF Kinds
      <4> QED BY <1>2, <2>0, <3>1, <4>1, CallsStayTyped DEF CallsTyped, OnDone
    <3>4. PageTyped'
      BY <1>1, <1>2, <3>1 DEF PageTyped, OnDone, Suffers
    <3> QED BY <1>3, <3>2, <3>3, <3>4
  <2>2. CASE m.type = "complete"
    <3>1. /\ maybeCompleteAcceptedSession(m)
          /\ UNCHANGED <<currentSessionId, arrived, observer, stored, confirmed, trouble>>
      BY <2>0, <2>2
    <3>2. TabTyped'
      <4>1. NoAccept \in [id : used \cup {None}, finalizing : BOOLEAN]
        BY DEF NoAccept
      <4>2. /\ state' \in States
            /\ pendingAccepted' \in {pendingAccepted, NoAccept,
                                      [pendingAccepted EXCEPT !.finalizing = TRUE]}
        BY <3>1 DEF maybeCompleteAcceptedSession, TabTyped, States
      <4>3. [pendingAccepted EXCEPT !.finalizing = TRUE] \in
              [id : used \cup {None}, finalizing : BOOLEAN]
        BY DEF TabTyped
      <4> QED BY <1>2, <3>1, <4>1, <4>2, <4>3 DEF TabTyped
    <3>3. StorageTyped'
      BY <1>2, <3>1 DEF StorageTyped, TabTyped, maybeCompleteAcceptedSession
    <3>4. CallsTyped'
      <4>1. Call("cleanup", m.id) \in [kind : Kinds, id : used]
        BY <1>1, CallTyped DEF Kinds
      <4> QED BY <1>2, <2>0, <3>1, <4>1, CallsStayTyped DEF CallsTyped, maybeCompleteAcceptedSession
    <3>5. PageTyped'
      BY <1>1, <1>2, <3>1 DEF PageTyped
    <3> QED BY <1>3, <3>2, <3>3, <3>4, <3>5
  <2>3. CASE m.type = "discarded"
    <3>1. OnDiscarded(m) /\ UNCHANGED <<calls, trouble>>
      BY <2>0, <2>3
    <3>2. CASE m.id = currentSessionId
      <4>1. handled' = currentSessionId /\ cleanup /\ UNCHANGED confirmed
        BY <3>1, <3>2 DEF OnDiscarded
      <4> QED BY <1>1, <1>2, <1>3, <2>0, <3>1, <4>1
              DEF TabTyped, StorageTyped, CallsTyped, PageTyped, cleanup, States, NoSession
    <3>3. CASE m.id # currentSessionId
      <4>1. UNCHANGED <<tabVars, storage>>
        BY <3>1, <3>3 DEF OnDiscarded
      <4> QED BY <1>1, <1>2, <1>3, <2>0, <3>1, <4>1
              DEF TabTyped, StorageTyped, CallsTyped, PageTyped, tabVars, storage
    <3> QED BY <3>2, <3>3
  <2>4. CASE m.type = "error"
    <3>1. /\ OnError(m)
          /\ UNCHANGED <<currentSessionId, arrived, observer, storage, calls, trouble>>
      BY <2>0, <2>4
    <3>2. NoAccept \in [id : used \cup {None}, finalizing : BOOLEAN]
      BY DEF NoAccept
    <3>3. TabTyped'
      BY <1>2, <3>1, <3>2 DEF TabTyped, OnError, States
    <3>4. StorageTyped' /\ CallsTyped' /\ PageTyped'
      BY <1>1, <1>2, <2>0, <3>1 DEF StorageTyped, CallsTyped, PageTyped, storage
    <3> QED BY <1>3, <3>3, <3>4
  <2>5. CASE m.type \notin {"done", "complete", "discarded", "error"}
    <3>1. UNCHANGED <<tabVars, storage, calls, trouble>>
      BY <2>0, <2>5
    <3> QED BY <1>1, <1>2, <1>3, <2>0, <3>1
            DEF TabTyped, StorageTyped, CallsTyped, PageTyped, tabVars, storage
  <2> QED BY <2>1, <2>2, <2>3, <2>4, <2>5
<1> QED BY <1>4, <1>5

\* The posts of a page that is left, in some order.
LEMMA PostsTyped ==
  ASSUME Typed, NEW sent \in SUBSET Delivered, NEW posts \in SetToSeqs(sent)
  PROVE  LET p == [i \in DOMAIN posts |-> Message(posts[i].kind, posts[i].id)]
         IN  /\ p \in Seq(Work) /\ ToSet(p) \subseteq [type : WorkTypes, id : used]
             /\ \A m \in ToSet(p) : /\ m.type \in {"accept", "discard"}
                                    /\ Call(m.type, m.id) \in calls
<1> DEFINE n == Cardinality(sent)
           p == [i \in DOMAIN posts |-> Message(posts[i].kind, posts[i].id)]
<1>1. IsFiniteSet(sent)
  <2>1. sent \subseteq calls
    BY DEF Delivered
  <2> QED BY <2>1, FS_Subset DEF Typed, CallsTyped
<1>2. n \in Nat
  BY <1>1, FS_CardinalityType
<1>3. posts \in [1..n -> sent]
  BY DEF SetToSeqs
<1>4. \A c \in sent : /\ c \in calls /\ c.kind \in {"accept", "discard"} /\ c.id \in used
                       /\ c = Call(c.kind, c.id)
  <2>1. \A c \in sent : c \in [kind : Kinds, id : used] /\ c \in calls
                         /\ c.kind \in {"accept", "discard"}
    BY DEF Delivered, Typed, CallsTyped
  <2> QED BY <2>1 DEF Call
<1> HIDE DEF n
<1>5. p = [i \in 1..n |-> Message(posts[i].kind, posts[i].id)]
  BY <1>3
<1>6. \A i \in 1..n : /\ Message(posts[i].kind, posts[i].id) \in Work
                       /\ Message(posts[i].kind, posts[i].id) \in [type : WorkTypes, id : used]
  BY <1>3, <1>4 DEF Message, Work, WorkTypes, Typed, PageTyped
<1>7. p \in [1..n -> Work]
  BY <1>5, <1>6
<1>8. p \in Seq(Work)
  BY <1>2, <1>7
<1>9. \A m \in ToSet(p) : \E i \in 1..n : m = Message(posts[i].kind, posts[i].id)
  BY <1>5 DEF ToSet
<1>10. ASSUME NEW m \in ToSet(p)
       PROVE  /\ m \in [type : WorkTypes, id : used] /\ m.type \in {"accept", "discard"}
              /\ Call(m.type, m.id) \in calls
  <2>1. PICK i \in 1..n : m = Message(posts[i].kind, posts[i].id)
    BY <1>9
  <2>2. m.type = posts[i].kind /\ m.id = posts[i].id
    BY <2>1, MessageFacts
  <2>3. posts[i] \in sent
    BY <1>3
  <2> QED BY <1>4, <1>6, <2>1, <2>2, <2>3
<1> QED BY <1>8, <1>10

LEMMA FirstFacts ==
  ASSUME NEW S \in SUBSET Sessions, S # {}
  PROVE  First(S) \in S /\ \A t \in S : First(S) <= t
<1>1. S \in SUBSET Nat
  BY SessionsAssumption
<1>2. \E n \in S : \A m \in S : n <= m
  BY <1>1, LeastNumber
<1> QED BY <1>2 DEF First

\* What a restored session is, and what is fetched for it.
LEMMA RestoreTyped ==
  ASSUME Typed, UNCHANGED used, Restorable, RestoreSaved
  PROVE  /\ state' \in States /\ arrived' \in BOOLEAN
         /\ currentSessionId' \in used \cup {None} /\ observer' \in used \cup {None}
         /\ StorageTyped' /\ stored'.id = stored.id
         /\ stored.id \in used /\ stored.id # None /\ stored'.arrived = stored.arrived
<1>1. stored \in Saves /\ stored.id \in used
  BY DEF Restorable, Typed, StorageTyped, NoSession
<1>2. stored' \in Saves /\ stored'.id = stored.id /\ stored'.arrived = stored.arrived
  BY <1>1 DEF RestoreSaved, Saves
<1>3. stored.arrived \in BOOLEAN
  BY <1>1 DEF Saves
<1> QED BY <1>1, <1>2, <1>3 DEF RestoreSaved, Restorable, Typed, StorageTyped, States

LEMMA FetchTyped ==
  ASSUME Typed, stored.id \in used, UNCHANGED used,
         NEW pending, FetchSaved(pending), pending \in {calls, {}}
  PROVE  /\ calls' \subseteq [kind : Kinds, id : used] /\ IsFiniteSet(calls')
         /\ trouble' \in {None, "late"} \cup Troubles
<1>1. Call("source", stored.id) \in [kind : Kinds, id : used]
  BY CallTyped DEF Kinds
<1>2. IsFiniteSet(pending) /\ pending \subseteq [kind : Kinds, id : used]
  BY FS_EmptySet DEF Typed, CallsTyped
<1>3. IsFiniteSet(pending \cup {Call("source", stored.id)})
  BY <1>2, FS_AddElement
<1> QED BY <1>1, <1>2, <1>3 DEF FetchSaved, Suffers, Typed, PageTyped

LEMMA ReloadTyped ==
  ASSUME Typed, Reload
  PROVE  Typed'
<1> USE DEF Typed
<1>1. UNCHANGED <<edited, source, used>> /\ sse' = <<>>
      /\ steerRequestId' = None /\ pendingAccepted' = NoAccept /\ dom' = source /\ resumeSession
  BY DEF Reload
<1>2. ServerTyped'
  <2>0. PICK sent \in SUBSET Delivered : \E posts \in SetToSeqs(sent) :
          work' = work \o [i \in DOMAIN posts |-> Message(posts[i].kind, posts[i].id)]
    BY DEF Reload
  <2>1. PICK posts \in SetToSeqs(sent) :
          work' = work \o [i \in DOMAIN posts |-> Message(posts[i].kind, posts[i].id)]
    BY <2>0
  <2> DEFINE p == [i \in DOMAIN posts |-> Message(posts[i].kind, posts[i].id)]
  <2>2. p \in Seq(Work) /\ ToSet(p) \subseteq [type : WorkTypes, id : used]
    BY PostsTyped
  <2>3. work' = work \o p
    BY <2>1
  <2> HIDE DEF p
  <2>4. work \in Seq(Work) /\ ToSet(work) \subseteq [type : WorkTypes, id : used]
    BY DEF ServerTyped
  <2>5. work \o p \in Seq(Work) /\ ToSet(work \o p) = ToSet(work) \cup ToSet(p)
    BY <2>2, <2>4, ToSetOfConcat
  <2>6. work # <<>> => work \o p # <<>>
    BY <2>2, <2>4
  <2> QED BY <1>1, <2>2, <2>3, <2>4, <2>5, <2>6 DEF ServerTyped
<1>3. CallsTyped' /\ trouble' \in {None, "late"} \cup Troubles
  <2>1. CASE calls' = {} /\ UNCHANGED trouble
    BY <1>1, <2>1, FS_EmptySet DEF CallsTyped, PageTyped
  <2>2. CASE Restorable /\ RestoreSaved /\ FetchSaved({})
    <3>1. stored.id \in used
      BY <1>1, <2>2, RestoreTyped
    <3> QED BY <1>1, <2>2, <3>1, FetchTyped DEF CallsTyped
  <2> QED BY <1>1, <2>1, <2>2 DEF resumeSession, restoreSessionWithoutWrapper
<1>4. PageTyped'
  <2>1. <<>> \in Seq(Answers) /\ ToSet(<<>>) = {}
    BY DEF ToSet
  <2> QED BY <1>1, <1>3, <2>1 DEF PageTyped, ServerTyped
<1>5. TabTyped' /\ StorageTyped'
  <2>1. NoAccept \in [id : used \cup {None}, finalizing : BOOLEAN]
    BY DEF NoAccept
  <2>2. CASE source = {}
    <3>1. restoreSessionWithoutWrapper
      BY <1>1, <2>2 DEF resumeSession
    <3>2. CASE Restorable
      <4>1. RestoreSaved
        BY <3>1, <3>2 DEF restoreSessionWithoutWrapper
      <4> QED BY <1>1, <2>1, <3>2, <4>1, RestoreTyped DEF TabTyped
    <3>3. CASE ~ Restorable
      <4>1. /\ state' = "PICKING" /\ currentSessionId' = None /\ observer' = None
            /\ arrived' = FALSE /\ stored' = NoSession /\ handled' = None /\ UNCHANGED confirmed
        BY <3>1, <3>3 DEF restoreSessionWithoutWrapper
      <4> QED BY <1>1, <2>1, <4>1 DEF TabTyped, StorageTyped, States, NoSession
    <3> QED BY <3>2, <3>3
  <2>3. CASE source # {}
    <3>1. ResumeWrapper(First(source))
      BY <1>1, <2>3 DEF resumeSession
    <3>2. First(source) \in source /\ First(source) \in used /\ First(source) \in Sessions
      BY <2>3, FirstFacts DEF ServerTyped, PageTyped
    <3>3. CASE First(source) = handled
      <4>1. /\ state' = "PICKING" /\ currentSessionId' = None /\ observer' = None
            /\ arrived' = FALSE /\ UNCHANGED storage
        BY <3>1, <3>3 DEF ResumeWrapper
      <4> QED BY <1>1, <2>1, <4>1 DEF TabTyped, StorageTyped, States, storage
    <3>4. CASE First(source) # handled
      <4>1. /\ state' = "CYCLING" /\ currentSessionId' = First(source)
            /\ observer' = First(source) /\ arrived' = TRUE
            /\ stored' = [id |-> First(source), state |-> "CYCLING", arrived |-> TRUE]
            /\ UNCHANGED <<handled, confirmed>>
        BY <3>1, <3>4 DEF ResumeWrapper
      <4>2. stored' \in Saves /\ stored'.id = First(source)
        BY <3>2, <4>1 DEF Saves
      <4> QED BY <1>1, <2>1, <3>2, <4>1, <4>2 DEF TabTyped, StorageTyped, States
    <3> QED BY <3>3, <3>4
  <2> QED BY <2>2, <2>3
<1> QED BY <1>2, <1>3, <1>4, <1>5

LEMMA ReconnectTyped ==
  ASSUME Typed, Reconnect
  PROVE  Typed'
<1> USE DEF Typed
<1>1. UNCHANGED <<pendingAccepted, steerRequestId, work, edited, source, dom, used>>
  BY DEF Reconnect, serverVars
<1>2. ServerTyped'
  BY <1>1 DEF ServerTyped
<1>3. /\ sse' \in Seq(Answers) /\ ToSet(sse') \subseteq [type : AnswerTypes, id : used]
  <2>1. <<>> \in Seq(Answers) /\ ToSet(<<>>) = {}
    BY DEF ToSet
  <2> QED BY <2>1 DEF Reconnect, PageTyped
<1>4. CASE Restorable /\ RestoreSaved
  <2>1. TabTyped' /\ StorageTyped' /\ stored.id \in used
    BY <1>1, <1>4, RestoreTyped DEF TabTyped
  <2>2. CASE FetchSaved(calls)
    <3>1. /\ calls' \subseteq [kind : Kinds, id : used] /\ IsFiniteSet(calls')
          /\ trouble' \in {None, "late"} \cup Troubles
      BY <1>1, <2>1, <2>2, FetchTyped
    <3> QED BY <1>1, <1>2, <1>3, <2>1, <3>1 DEF CallsTyped, PageTyped
  <2>3. CASE Suffers("stream") /\ UNCHANGED calls
    BY <1>1, <1>2, <1>3, <2>1, <2>3 DEF CallsTyped, PageTyped, Suffers
  <2> QED BY <2>2, <2>3 DEF Reconnect
<1>5. CASE ~ (Restorable /\ RestoreSaved)
  <2>1. /\ Suffers("stream") /\ UNCHANGED calls
        /\ UNCHANGED <<state, currentSessionId, arrived, observer, stored, handled, confirmed>>
    BY <1>5 DEF Reconnect, storage
  <2> QED BY <1>1, <1>2, <1>3, <2>1 DEF TabTyped, StorageTyped, CallsTyped, PageTyped, Suffers
<1> QED BY <1>4, <1>5

LEMMA AgentTyped ==
  ASSUME Typed, AgentEdits \/ AgentCarbonizes \/ AgentAnswers \/ AgentFailsRequest
  PROVE  Typed'
<1> USE DEF Typed
<1>0. work # <<>>
  BY DEF AgentEdits, AgentCarbonizes, AgentAnswers, AgentFailsRequest
<1>1. /\ ToSet(work) = {Head(work)} \cup ToSet(Tail(work)) /\ Tail(work) \in Seq(Work)
      /\ Head(work) \in ToSet(work)
  <2>1. work \in Seq(Work)
    BY DEF ServerTyped
  <2> QED BY <1>0, <2>1, ToSetFacts, Zenon
<1>2. Head(work) \in [type : WorkTypes, id : used] /\ Head(work).id \in used
  BY <1>1 DEF ServerTyped
<1>3. CASE AgentEdits
  <2>1. source' \subseteq used
    BY <1>2, <1>3 DEF AgentEdits, ServerTyped
  <2> QED BY <1>3, <2>1 DEF AgentEdits, TabTyped, StorageTyped, CallsTyped, ServerTyped,
                            PageTyped, tabVars, storage
<1>4. ASSUME NEW type \in AnswerTypes, sse' = Append(sse, Message(type, Head(work).id))
      PROVE  /\ sse' \in Seq(Answers)
             /\ ToSet(sse') \subseteq [type : AnswerTypes, id : used]
  <2> DEFINE m == Message(type, Head(work).id)
  <2>2. m \in Answers /\ m \in [type : AnswerTypes, id : used]
    BY <1>2 DEF Answers, Message, PageTyped
  <2>3. sse' = Append(sse, m)
    BY <1>4
  <2> HIDE DEF m
  <2>4. sse \in Seq(Answers) /\ ToSet(sse) \subseteq [type : AnswerTypes, id : used]
    BY DEF PageTyped
  <2>5. sse' \in Seq(Answers) /\ ToSet(sse') = ToSet(sse) \cup {m}
    BY <2>2, <2>3, <2>4, AnswerAppend
  <2> QED BY <2>2, <2>4, <2>5
<1>7. ASSUME NEW type \in AnswerTypes, Answer(type), UNCHANGED <<source, used>>
      PROVE  /\ ServerTyped' /\ sse' \in Seq(Answers)
             /\ ToSet(sse') \subseteq [type : AnswerTypes, id : used]
  <2>1. ServerTyped'
    BY <1>1, <1>7 DEF Answer, ServerTyped
  <2> QED BY <1>4, <1>7, <2>1 DEF Answer
<1>8. CASE AgentCarbonizes
  <2>1. /\ UNCHANGED <<tabVars, storage, calls, steerRequestId, work, edited, source, dom, used, trouble>>
        /\ sse' = Append(sse, Message("agent_done", Head(work).id))
    BY <1>8 DEF AgentCarbonizes
  <2>2. sse' \in Seq(Answers) /\ ToSet(sse') \subseteq [type : AnswerTypes, id : used]
    BY <1>4, <2>1 DEF AnswerTypes
  <2> QED BY <2>1, <2>2 DEF TabTyped, StorageTyped, CallsTyped, ServerTyped, PageTyped, tabVars, storage
<1>5. CASE AgentAnswers
  <2>1. PICK type \in AnswerTypes : Answer(type)
    BY <1>2, <1>5 DEF AgentAnswers, CompletionType, AnswerTypes, WorkTypes
  <2>2. /\ UNCHANGED <<tabVars, storage, calls, steerRequestId, dom, used>>
        /\ UNCHANGED <<source, used>> /\ trouble' \in {trouble, "late"}
    BY <1>5 DEF AgentAnswers
  <2>3. /\ ServerTyped' /\ sse' \in Seq(Answers)
        /\ ToSet(sse') \subseteq [type : AnswerTypes, id : used]
    BY <1>7, <2>1, <2>2
  <2> QED BY <2>2, <2>3 DEF TabTyped, StorageTyped, CallsTyped, PageTyped, tabVars, storage
<1>6. CASE AgentFailsRequest
  <2>1. Answer("error") /\ "error" \in AnswerTypes
    BY <1>6 DEF AgentFailsRequest, AnswerTypes
  <2>2. /\ UNCHANGED <<tabVars, storage, calls, steerRequestId, dom, used>>
        /\ UNCHANGED <<source, used>> /\ trouble' \in Troubles
    BY <1>6 DEF AgentFailsRequest, Suffers
  <2>3. /\ ServerTyped' /\ sse' \in Seq(Answers)
        /\ ToSet(sse') \subseteq [type : AnswerTypes, id : used]
    BY <1>7, <2>1, <2>2
  <2> QED BY <2>2, <2>3 DEF TabTyped, StorageTyped, CallsTyped, PageTyped, tabVars, storage
<1> QED BY <1>3, <1>5, <1>6, <1>8

LEMMA StepTyped ==
  ASSUME Typed, [Next]_vars
  PROVE  Typed'
<1>1. CASE UNCHANGED vars
  BY <1>1 DEF vars, Typed, TabTyped, StorageTyped, CallsTyped, ServerTyped, PageTyped
<1>2. CASE User
  BY <1>2, UserTyped, AcceptTyped, DiscardTyped, ReloadTyped, GoTyped, SteerTyped DEF User
<1>3. CASE Callbacks
  BY <1>3, captureTyped, AcceptPostedTyped, DiscardPostedTyped, injectTyped, CleanupTyped,
     ReceiveTyped, VariantsTyped, UserTyped DEF Callbacks
<1>4. CASE Environment
  BY <1>4, UserTyped, AgentTyped, ReconnectTyped DEF Environment
<1> QED BY <1>1, <1>2, <1>3, <1>4 DEF Next

LEMMA TypedAlways == Spec => []Typed
<1> QED BY TypedInit, StepTyped, PTL DEF Spec

\* The overlay's state, what it keeps in storage and its pending callbacks keep
\* their types, and name sessions the page has made up (saveSession).
THEOREM TypeCorrect == Spec => []TypeOK
<1> QED BY TypedAlways, TypedImplies, PTL

-------------------------------------------------------------------------------
(* As long as nothing goes wrong *)

\* The requests that are yet to be carried out.
Todo == IF edited THEN Tail(work) ELSE work

Capturing(s) == Call("capture", s) \in calls
Ending(s) == Call("accept", s) \in calls \/ Call("discard", s) \in calls

\* The variants of s have been asked for and are not there yet.
Fresh(s) == Capturing(s) \/ Message("generate", s) \in ToSet(Todo)

\* The wrapper of s is no longer in the source and does not come back.
Gone(s) == s \notin source /\ ~ Fresh(s)

ModeInv ==
  /\ state \in {"PICKING", "CONFIGURING"} => currentSessionId = None
  /\ state = "CYCLING" /\ currentSessionId # None => arrived
  /\ observer \in {None, currentSessionId}
  /\ \A m \in ToSet(sse) : m.type # "error"
  /\ \A s \in Sessions : Call("source", s) \notin calls

GeneratedOnce ==
  /\ GeneratesOnce(Todo)
  /\ \A s \in Sessions : Capturing(s) => Message("generate", s) \notin ToSet(Todo)

FreshIsNew ==
  \A s \in Sessions : Fresh(s) =>
    /\ s \notin source \cup dom \cup confirmed
    /\ ~ Ending(s) /\ ~ EndAsked(Todo, s)
    /\ pendingAccepted.id # s
    /\ currentSessionId = s => ~ arrived
    /\ stored.id = s => ~ stored.arrived

\* A session whose end the agent has carried out.
Carried(s) ==
  \/ Message("complete", s) \in ToSet(sse)
  \/ Message("discarded", s) \in ToSet(sse)
  \/ Call("cleanup", s) \in calls
  \/ edited /\ Head(work) \in Ends(s)

EndedIsGone == \A s \in Sessions : Carried(s) => Gone(s)

\* Of two wrappers the first in the document is not taken out first, if the
\* end of the other is asked for at all.
EndsInOrder ==
  \A s, t \in source : s < t /\ EndAsked(Todo, t) => EndsFirst(Todo, t, s)

\* The current session comes before one whose end is asked for, or begins
\* only when that is over.
CurrentIsFirst ==
  \A t \in source \ {currentSessionId} :
    currentSessionId # None /\ EndAsked(Todo, t) =>
      \/ currentSessionId \in source /\ currentSessionId < t
      \/ Capturing(currentSessionId)
      \/ GeneratesAfter(Todo, currentSessionId, t)

\* Posts under way are of the current session, or of one whose end has been
\* asked for before.
PostsAreCurrent ==
  \A t \in source :
    /\ Call("discard", t) \in calls => currentSessionId = t
    /\ Call("accept", t) \in calls /\ currentSessionId # t =>
         /\ EndAsked(Todo, t)
         /\ \/ currentSessionId = None \/ Capturing(currentSessionId)
            \/ GeneratesAfter(Todo, currentSessionId, t)

\* While the wrapper of a discarded session is still there, the session is the
\* one marked handled, or a reload finds another wrapper first.
DiscardedStay ==
  \A s \in confirmed :
    /\ s \in source => EndAsked(Todo, s) /\ (handled = s \/ \E u \in source : u < s)
    /\ stored.id # s /\ currentSessionId # s
    /\ ~ Fresh(s)

CalmInv ==
  /\ ModeInv /\ GeneratedOnce /\ FreshIsNew /\ EndedIsGone
  /\ EndsInOrder /\ CurrentIsFirst /\ PostsAreCurrent /\ DiscardedStay

\* The variants of s have been seen, and so may be accepted or discarded.
Seen(s) ==
  \/ currentSessionId = s /\ arrived
  \/ stored.id = s /\ stored.arrived
  \/ Ending(s) \/ EndAsked(Todo, s)

\* What has been seen is in the page while it is in the source.
SeenIsInPage == \A s \in source : Seen(s) => s \in dom

IInv == Typed /\ (trouble = None => CalmInv /\ SeenIsInPage)

LEMMA TodoTyped ==
  ASSUME Typed
  PROVE  /\ Todo \in Seq(Work) /\ ToSet(Todo) \subseteq [type : WorkTypes, id : used]
         /\ \A m \in ToSet(Todo) : m.id \in used /\ m.type \in WorkTypes
         /\ work # <<>> => Head(work) \in [type : WorkTypes, id : used] /\ Head(work) \in Work
<1>1. work \in Seq(Work) /\ ToSet(work) \subseteq [type : WorkTypes, id : used] /\ (edited => work # <<>>)
  BY DEF Typed, ServerTyped
<1>2. work # <<>> => /\ ToSet(work) = {Head(work)} \cup ToSet(Tail(work)) /\ Tail(work) \in Seq(Work)
                     /\ Head(work) \in ToSet(work) /\ Head(work) \in Work
  BY <1>1, ToSetFacts, Zenon
<1> QED BY <1>1, <1>2 DEF Todo

LEMMA EndAskedOfUsed ==
  ASSUME Typed, NEW s, EndAsked(Todo, s)
  PROVE  s \in used
<1>1. PICK i \in 1..Len(Todo) : Todo[i] \in Ends(s)
  BY DEF EndAsked
<1>2. Todo[i] \in ToSet(Todo)
  BY TodoTyped, ToSetIs
<1>3. Todo[i].id = s
  BY <1>1, MessageFacts DEF Ends
<1> QED BY <1>2, <1>3, TodoTyped

\* A request that is appended is appended to what is yet to be done.
LEMMA TodoGrows ==
  ASSUME Typed, NEW p \in Seq(Work), work' = work \o p, edited' = edited
  PROVE  /\ Todo' = Todo \o p /\ ToSet(Todo') = ToSet(Todo) \cup ToSet(p)
         /\ work # <<>> => Head(work') = Head(work)
<1>1. work \in Seq(Work) /\ (edited => work # <<>>)
  BY DEF Typed, ServerTyped
<1>2. work # <<>> => Tail(work \o p) = Tail(work) \o p /\ Head(work \o p) = Head(work)
  BY <1>1
<1>3. Todo' = Todo \o p
  BY <1>1, <1>2 DEF Todo
<1> QED BY <1>2, <1>3, TodoTyped, ToSetOfConcat

LEMMA NoneFacts ==
  ASSUME Typed
  PROVE  /\ None \notin used /\ None \notin source /\ None \notin confirmed
         /\ used \subseteq Sessions /\ source \subseteq Sessions /\ confirmed \subseteq Sessions
         /\ Sessions \subseteq Nat
  BY SessionsAssumption DEF Typed, PageTyped, ServerTyped, StorageTyped

LEMMA CalmInit == Init => CalmInv
<1> SUFFICES ASSUME Init PROVE CalmInv
  OBVIOUS
<1>1. ToSet(<<>>) = {} /\ Todo = <<>> /\ Len(Todo) = 0
  BY DEF ToSet, Todo, Init
<1>2. GeneratesOnce(Todo) /\ \A t : ~ EndAsked(Todo, t)
  BY <1>1 DEF GeneratesOnce, EndAsked
<1> QED
  BY <1>1, <1>2 DEF Init, CalmInv, ModeInv, GeneratedOnce, FreshIsNew, EndedIsGone, Carried,
     EndsInOrder, CurrentIsFirst, PostsAreCurrent, DiscardedStay, Fresh, Capturing

\* A step that leaves the source, the requests and the posts alone.
Quiet ==
  /\ Todo' = Todo /\ UNCHANGED source
  /\ \A s \in Sessions :
        /\ (Call("capture", s) \in calls' <=> Call("capture", s) \in calls)
        /\ (Call("accept", s) \in calls' <=> Call("accept", s) \in calls)
        /\ (Call("discard", s) \in calls' <=> Call("discard", s) \in calls)

LEMMA QuietSteps ==
  ASSUME Typed, CalmInv, Quiet
  PROVE  /\ Todo' = Todo /\ \A s \in Sessions : Fresh(s)' <=> Fresh(s)
         /\ GeneratedOnce' /\ EndsInOrder'
         /\ currentSessionId' \in {currentSessionId, None} /\ (currentSessionId \in source => currentSessionId' = currentSessionId)
              => CurrentIsFirst' /\ PostsAreCurrent'
<1>1. Todo' = Todo
  BY DEF Quiet
<1>2. \A s \in Sessions : (Fresh(s)' <=> Fresh(s)) /\ (Capturing(s)' <=> Capturing(s))
  BY <1>1 DEF Fresh, Capturing, Quiet
<1>3. GeneratedOnce' /\ EndsInOrder'
  BY <1>1, <1>2 DEF GeneratedOnce, EndsInOrder, CalmInv, Quiet
<1>4. ASSUME currentSessionId' \in {currentSessionId, None},
             currentSessionId \in source => currentSessionId' = currentSessionId
      PROVE  CurrentIsFirst' /\ PostsAreCurrent'
  <2>1. currentSessionId # None => currentSessionId \in Sessions
    BY DEF Typed, TabTyped, PageTyped
  <2>2. CurrentIsFirst'
    BY <1>1, <1>2, <1>4, <2>1 DEF CurrentIsFirst, CalmInv, Quiet
  <2>3. PostsAreCurrent'
    <3>1. ASSUME NEW t \in source
          PROVE  /\ Call("discard", t) \in calls' => currentSessionId' = t
                 /\ Call("accept", t) \in calls' /\ currentSessionId' # t =>
                      /\ EndAsked(Todo, t)
                      /\ \/ currentSessionId' = None \/ Capturing(currentSessionId)'
                         \/ GeneratesAfter(Todo, currentSessionId', t)
      <4>1. /\ Call("discard", t) \in calls' <=> Call("discard", t) \in calls
            /\ Call("accept", t) \in calls' <=> Call("accept", t) \in calls
        BY NoneFacts DEF Quiet
      <4>2. /\ Call("discard", t) \in calls => currentSessionId = t
            /\ Call("accept", t) \in calls /\ currentSessionId # t =>
                 /\ EndAsked(Todo, t)
                 /\ \/ currentSessionId = None \/ Capturing(currentSessionId)
                    \/ GeneratesAfter(Todo, currentSessionId, t)
        BY DEF CalmInv, PostsAreCurrent
      <4> QED BY <1>2, <1>4, <2>1, <4>1, <4>2
    <3> QED BY <1>1, <3>1 DEF PostsAreCurrent, Quiet
  <2> QED BY <2>2, <2>3
<1> QED BY <1>1, <1>2, <1>3, <1>4

LEMMA SmallStepsCalm ==
  ASSUME Typed, CalmInv, Pick \/ exitConfigureToPicking \/ SteerTimesOut \/ HotUpdate
  PROVE  CalmInv'
<1>1. /\ UNCHANGED <<work, edited, source, calls, currentSessionId, arrived, pendingAccepted,
                      observer, stored, handled, confirmed, sse>>
      /\ dom' \in {dom, source}
      /\ \/ state' = state
         \/ state = "PICKING" /\ state' = "CONFIGURING"
         \/ state = "CONFIGURING" /\ state' = "PICKING"
  BY DEF Pick, exitConfigureToPicking, SteerTimesOut, HotUpdate, tabVars, storage, serverVars
<1>2. Todo' = Todo
  BY <1>1 DEF Todo
<1>3. Quiet
  BY <1>1, <1>2 DEF Quiet
<1>4. \A s \in Sessions : Fresh(s)' <=> Fresh(s)
  BY <1>3, QuietSteps
<1>5. GeneratedOnce' /\ EndsInOrder' /\ CurrentIsFirst' /\ PostsAreCurrent'
  BY <1>1, <1>3, QuietSteps
<1>6. ModeInv'
  BY <1>1 DEF CalmInv, ModeInv
<1>7. FreshIsNew'
  BY <1>1, <1>2, <1>4 DEF CalmInv, FreshIsNew, Ending
<1>8. EndedIsGone'
  BY <1>1, <1>4 DEF CalmInv, EndedIsGone, Carried, Gone
<1>9. DiscardedStay'
  BY <1>1, <1>2, <1>4, NoneFacts DEF CalmInv, DiscardedStay
<1> QED BY <1>5, <1>6, <1>7, <1>8, <1>9 DEF CalmInv

LEMMA VariantsCalm ==
  ASSUME Typed, CalmInv, VariantsSeen
  PROVE  CalmInv'
<1>1. /\ UNCHANGED <<work, edited, source, calls, currentSessionId, pendingAccepted,
                      observer, handled, confirmed, sse, dom>>
      /\ state' = "CYCLING" /\ arrived' = TRUE
      /\ currentSessionId # None /\ currentSessionId \in dom /\ currentSessionId \in Sessions
      /\ stored'.id = currentSessionId
  BY DEF VariantsSeen, Enter, Saved, serverVars, CalmInv, ModeInv, Typed, TabTyped, PageTyped
<1>2. Todo' = Todo
  BY <1>1 DEF Todo
<1>3. Quiet
  BY <1>1, <1>2 DEF Quiet
<1>4. \A s \in Sessions : Fresh(s)' <=> Fresh(s)
  BY <1>3, QuietSteps
<1>5. GeneratedOnce' /\ EndsInOrder' /\ CurrentIsFirst' /\ PostsAreCurrent'
  BY <1>1, <1>3, QuietSteps
<1>6. ModeInv'
  BY <1>1 DEF CalmInv, ModeInv
<1>7. FreshIsNew'
  BY <1>1, <1>2, <1>4 DEF CalmInv, FreshIsNew, Ending
<1>8. EndedIsGone'
  BY <1>1, <1>4 DEF CalmInv, EndedIsGone, Carried, Gone
<1>9. DiscardedStay'
  BY <1>1, <1>2, <1>4, NoneFacts DEF CalmInv, DiscardedStay
<1> QED BY <1>5, <1>6, <1>7, <1>8, <1>9 DEF CalmInv

LEMMA GoCalm ==
  ASSUME Typed, CalmInv, NEW s \in Sessions, handleGo(s)
  PROVE  CalmInv'
<1>1. /\ UNCHANGED <<work, edited, source, handled, confirmed, sse, dom>>
      /\ state' = "GENERATING" /\ arrived' = FALSE /\ currentSessionId' = s /\ observer' = s
      /\ pendingAccepted' = NoAccept /\ stored'.id = s /\ ~ stored'.arrived /\ s \notin used
      /\ calls' = calls \cup {Call("capture", s)}
      /\ currentSessionId = None /\ s # None
  BY SessionsAssumption DEF handleGo, serverVars, CalmInv, ModeInv
<1>2. Todo' = Todo
  BY <1>1 DEF Todo
<1>3. \A k, t : Call(k, t) \in calls' <=> Call(k, t) \in calls \/ (k = "capture" /\ t = s)
  BY <1>1, CallFacts
<1>4. /\ s \notin source \cup dom \cup confirmed
      /\ ~ Fresh(s) /\ ~ Ending(s) /\ ~ EndAsked(Todo, s) /\ ~ Carried(s)
      /\ Message("generate", s) \notin ToSet(Todo)
  <2>1. \A k : Call(k, s) \notin calls
    BY <1>1, CallFacts DEF Typed, CallsTyped
  <2>2. \A k : Message(k, s) \notin ToSet(Todo)
    BY <1>1, TodoTyped, MessageFacts
  <2>3. \A k : Message(k, s) \notin ToSet(sse)
    BY <1>1, MessageFacts DEF Typed, PageTyped
  <2>4. edited => Head(work) \notin Ends(s)
    <3>1. edited => Head(work).id \in used
      BY TodoTyped DEF Typed, ServerTyped
    <3> QED BY <1>1, <3>1, MessageFacts DEF Ends
  <2>5. ~ EndAsked(Todo, s)
    BY <1>1, EndAskedOfUsed
  <2> QED BY <1>1, <2>1, <2>2, <2>3, <2>4, <2>5
          DEF Fresh, Capturing, Ending, Carried, Typed, StorageTyped, ServerTyped, PageTyped
<1>5. \A t \in Sessions : t # s =>
        /\ (Fresh(t)' <=> Fresh(t))
        /\ (Carried(t)' <=> Carried(t))
        /\ (Ending(t)' <=> Ending(t))
        /\ (Capturing(t)' <=> Capturing(t))
  BY <1>1, <1>2, <1>3 DEF Fresh, Carried, Capturing, Ending
<1>6. ~ Carried(s)' /\ ~ Ending(s)' /\ Capturing(s)'
  BY <1>1, <1>3, <1>4 DEF Carried, Ending, Capturing
<1>7. ModeInv'
  BY <1>1, <1>3 DEF CalmInv, ModeInv
<1>8. GeneratedOnce'
  BY <1>2, <1>4, <1>5 DEF CalmInv, GeneratedOnce
<1>9. FreshIsNew'
  <2>1. ASSUME NEW t \in Sessions, Fresh(t)'
        PROVE  /\ t \notin source \cup dom \cup confirmed
               /\ ~ Ending(t)' /\ ~ EndAsked(Todo, t)
               /\ pendingAccepted'.id # t
               /\ currentSessionId' = t => ~ arrived'
               /\ stored'.id = t => ~ stored'.arrived
    <3>1. pendingAccepted'.id # t
      BY <1>1, SessionsAssumption DEF NoAccept
    <3> QED BY <1>1, <1>4, <1>5, <1>6, <2>1, <3>1 DEF CalmInv, FreshIsNew
  <2> QED BY <1>1, <1>2, <2>1 DEF FreshIsNew
<1>10. EndedIsGone'
  BY <1>1, <1>5, <1>6 DEF CalmInv, EndedIsGone, Gone
<1>11. EndsInOrder'
  BY <1>1, <1>2 DEF CalmInv, EndsInOrder
<1>12. CurrentIsFirst'
  BY <1>1, <1>6 DEF CurrentIsFirst
<1>13. PostsAreCurrent'
  BY <1>1, <1>2, <1>3, <1>6, NoneFacts DEF CalmInv, PostsAreCurrent
<1>14. DiscardedStay'
  BY <1>1, <1>2, <1>4, <1>5, NoneFacts DEF CalmInv, DiscardedStay
<1> QED BY <1>7, <1>8, <1>9, <1>10, <1>11, <1>12, <1>13, <1>14 DEF CalmInv

\* Accepting or discarding calls for a current session that has arrived.
LEMMA EndingBegins ==
  ASSUME Typed, CalmInv, handleAccept \/ handleDiscard
  PROVE  CalmInv'
<1> DEFINE u == currentSessionId
<1>1. /\ UNCHANGED <<work, edited, source, handled, confirmed, sse, dom, currentSessionId,
                      observer, arrived>>
      /\ state' \in {"SAVING", state} /\ arrived
      /\ (stored' = stored \/ stored'.id = u) /\ pendingAccepted'.id \in {pendingAccepted.id, u}
      /\ u # None /\ u \in Sessions
      /\ \E k \in {"accept", "discard"} : calls' = calls \cup {Call(k, u)}
  BY DEF handleAccept, handleDiscard, Enter, Saved, serverVars, tabVars, storage, CalmInv, ModeInv,
         Typed, TabTyped, PageTyped
<1>2. PICK k \in {"accept", "discard"} : calls' = calls \cup {Call(k, u)}
  BY <1>1
<1> HIDE DEF u
<1>3. \A l, t : Call(l, t) \in calls' <=> Call(l, t) \in calls \/ (l = k /\ t = u)
  BY <1>2, CallFacts
<1>4. Todo' = Todo /\ u = currentSessionId
  BY <1>1 DEF Todo, u
<1>5. \A t \in Sessions :
        /\ (Fresh(t)' <=> Fresh(t))
        /\ (Carried(t)' <=> Carried(t))
        /\ t # u => (Ending(t)' <=> Ending(t))
        /\ (Capturing(t)' <=> Capturing(t))
  BY <1>1, <1>3, <1>4 DEF Fresh, Carried, Capturing, Ending
<1>6. ~ Fresh(u)
  BY <1>1, <1>4 DEF CalmInv, FreshIsNew
<1>7. ModeInv'
  BY <1>1, <1>3 DEF CalmInv, ModeInv
<1>8. GeneratedOnce'
  BY <1>4, <1>5 DEF CalmInv, GeneratedOnce
<1>9. FreshIsNew'
  BY <1>1, <1>4, <1>5, <1>6 DEF CalmInv, FreshIsNew
<1>10. EndedIsGone'
  BY <1>1, <1>5 DEF CalmInv, EndedIsGone, Gone
<1>11. EndsInOrder'
  BY <1>1, <1>4 DEF CalmInv, EndsInOrder
<1>12. CurrentIsFirst'
  BY <1>1, <1>4, <1>5 DEF CalmInv, CurrentIsFirst
<1>13. PostsAreCurrent'
  BY <1>1, <1>3, <1>4, <1>5, NoneFacts DEF CalmInv, PostsAreCurrent
<1>14. DiscardedStay'
  BY <1>1, <1>4, <1>5, NoneFacts DEF CalmInv, DiscardedStay
<1> QED BY <1>7, <1>8, <1>9, <1>10, <1>11, <1>12, <1>13, <1>14 DEF CalmInv

\* A post of s that reaches the server.
LEMMA PostsArrive ==
  ASSUME Typed, CalmInv, NEW s \in used, NEW k \in {"accept", "discard"},
         Call(k, s) \in calls,
         work' = Append(work, Message(k, s)), UNCHANGED <<edited, source>>,
         calls' = calls \ {Call(k, s)}
  PROVE  /\ \A t \in Sessions : (Fresh(t)' <=> Fresh(t)) /\ (Capturing(t)' <=> Capturing(t))
         /\ \A t \in Sessions : EndAsked(Todo, t)' <=> EndAsked(Todo, t) \/ t = s
         /\ \A t, u \in Sessions : GeneratesAfter(Todo, t, u) => GeneratesAfter(Todo, t, u)'
         /\ \A l, t : Call(l, t) \in calls' <=> Call(l, t) \in calls /\ ~ (l = k /\ t = s)
         /\ edited' => Head(work') = Head(work)
         /\ ~ Fresh(s)
         /\ GeneratedOnce' /\ EndsInOrder'
<1> DEFINE m == Message(k, s)
           p == <<m>>
<1>1. m \in Work /\ m.type # "generate"
  BY NoneFacts, MessageFacts DEF Work, Message, WorkTypes
<1>2. p \in Seq(Work) /\ ToSet(p) = {m} /\ work' = work \o p
  BY <1>1, WorkAppend DEF Typed, ServerTyped
<1>3. Todo' = Todo \o p /\ ToSet(Todo') = ToSet(Todo) \cup {m} /\ (edited' => Head(work') = Head(work))
  BY <1>2, TodoGrows DEF Typed, ServerTyped
<1>4. \A t : EndAsked(p, t) <=> t = s
  BY MessageFacts DEF EndAsked, Ends
<1>5. Todo \in Seq(Work)
  BY TodoTyped
<1>6. \A l, t : Call(l, t) \in calls' <=> Call(l, t) \in calls /\ ~ (l = k /\ t = s)
  BY CallFacts
<1>7. \A t : Message("generate", t) # m
  BY MessageFacts
<1> HIDE DEF m, p
<1>8. \A t \in Sessions : (Fresh(t)' <=> Fresh(t)) /\ (Capturing(t)' <=> Capturing(t))
  BY <1>3, <1>6, <1>7 DEF Fresh, Capturing
<1>9. \A t \in Sessions : EndAsked(Todo, t)' <=> EndAsked(Todo, t) \/ t = s
  BY <1>2, <1>3, <1>4, <1>5, ConcatFacts
<1>10. \A t, u \in Sessions : GeneratesAfter(Todo, t, u) => GeneratesAfter(Todo, t, u)'
  BY <1>2, <1>3, <1>5, ConcatFacts
<1>11. ~ Fresh(s)
  BY NoneFacts DEF CalmInv, FreshIsNew, Ending
<1>12. GeneratedOnce'
  <2>1. GeneratesOnce(Todo')
    BY <1>1, <1>2, <1>3, <1>5, OnceFacts DEF CalmInv, GeneratedOnce
  <2> QED BY <1>3, <1>7, <1>8, <2>1 DEF CalmInv, GeneratedOnce
<1>13. EndsInOrder'
  <2>1. ASSUME NEW x \in source, NEW t \in source, x < t, EndAsked(Todo', t)
        PROVE  EndsFirst(Todo', t, x)
    <3>0. x \in Sessions /\ t \in Sessions /\ x \in Nat /\ t \in Nat
      BY NoneFacts
    <3>1. CASE EndAsked(Todo, t)
      <4>1. EndsFirst(Todo, t, x)
        BY <2>1, <3>1 DEF CalmInv, EndsInOrder
      <4> QED BY <1>2, <1>3, <1>5, <4>1, ConcatFacts
    <3>2. CASE ~ EndAsked(Todo, t)
      <4>1. t = s
        BY <1>9, <2>1, <3>0, <3>2
      <4>2. currentSessionId = s
        BY <3>2, <4>1 DEF CalmInv, PostsAreCurrent
      <4>3. ~ EndAsked(Todo, x)
        <5>1. x # s /\ ~ (s < x) /\ s # None
          BY <2>1, <3>0, <4>1, NoneFacts
        <5>2. ~ Capturing(s) /\ ~ GeneratesAfter(Todo, s, x)
          <6>1. GeneratesAfter(Todo, s, x) => Message("generate", s) \in ToSet(Todo)
            BY <1>5, ToSetIs DEF GeneratesAfter
          <6> QED BY <1>11, <6>1 DEF Fresh
        <5> QED BY <4>2, <5>1, <5>2 DEF CalmInv, CurrentIsFirst
      <4>4. ~ EndAsked(Todo', x)
        BY <1>9, <2>1, <3>0, <4>1, <4>3
      <4> QED BY <1>2, <1>3, <1>5, <2>1, <4>4, ConcatFacts
    <3> QED BY <3>1, <3>2
  <2> QED BY <2>1 DEF EndsInOrder
<1> QED BY <1>3, <1>6, <1>8, <1>9, <1>10, <1>11, <1>12, <1>13

LEMMA AcceptPostedCalm ==
  ASSUME Typed, CalmInv, trouble' = None, NEW s \in Sessions, AcceptPosted(s)
  PROVE  CalmInv'
<1>1. /\ Call("accept", s) \in calls /\ s \in used
      /\ work' = Append(work, Message("accept", s)) /\ calls' = calls \ {Call("accept", s)}
      /\ UNCHANGED <<edited, source, handled, confirmed, sse, dom, currentSessionId, stored,
                      observer, arrived, state, pendingAccepted>>
  BY CallFacts, SessionsAssumption DEF AcceptPosted, storage, Suffers, Typed, CallsTyped
<1>2. /\ \A t \in Sessions : (Fresh(t)' <=> Fresh(t)) /\ (Capturing(t)' <=> Capturing(t))
      /\ \A t \in Sessions : EndAsked(Todo, t)' <=> EndAsked(Todo, t) \/ t = s
      /\ \A t, u \in Sessions : GeneratesAfter(Todo, t, u) => GeneratesAfter(Todo, t, u)'
      /\ \A l, t : Call(l, t) \in calls' <=> Call(l, t) \in calls /\ ~ (l = "accept" /\ t = s)
      /\ edited' => Head(work') = Head(work)
      /\ ~ Fresh(s)
      /\ GeneratedOnce' /\ EndsInOrder'
  BY <1>1, PostsArrive
<1>3. ModeInv'
  BY <1>1, <1>2 DEF CalmInv, ModeInv
<1>4. FreshIsNew'
  BY <1>1, <1>2 DEF CalmInv, FreshIsNew, Ending
<1>5. EndedIsGone'
  BY <1>1, <1>2 DEF CalmInv, EndedIsGone, Carried, Gone
<1>6. currentSessionId = None \/ currentSessionId \in Sessions
  BY DEF Typed, TabTyped, PageTyped
<1>7. CurrentIsFirst'
  <2>1. ASSUME NEW t \in source \ {currentSessionId}, currentSessionId # None, EndAsked(Todo', t)
        PROVE  \/ currentSessionId \in source /\ currentSessionId < t
               \/ Capturing(currentSessionId)'
               \/ GeneratesAfter(Todo', currentSessionId, t)
    <3>1. EndAsked(Todo, t)
      BY <1>1, <1>2, <2>1, NoneFacts DEF CalmInv, PostsAreCurrent
    <3>2. currentSessionId \in Sessions /\ t \in Sessions /\ currentSessionId' = currentSessionId
      BY <1>1, <1>6, <2>1, NoneFacts
    <3>3. \/ currentSessionId \in source /\ currentSessionId < t
          \/ Capturing(currentSessionId)
          \/ GeneratesAfter(Todo, currentSessionId, t)
      BY <2>1, <3>1 DEF CalmInv, CurrentIsFirst
    <3>4. Capturing(currentSessionId) => Capturing(currentSessionId)'
      BY <1>2, <3>2
    <3>5. GeneratesAfter(Todo, currentSessionId, t) => GeneratesAfter(Todo', currentSessionId, t)
      BY <1>2, <3>2
    <3> QED BY <3>3, <3>4, <3>5
  <2> QED BY <1>1, <2>1 DEF CurrentIsFirst
<1>8. PostsAreCurrent'
  <2>1. ASSUME NEW t \in source
        PROVE  /\ Call("discard", t) \in calls' => currentSessionId = t
               /\ Call("accept", t) \in calls' /\ currentSessionId # t =>
                    /\ EndAsked(Todo', t)
                    /\ \/ currentSessionId = None \/ Capturing(currentSessionId)'
                       \/ GeneratesAfter(Todo', currentSessionId, t)
    <3>1. t \in Sessions /\ currentSessionId' = currentSessionId
      BY <1>1, NoneFacts
    <3>2. /\ Call("discard", t) \in calls' <=> Call("discard", t) \in calls
          /\ Call("accept", t) \in calls' => Call("accept", t) \in calls
      BY <1>2
    <3>3. /\ Call("discard", t) \in calls => currentSessionId = t
          /\ Call("accept", t) \in calls /\ currentSessionId # t =>
               /\ EndAsked(Todo, t)
               /\ \/ currentSessionId = None \/ Capturing(currentSessionId)
                  \/ GeneratesAfter(Todo, currentSessionId, t)
      BY DEF CalmInv, PostsAreCurrent
    <3>4. EndAsked(Todo, t) => EndAsked(Todo', t)
      BY <1>2, <3>1
    <3>5. currentSessionId # None /\ Capturing(currentSessionId) => Capturing(currentSessionId)'
      BY <1>2, <1>6, <3>1
    <3>6. currentSessionId # None /\ GeneratesAfter(Todo, currentSessionId, t)
            => GeneratesAfter(Todo', currentSessionId, t)
      BY <1>2, <1>6, <3>1
    <3> QED BY <3>2, <3>3, <3>4, <3>5, <3>6
  <2> QED BY <1>1, <2>1 DEF PostsAreCurrent
<1>9. DiscardedStay'
  BY <1>1, <1>2, NoneFacts DEF CalmInv, DiscardedStay
<1> QED BY <1>2, <1>3, <1>4, <1>5, <1>7, <1>8, <1>9 DEF CalmInv

LEMMA DiscardPostedCalm ==
  ASSUME Typed, CalmInv, trouble' = None, NEW s \in Sessions, DiscardPosted(s)
  PROVE  CalmInv'
<1>1. /\ Call("discard", s) \in calls /\ s \in used
      /\ work' = Append(work, Message("discard", s)) /\ calls' = calls \ {Call("discard", s)}
      /\ UNCHANGED <<edited, source, sse, dom, arrived, pendingAccepted>>
      /\ handled' = (IF currentSessionId = None THEN handled ELSE currentSessionId)
      /\ confirmed' = confirmed \cup {s} /\ currentSessionId \in {None, s}
      /\ currentSessionId' = None /\ observer' = None /\ state' = "PICKING" /\ stored'.id = None
      /\ s # None
  BY CallFacts, SessionsAssumption
  DEF DiscardPosted, storage, Suffers, Drops, cleanup, NoSession, Typed, CallsTyped
<1>2. /\ \A t \in Sessions : (Fresh(t)' <=> Fresh(t)) /\ (Capturing(t)' <=> Capturing(t))
      /\ \A t \in Sessions : EndAsked(Todo, t)' <=> EndAsked(Todo, t) \/ t = s
      /\ \A t, u \in Sessions : GeneratesAfter(Todo, t, u) => GeneratesAfter(Todo, t, u)'
      /\ \A l, t : Call(l, t) \in calls' <=> Call(l, t) \in calls /\ ~ (l = "discard" /\ t = s)
      /\ edited' => Head(work') = Head(work)
      /\ ~ Fresh(s)
      /\ GeneratedOnce' /\ EndsInOrder'
  BY <1>1, PostsArrive
<1>3. ModeInv'
  BY <1>1, <1>2 DEF CalmInv, ModeInv
<1>4. FreshIsNew'
  BY <1>1, <1>2, SessionsAssumption DEF CalmInv, FreshIsNew, Ending
<1>5. EndedIsGone'
  BY <1>1, <1>2 DEF CalmInv, EndedIsGone, Carried, Gone
<1>6. CurrentIsFirst'
  BY <1>1 DEF CurrentIsFirst
<1>7. PostsAreCurrent'
  BY <1>1, <1>2, NoneFacts DEF CalmInv, PostsAreCurrent
<1>8. DiscardedStay'
  <2>1. ASSUME NEW r \in confirmed', r \in source
        PROVE  EndAsked(Todo', r) /\ (handled' = r \/ \E u \in source : u < r)
    <3>0. r \in Sessions
      BY <2>1, NoneFacts
    <3>1. CASE r = s
      <4>1. currentSessionId = s
        BY <1>1, <2>1, <3>1 DEF CalmInv, PostsAreCurrent
      <4> QED BY <1>1, <1>2, <3>1, <4>1
    <3>2. CASE r # s
      <4>1. r \in confirmed /\ EndAsked(Todo, r) /\ (handled = r \/ \E u \in source : u < r)
        BY <1>1, <2>1, <3>2 DEF CalmInv, DiscardedStay
      <4>2. CASE currentSessionId = None
        BY <1>1, <1>2, <3>0, <4>1, <4>2
      <4>3. CASE currentSessionId = s
        <5>1. ~ Capturing(s) /\ ~ GeneratesAfter(Todo, s, r)
          <6>1. GeneratesAfter(Todo, s, r) => Message("generate", s) \in ToSet(Todo)
            BY TodoTyped, ToSetIs DEF GeneratesAfter
          <6> QED BY <1>2, <6>1 DEF Fresh
        <5>2. s \in source /\ s < r
          BY <1>1, <2>1, <3>2, <4>1, <4>3, <5>1 DEF CalmInv, CurrentIsFirst
        <5> QED BY <1>2, <3>0, <4>1, <5>2
      <4> QED BY <1>1, <4>2, <4>3
    <3> QED BY <3>1, <3>2
  <2>2. \A r \in confirmed' : r \in Sessions /\ r # None /\ ~ Fresh(r)'
    BY <1>1, <1>2, NoneFacts DEF CalmInv, DiscardedStay
  <2> QED BY <1>1, <2>1, <2>2 DEF DiscardedStay
<1> QED BY <1>2, <1>3, <1>4, <1>5, <1>6, <1>7, <1>8 DEF CalmInv

\* A request that does not end a session.
LEMMA RequestArrives ==
  ASSUME Typed, NEW m \in Work, m.type \in {"generate", "steer"},
         work' = Append(work, m), edited' = edited
  PROVE  /\ Todo' = Todo \o <<m>> /\ ToSet(Todo') = ToSet(Todo) \cup {m}
         /\ edited' => Head(work') = Head(work)
         /\ \A t : EndAsked(Todo', t) <=> EndAsked(Todo, t)
         /\ \A t, u : EndsFirst(Todo, t, u) => EndsFirst(Todo', t, u)
         /\ \A t, u : GeneratesAfter(Todo, u, t) => GeneratesAfter(Todo', u, t)
         /\ \A t, u : m = Message("generate", u) /\ EndAsked(Todo, t)
                        => GeneratesAfter(Todo', u, t)
<1> DEFINE p == <<m>>
<1>1. p \in Seq(Work) /\ ToSet(p) = {m} /\ work' = work \o p
  BY WorkAppend DEF Typed, ServerTyped
<1>2. Todo' = Todo \o p /\ ToSet(Todo') = ToSet(Todo) \cup {m} /\ (edited' => Head(work') = Head(work))
  BY <1>1, TodoGrows DEF Typed, ServerTyped
<1>3. \A t : ~ EndAsked(p, t)
  BY MessageFacts DEF EndAsked, Ends
<1>4. Todo \in Seq(Work)
  BY TodoTyped
<1> HIDE DEF p
<1>5. \A t : EndAsked(Todo', t) <=> EndAsked(Todo, t)
  BY <1>1, <1>2, <1>3, <1>4, ConcatFacts
<1>6. \A t, u : EndsFirst(Todo, t, u) => EndsFirst(Todo', t, u)
  BY <1>1, <1>2, <1>4, ConcatFacts
<1>7. \A t, u : GeneratesAfter(Todo, u, t) => GeneratesAfter(Todo', u, t)
  BY <1>1, <1>2, <1>4, ConcatFacts
<1>8. \A t, u : m = Message("generate", u) /\ EndAsked(Todo, t) => GeneratesAfter(Todo', u, t)
  BY <1>1, <1>2, <1>4, ConcatFacts
<1> QED BY <1>1, <1>2, <1>5, <1>6, <1>7, <1>8 DEF p

LEMMA captureCalm ==
  ASSUME Typed, CalmInv, trouble' = None, NEW s \in Sessions, captureAndEmit(s)
  PROVE  CalmInv'
<1> DEFINE m == Message("generate", s)
<1>1. /\ Call("capture", s) \in calls
      /\ work' = Append(work, m) /\ calls' = calls \ {Call("capture", s)}
      /\ UNCHANGED <<edited, source, handled, confirmed, sse, dom, currentSessionId, stored,
                      observer, arrived, state, pendingAccepted>>
  BY SessionsAssumption, BoundsAssumption DEF captureAndEmit, tabVars, storage, Suffers
<1>2. m \in Work /\ m.type = "generate"
  BY DEF Message, Work, WorkTypes
<1>3. /\ Todo' = Todo \o <<m>> /\ ToSet(Todo') = ToSet(Todo) \cup {m}
      /\ edited' => Head(work') = Head(work)
      /\ \A t : EndAsked(Todo', t) <=> EndAsked(Todo, t)
      /\ \A t, u : EndsFirst(Todo, t, u) => EndsFirst(Todo', t, u)
      /\ \A t, u : GeneratesAfter(Todo, u, t) => GeneratesAfter(Todo', u, t)
      /\ \A t : EndAsked(Todo, t) => GeneratesAfter(Todo', s, t)
  BY <1>1, <1>2, RequestArrives
<1>4. \A l, t : Call(l, t) \in calls' <=> Call(l, t) \in calls /\ ~ (l = "capture" /\ t = s)
  BY <1>1, CallFacts
<1>5. \A t : Message("generate", t) = m <=> t = s
  BY MessageFacts
<1>6. m \notin ToSet(Todo)
  BY <1>1 DEF CalmInv, GeneratedOnce, Capturing
<1> HIDE DEF m
<1>7. \A t : /\ (Capturing(t)' <=> Call("capture", t) \in calls /\ t # s)
             /\ (Ending(t)' <=> Ending(t)) /\ (Carried(t)' <=> Carried(t))
  BY <1>1, <1>3, <1>4 DEF Capturing, Ending, Carried
<1>8. \A t : Fresh(t)' <=> Fresh(t)
  BY <1>1, <1>3, <1>5, <1>7 DEF Fresh, Capturing
<1>9. ModeInv'
  BY <1>1, <1>4 DEF CalmInv, ModeInv
<1>10. GeneratedOnce'
  <2>1. GeneratesOnce(Todo')
    BY <1>2, <1>3, <1>6, TodoTyped, OnceFacts DEF CalmInv, GeneratedOnce
  <2> QED BY <1>3, <1>5, <1>7, <2>1 DEF CalmInv, GeneratedOnce, Capturing
<1>11. FreshIsNew'
  BY <1>1, <1>3, <1>7, <1>8 DEF CalmInv, FreshIsNew
<1>12. EndedIsGone'
  BY <1>1, <1>7, <1>8 DEF CalmInv, EndedIsGone, Gone
<1>13. EndsInOrder'
  BY <1>1, <1>3 DEF CalmInv, EndsInOrder
<1>14. CurrentIsFirst'
  <2>1. ASSUME NEW t \in source \ {currentSessionId}, currentSessionId # None, EndAsked(Todo', t)
        PROVE  \/ currentSessionId \in source /\ currentSessionId < t
               \/ Call("capture", currentSessionId) \in calls'
               \/ GeneratesAfter(Todo', currentSessionId, t)
    <3>1. EndAsked(Todo, t)
      BY <1>3, <2>1
    <3>2. \/ currentSessionId \in source /\ currentSessionId < t
          \/ Call("capture", currentSessionId) \in calls
          \/ GeneratesAfter(Todo, currentSessionId, t)
      BY <2>1, <3>1 DEF CalmInv, CurrentIsFirst, Capturing
    <3> QED BY <1>3, <1>4, <3>1, <3>2
  <2> QED BY <1>1, <2>1 DEF CurrentIsFirst, Capturing
<1>15. PostsAreCurrent'
  <2>1. ASSUME NEW t \in source
        PROVE  /\ Call("discard", t) \in calls' => currentSessionId = t
               /\ Call("accept", t) \in calls' /\ currentSessionId # t =>
                    /\ EndAsked(Todo', t)
                    /\ \/ currentSessionId = None \/ Call("capture", currentSessionId) \in calls'
                       \/ GeneratesAfter(Todo', currentSessionId, t)
    <3>1. /\ Call("discard", t) \in calls => currentSessionId = t
          /\ Call("accept", t) \in calls /\ currentSessionId # t =>
               /\ EndAsked(Todo, t)
               /\ \/ currentSessionId = None \/ Call("capture", currentSessionId) \in calls
                  \/ GeneratesAfter(Todo, currentSessionId, t)
      BY DEF CalmInv, PostsAreCurrent, Capturing
    <3> QED BY <1>3, <1>4, <3>1
  <2> QED BY <1>1, <2>1 DEF PostsAreCurrent, Capturing
<1>16. DiscardedStay'
  BY <1>1, <1>3, <1>8 DEF CalmInv, DiscardedStay
<1> QED BY <1>9, <1>10, <1>11, <1>12, <1>13, <1>14, <1>15, <1>16 DEF CalmInv

LEMMA SteerCalm ==
  ASSUME Typed, CalmInv, trouble' = None, NEW s \in Sessions, submitSteerMessage(s)
  PROVE  CalmInv'
<1> DEFINE m == Message("steer", s)
<1>1. /\ work' = Append(work, m)
      /\ UNCHANGED <<edited, source, handled, confirmed, sse, dom, currentSessionId, stored,
                      observer, arrived, state, pendingAccepted, calls>>
  BY SessionsAssumption, BoundsAssumption DEF submitSteerMessage, tabVars, storage, Suffers
<1>2. m \in Work /\ m.type = "steer"
  BY DEF Message, Work, WorkTypes
<1>3. /\ Todo' = Todo \o <<m>> /\ ToSet(Todo') = ToSet(Todo) \cup {m}
      /\ edited' => Head(work') = Head(work)
      /\ \A t : EndAsked(Todo', t) <=> EndAsked(Todo, t)
      /\ \A t, u : EndsFirst(Todo, t, u) => EndsFirst(Todo', t, u)
      /\ \A t, u : GeneratesAfter(Todo, u, t) => GeneratesAfter(Todo', u, t)
  BY <1>1, <1>2, RequestArrives
<1>4. \A t : Message("generate", t) # m
  BY MessageFacts
<1> HIDE DEF m
<1>5. \A t : (Ending(t)' <=> Ending(t)) /\ (Carried(t)' <=> Carried(t)) /\ (Fresh(t)' <=> Fresh(t))
  BY <1>1, <1>3, <1>4 DEF Capturing, Ending, Carried, Fresh
<1>6. ModeInv'
  BY <1>1 DEF CalmInv, ModeInv
<1>7. GeneratedOnce'
  <2>1. \A p \in Seq(Work) : (\A n \in ToSet(p) : n.type # "generate") => GeneratesOnce(Todo \o p)
    BY TodoTyped, OnceFacts DEF CalmInv, GeneratedOnce
  <2>2. <<m>> \in Seq(Work) /\ ToSet(<<m>>) = {m}
    BY <1>2 DEF ToSet
  <2>3. GeneratesOnce(Todo')
    BY <1>2, <1>3, <2>1, <2>2
  <2> QED BY <1>1, <1>3, <1>4, <2>3 DEF CalmInv, GeneratedOnce, Capturing
<1>8. FreshIsNew'
  BY <1>1, <1>3, <1>5 DEF CalmInv, FreshIsNew
<1>9. EndedIsGone'
  BY <1>1, <1>5 DEF CalmInv, EndedIsGone, Gone
<1>10. EndsInOrder'
  BY <1>1, <1>3 DEF CalmInv, EndsInOrder
<1>11. CurrentIsFirst'
  BY <1>1, <1>3 DEF CalmInv, CurrentIsFirst, Capturing
<1>12. PostsAreCurrent'
  BY <1>1, <1>3 DEF CalmInv, PostsAreCurrent, Capturing
<1>13. DiscardedStay'
  BY <1>1, <1>3, <1>5 DEF CalmInv, DiscardedStay
<1> QED BY <1>6, <1>7, <1>8, <1>9, <1>10, <1>11, <1>12, <1>13 DEF CalmInv

\* When the current session is gone, no end is asked for any more.
LEMMA GoneIsAlone ==
  ASSUME Typed, CalmInv, NEW s \in Sessions, Gone(s), currentSessionId = s
  PROVE  confirmed \cap source = {}
<1>1. ~ Capturing(s) /\ \A t : ~ GeneratesAfter(Todo, s, t)
  <2>1. \A t : GeneratesAfter(Todo, s, t) => Message("generate", s) \in ToSet(Todo)
    BY TodoTyped, ToSetIs DEF GeneratesAfter
  <2> QED BY <2>1 DEF Gone, Fresh
<1>2. ASSUME NEW t \in confirmed \cap source PROVE FALSE
  <2>1. EndAsked(Todo, t) /\ t # s
    BY <1>2 DEF CalmInv, DiscardedStay
  <2>2. s # None /\ s \notin source
    BY SessionsAssumption DEF Gone
  <2> QED BY <1>1, <1>2, <2>1, <2>2 DEF CalmInv, CurrentIsFirst
<1> QED BY <1>2

\* A step that leaves requests and posts alone and only forgets.
LEMMA QuietCalm ==
  ASSUME Typed, CalmInv, Quiet, ModeInv',
         currentSessionId' \in {currentSessionId, None},
         currentSessionId \in source => currentSessionId' = currentSessionId,
         dom' \subseteq dom, confirmed' = confirmed, arrived' = arrived,
         pendingAccepted'.id \in {pendingAccepted.id, None},
         stored' = stored \/ stored'.id = None,
         \A s \in Sessions : Carried(s)' => Gone(s),
         handled' = handled \/ confirmed \cap source = {}
  PROVE  CalmInv'
<1>1. /\ Todo' = Todo /\ \A s \in Sessions : Fresh(s)' <=> Fresh(s)
      /\ GeneratedOnce' /\ EndsInOrder' /\ CurrentIsFirst' /\ PostsAreCurrent'
  BY QuietSteps
<1>2. source' = source /\ \A s \in Sessions : Ending(s)' <=> Ending(s)
  BY DEF Quiet, Ending
<1>3. FreshIsNew'
  <2>1. \A s \in Sessions : s # None
    BY SessionsAssumption
  <2> QED BY <1>1, <1>2, <2>1 DEF CalmInv, FreshIsNew
<1>4. EndedIsGone'
  BY <1>1, <1>2 DEF EndedIsGone, Gone
<1>5. DiscardedStay'
  BY <1>1, <1>2, NoneFacts DEF CalmInv, DiscardedStay
<1> QED BY <1>1, <1>3, <1>4, <1>5 DEF CalmInv

LEMMA CleanupCalm ==
  ASSUME Typed, CalmInv, trouble' = None, NEW s \in Sessions, AcceptCleanup(s)
  PROVE  CalmInv'
<1>1. /\ Call("cleanup", s) \in calls /\ calls' = calls \ {Call("cleanup", s)}
      /\ UNCHANGED <<work, edited, source, sse, arrived, handled, confirmed>>
      /\ \/ UNCHANGED <<state, currentSessionId, pendingAccepted, observer, stored, dom>>
         \/ /\ state' = "PICKING" /\ currentSessionId' = None /\ observer' = None
            /\ stored' = NoSession /\ pendingAccepted' = NoAccept /\ dom' = dom \ {s}
            /\ currentSessionId \in {None, s}
  BY SessionsAssumption DEF AcceptCleanup, cleanupAcceptedSession, Drops, serverVars, tabVars
<1>2. Todo' = Todo
  BY <1>1 DEF Todo
<1>3. \A l, t : Call(l, t) \in calls' <=> Call(l, t) \in calls /\ ~ (l = "cleanup" /\ t = s)
  BY <1>1, CallFacts
<1>4. Quiet
  BY <1>1, <1>2, <1>3 DEF Quiet
<1>5. \A t \in Sessions : Carried(t) => Gone(t)
  BY DEF CalmInv, EndedIsGone
<1>6. Gone(s)
  BY <1>1, <1>5 DEF Carried
<1>7. ModeInv'
  BY <1>1, <1>3 DEF CalmInv, ModeInv
<1>8. \A t \in Sessions : Carried(t)' => Gone(t)
  BY <1>1, <1>3, <1>5 DEF Carried
<1>9. /\ currentSessionId' \in {currentSessionId, None} /\ dom' \subseteq dom
      /\ currentSessionId \in source => currentSessionId' = currentSessionId
      /\ pendingAccepted'.id \in {pendingAccepted.id, None}
      /\ stored' = stored \/ stored'.id = None
  BY <1>1, <1>6, NoneFacts DEF Gone, NoAccept, NoSession
<1> QED BY <1>1, <1>4, <1>7, <1>8, <1>9, QuietCalm

LEMMA NoSourceCalls ==
  ASSUME CalmInv, NEW s \in Sessions, injectVariantsFromSource(s)
  PROVE  FALSE
  BY DEF injectVariantsFromSource, CalmInv, ModeInv

LEMMA ReceiveCalm ==
  ASSUME Typed, CalmInv, trouble' = None, Receive
  PROVE  CalmInv'
<1> DEFINE m == Head(sse)
<1>1. /\ m \in ToSet(sse) /\ ToSet(sse') \subseteq ToSet(sse)
      /\ m \in [type : AnswerTypes, id : used] /\ m.id \in Sessions
      /\ m = Message(m.type, m.id)
  <2>1. /\ ToSet(sse) = {Head(sse)} \cup ToSet(Tail(sse)) /\ Head(sse) \in ToSet(sse)
    BY ToSetFacts, Zenon DEF Receive, Typed, PageTyped
  <2>2. Head(sse) \in [type : AnswerTypes, id : used]
    BY <2>1 DEF Typed, PageTyped
  <2>3. sse' = Tail(sse)
    BY DEF Receive
  <2> QED BY <2>1, <2>2, <2>3, NoneFacts DEF Message
<1> HIDE DEF m
<1>2. UNCHANGED <<work, edited, source, dom>>
  BY DEF Receive, serverVars
<1>3. Todo' = Todo
  BY <1>2 DEF Todo
<1>4. \A t \in Sessions : Carried(t) => Gone(t)
  BY DEF CalmInv, EndedIsGone
<1>5. m.type # "error" /\ \A n \in ToSet(sse') : n.type # "error"
  BY <1>1 DEF CalmInv, ModeInv
<1>6. m.type \in {"complete", "discarded"} => Gone(m.id)
  BY <1>1, <1>4 DEF Carried
<1>7. ASSUME UNCHANGED <<currentSessionId, arrived, observer, stored, handled, confirmed, calls,
                         pendingAccepted>>,
             state' \in {state, "CYCLING"}, state' # state => arrived
      PROVE  CalmInv'
  <2>1. Quiet
    BY <1>2, <1>3, <1>7 DEF Quiet
  <2>2. ModeInv'
    BY <1>5, <1>7 DEF CalmInv, ModeInv
  <2>3. \A t \in Sessions : Carried(t)' => Gone(t)
    BY <1>1, <1>2, <1>4, <1>7 DEF Carried
  <2>4. currentSessionId' = currentSessionId /\ dom' \subseteq dom /\ pendingAccepted' = pendingAccepted
        /\ stored' = stored /\ handled' = handled /\ confirmed' = confirmed /\ arrived' = arrived
    BY <1>2, <1>7
  <2> QED BY <2>1, <2>2, <2>3, <2>4, QuietCalm
<1>8. CASE maybeCompleteSteer(m)
  <2>1. UNCHANGED <<tabVars, storage, calls, trouble>>
    BY <1>8 DEF Receive, m
  <2> QED BY <1>7, <2>1 DEF tabVars, storage
<1>9. CASE ~ maybeCompleteSteer(m)
  <2>0. (CASE m.type = "done" ->
               /\ OnDone(m)
               /\ UNCHANGED <<currentSessionId, arrived, pendingAccepted, observer, storage>>
           [] m.type = "complete" ->
               /\ maybeCompleteAcceptedSession(m)
               /\ UNCHANGED <<currentSessionId, arrived, observer, stored, confirmed, trouble>>
           [] m.type = "discarded" ->
               OnDiscarded(m) /\ UNCHANGED <<calls, trouble>>
           [] m.type = "error" ->
               /\ OnError(m)
               /\ UNCHANGED <<currentSessionId, arrived, observer, storage, calls, trouble>>
           [] OTHER -> UNCHANGED <<tabVars, storage, calls, trouble>>)
    BY <1>9 DEF Receive, m
  <2>1. CASE m.type = "done"
    <3>1. /\ OnDone(m)
          /\ UNCHANGED <<currentSessionId, arrived, pendingAccepted, observer, storage>>
      BY <2>0, <2>1
    <3>2. calls' = calls /\ state' \in {state, "CYCLING"} /\ (state' # state => arrived)
      BY <3>1, SessionsAssumption DEF OnDone, Suffers
    <3> QED BY <1>7, <3>1, <3>2 DEF storage
  <2>2. CASE m.type = "complete"
    <3>1. /\ maybeCompleteAcceptedSession(m)
          /\ UNCHANGED <<currentSessionId, arrived, observer, stored, confirmed>>
      BY <2>0, <2>2
    <3>2. /\ calls' \in {calls, calls \cup {Call("cleanup", m.id)}}
          /\ pendingAccepted'.id \in {pendingAccepted.id, None}
          /\ state' \in {state, "CONFIRMED"}
          /\ \/ handled' = handled
             \/ handled' = currentSessionId /\ currentSessionId = m.id
      BY <3>1 DEF maybeCompleteAcceptedSession, NoAccept, Typed, TabTyped
    <3>3. Gone(m.id)
      BY <1>6, <2>2
    <3>4. \A l, t : Call(l, t) \in calls' =>
                      Call(l, t) \in calls \/ (l = "cleanup" /\ t = m.id)
      BY <3>2, CallFacts
    <3>5. \A l, t : Call(l, t) \in calls => Call(l, t) \in calls'
      BY <3>2
    <3>6. Quiet
      BY <1>2, <1>3, <3>4, <3>5 DEF Quiet
    <3>7. ModeInv'
      BY <1>5, <3>1, <3>2, <3>4 DEF CalmInv, ModeInv
    <3>8. \A t \in Sessions : Carried(t)' => Gone(t)
      BY <1>1, <1>2, <1>4, <3>3, <3>4 DEF Carried
    <3>9. handled' = handled \/ confirmed \cap source = {}
      BY <1>1, <3>2, <3>3, GoneIsAlone
    <3> QED BY <1>2, <3>1, <3>2, <3>6, <3>7, <3>8, <3>9, QuietCalm
  <2>3. CASE m.type = "discarded"
    <3>1. OnDiscarded(m) /\ calls' = calls
      BY <2>0, <2>3
    <3>2. CASE m.id # currentSessionId
      BY <1>7, <3>1, <3>2 DEF OnDiscarded, tabVars, storage
    <3>3. CASE m.id = currentSessionId
      <4>1. /\ state' = "PICKING" /\ currentSessionId' = None /\ observer' = None
            /\ stored' = NoSession /\ UNCHANGED <<arrived, pendingAccepted, confirmed>>
        BY <3>1, <3>3 DEF OnDiscarded, cleanup
      <4>2. Gone(m.id)
        BY <1>6, <2>3
      <4>3. Quiet
        BY <1>2, <1>3, <3>1 DEF Quiet
      <4>4. ModeInv'
        BY <1>5, <3>1, <4>1 DEF CalmInv, ModeInv
      <4>5. \A t \in Sessions : Carried(t)' => Gone(t)
        BY <1>1, <1>2, <1>4, <3>1 DEF Carried
      <4>6. confirmed \cap source = {}
        BY <1>1, <3>3, <4>2, GoneIsAlone
      <4>7. currentSessionId \notin source /\ stored'.id = None
        BY <3>3, <4>1, <4>2 DEF Gone, NoSession
      <4> QED BY <1>2, <4>1, <4>3, <4>4, <4>5, <4>6, <4>7, QuietCalm
    <3> QED BY <3>2, <3>3
  <2>4. CASE m.type \in {"steer_done", "agent_done"}
    <3>1. UNCHANGED <<tabVars, storage, calls, trouble>>
      BY <2>0, <2>4
    <3> QED BY <1>7, <3>1 DEF tabVars, storage
  <2> QED BY <1>1, <1>5, <2>1, <2>2, <2>3, <2>4 DEF AnswerTypes
<1> QED BY <1>8, <1>9

\* The agent carries out the first request.
LEMMA EditsCalm ==
  ASSUME Typed, CalmInv, AgentEdits
  PROVE  CalmInv'
<1> DEFINE m == Head(work)
<1>1. /\ Todo = work /\ work # <<>> /\ Todo' = Tail(Todo) /\ m = Head(Todo)
      /\ UNCHANGED <<state, currentSessionId, arrived, pendingAccepted, observer, stored, handled,
                      confirmed, calls, sse, work, dom>>
  BY DEF AgentEdits, Todo, tabVars, storage, Typed, ServerTyped
<1>2. /\ Todo \in Seq(Work) /\ m \in Work /\ m = Message(m.type, m.id)
      /\ ToSet(Todo) = {m} \cup ToSet(Todo') /\ m.id \in Sessions /\ m.type \in WorkTypes
  <2>1. Todo \in Seq(Work) /\ m \in Work
    BY <1>1, TodoTyped
  <2>2. ToSet(Todo) = {Head(Todo)} \cup ToSet(Tail(Todo))
    BY <1>1, <2>1, ToSetFacts
  <2> QED BY <1>1, <2>1, <2>2 DEF Message, Work
<1>3. /\ \A t : EndAsked(Todo', t) => EndAsked(Todo, t)
      /\ \A t : EndAsked(Todo, t) /\ m \notin Ends(t) => EndAsked(Todo', t)
      /\ \A t, x : EndsFirst(Todo, t, x) => m \notin Ends(x)
      /\ \A t, x : EndsFirst(Todo, t, x) /\ m \notin Ends(t) => EndsFirst(Todo', t, x)
      /\ \A t, x : GeneratesAfter(Todo, x, t) /\ m \notin Ends(t) => GeneratesAfter(Todo', x, t)
  BY <1>1, <1>2, TailFacts
<1>4. Todo' \in Seq(Work) /\ \A t, x : ~ EndAsked(Todo', x) /\ EndAsked(Todo', t) => EndsFirst(Todo', t, x)
  <2>1. Todo' \in Seq(Work)
    BY <1>1, <1>2
  <2> QED BY <2>1, ConcatFacts
<1>5. \A t : (Capturing(t)' <=> Capturing(t)) /\ (Ending(t)' <=> Ending(t))
  BY <1>1 DEF Capturing, Ending
<1>6. GeneratedOnce'
  <2>1. GeneratesOnce(Todo')
    BY <1>1, <1>2, OnceFacts DEF CalmInv, GeneratedOnce
  <2> QED BY <1>2, <1>5, <2>1 DEF CalmInv, GeneratedOnce
<1>7. ModeInv'
  BY <1>1 DEF CalmInv, ModeInv
<1>8. \A t : Carried(t)' => Carried(t) \/ m \in Ends(t)
  BY <1>1 DEF Carried
<1>9. \A t, k : m \in Ends(t) <=> t = m.id /\ m.type \in {"accept", "discard"}
  BY <1>2, MessageFacts DEF Ends
<1>10. \A t : Fresh(t)' => Fresh(t)
  BY <1>2, <1>5 DEF Fresh
<1>11. currentSessionId = None \/ currentSessionId \in Sessions
  BY DEF Typed, TabTyped, PageTyped
<1>12. source' = CASE m.type = "generate" -> source \cup {m.id}
                   [] m.type \in {"accept", "discard"} -> source \ {m.id}
                   [] OTHER -> source
  BY DEF AgentEdits
<1> HIDE DEF m
<1>13. CASE m.type = "generate"
  <2>0. PICK s \in Sessions : s = m.id
    BY <1>2
  <2>1. source' = source \cup {s} /\ s \in Sessions /\ \A t : m \notin Ends(t)
    BY <1>9, <1>12, <1>13, <2>0
  <2>2. /\ Fresh(s) /\ m = Message("generate", s)
        /\ s \notin source \cup dom \cup confirmed
        /\ ~ Ending(s) /\ ~ EndAsked(Todo, s)
    BY <1>2, <1>13, <2>0 DEF Fresh, CalmInv, FreshIsNew
  <2>3. ~ Fresh(s)'
    <3>1. m \notin ToSet(Todo')
      BY <1>1, <1>2, <1>13, OnceFacts DEF CalmInv, GeneratedOnce
    <3>2. ~ Capturing(s)
      BY <1>2, <2>1, <2>2 DEF CalmInv, GeneratedOnce
    <3> QED BY <1>5, <2>2, <3>1, <3>2 DEF Fresh
  <2>4. FreshIsNew'
    BY <1>1, <1>3, <1>5, <1>10, <2>1, <2>3 DEF CalmInv, FreshIsNew
  <2>5. EndedIsGone'
    BY <1>8, <1>10, <2>1, <2>2 DEF CalmInv, EndedIsGone, Gone
  <2>6. EndsInOrder'
    <3>1. ASSUME NEW x \in source', NEW t \in source', x < t, EndAsked(Todo', t)
          PROVE  EndsFirst(Todo', t, x)
      <4>1. t \in source /\ EndAsked(Todo, t)
        BY <1>3, <2>1, <2>2, <3>1
      <4>2. CASE x = s
        BY <1>3, <1>4, <2>2, <3>1, <4>2
      <4>3. CASE x # s
        BY <1>3, <2>1, <3>1, <4>1, <4>3 DEF CalmInv, EndsInOrder
      <4> QED BY <4>2, <4>3
    <3> QED BY <3>1 DEF EndsInOrder
  <2>7. CurrentIsFirst'
    <3>1. ASSUME NEW t \in source' \ {currentSessionId}, currentSessionId # None, EndAsked(Todo', t)
          PROVE  \/ currentSessionId \in source' /\ currentSessionId < t
                 \/ Call("capture", currentSessionId) \in calls
                 \/ GeneratesAfter(Todo', currentSessionId, t)
      <4>1. t \in source /\ EndAsked(Todo, t)
        BY <1>3, <2>1, <2>2, <3>1
      <4>2. \/ currentSessionId \in source /\ currentSessionId < t
            \/ Call("capture", currentSessionId) \in calls
            \/ GeneratesAfter(Todo, currentSessionId, t)
        BY <3>1, <4>1 DEF CalmInv, CurrentIsFirst, Capturing
      <4> QED BY <1>3, <2>1, <4>2
    <3> QED BY <1>1, <3>1 DEF CurrentIsFirst, Capturing
  <2>8. PostsAreCurrent'
    BY <1>1, <1>3, <2>1, <2>2 DEF CalmInv, PostsAreCurrent, Capturing, Ending
  <2>9. DiscardedStay'
    BY <1>1, <1>3, <1>10, <2>1, <2>2 DEF CalmInv, DiscardedStay
  <2> QED BY <1>6, <1>7, <2>4, <2>5, <2>6, <2>7, <2>8, <2>9 DEF CalmInv
<1>14. CASE m.type \in {"accept", "discard"}
  <2>0. PICK s \in Sessions : s = m.id
    BY <1>2
  <2>1. /\ source' = source \ {s} /\ s \in Sessions /\ m \in Ends(s)
        /\ \A t : t # s => m \notin Ends(t)
    BY <1>9, <1>12, <1>14, <2>0
  <2>2. EndAsked(Todo, s)
    <3>1. 1 \in 1..Len(Todo) /\ Todo[1] = m
      BY <1>1, <1>2
    <3> QED BY <2>1, <3>1 DEF EndAsked
  <2>3. ~ Fresh(s)
    BY <2>1, <2>2 DEF CalmInv, FreshIsNew
  <2>4. FreshIsNew'
    BY <1>1, <1>3, <1>5, <1>10, <2>1 DEF CalmInv, FreshIsNew
  <2>5. EndedIsGone'
    BY <1>8, <1>10, <2>1, <2>3 DEF CalmInv, EndedIsGone, Gone
  <2>6. EndsInOrder'
    BY <1>3, <2>1 DEF CalmInv, EndsInOrder
  <2>7. ASSUME NEW t \in source, t # s, EndAsked(Todo, t), s \in source
        PROVE  ~ s < t
    BY <1>3, <2>1, <2>7 DEF CalmInv, EndsInOrder
  <2>8. CurrentIsFirst'
    <3>1. ASSUME NEW t \in source' \ {currentSessionId}, currentSessionId # None, EndAsked(Todo', t)
          PROVE  \/ currentSessionId \in source' /\ currentSessionId < t
                 \/ Call("capture", currentSessionId) \in calls
                 \/ GeneratesAfter(Todo', currentSessionId, t)
      <4>1. t \in source /\ t # s /\ EndAsked(Todo, t)
        BY <1>3, <2>1, <3>1
      <4>2. \/ currentSessionId \in source /\ currentSessionId < t
            \/ Call("capture", currentSessionId) \in calls
            \/ GeneratesAfter(Todo, currentSessionId, t)
        BY <3>1, <4>1 DEF CalmInv, CurrentIsFirst, Capturing
      <4> QED BY <1>3, <2>1, <2>7, <4>1, <4>2
    <3> QED BY <1>1, <3>1 DEF CurrentIsFirst, Capturing
  <2>9. PostsAreCurrent'
    BY <1>1, <1>3, <2>1 DEF CalmInv, PostsAreCurrent, Capturing
  <2>10. DiscardedStay'
    BY <1>1, <1>3, <1>10, <2>1, <2>7 DEF CalmInv, DiscardedStay
  <2> QED BY <1>6, <1>7, <2>4, <2>5, <2>6, <2>8, <2>9, <2>10 DEF CalmInv
<1>15. CASE m.type = "steer"
  <2>1. source' = source /\ \A t : m \notin Ends(t)
    BY <1>9, <1>12, <1>15
  <2>2. FreshIsNew'
    BY <1>1, <1>3, <1>5, <1>10, <2>1 DEF CalmInv, FreshIsNew
  <2>3. EndedIsGone'
    BY <1>8, <1>10, <2>1 DEF CalmInv, EndedIsGone, Gone
  <2>4. EndsInOrder'
    BY <1>3, <2>1 DEF CalmInv, EndsInOrder
  <2>5. CurrentIsFirst'
    BY <1>1, <1>3, <2>1 DEF CalmInv, CurrentIsFirst, Capturing
  <2>6. PostsAreCurrent'
    BY <1>1, <1>3, <2>1 DEF CalmInv, PostsAreCurrent, Capturing
  <2>7. DiscardedStay'
    BY <1>1, <1>3, <1>10, <2>1 DEF CalmInv, DiscardedStay
  <2> QED BY <1>6, <1>7, <2>2, <2>3, <2>4, <2>5, <2>6, <2>7 DEF CalmInv
<1> QED BY <1>2, <1>13, <1>14, <1>15 DEF WorkTypes

\* An answer more: that of an end once it is carried out.
LEMMA OneMoreAnswer ==
  ASSUME Typed, CalmInv, work # <<>>, NEW type \in AnswerTypes \ {"error"},
         type \in {"complete", "discarded"} => edited /\ Head(work).type \in {"accept", "discard"},
         sse' = Append(sse, Message(type, Head(work).id)),
         Todo' = Todo, edited' => edited /\ work' = work,
         UNCHANGED <<state, currentSessionId, arrived, pendingAccepted, observer, stored, handled,
                     confirmed, calls, source, dom>>
  PROVE  CalmInv'
<1> DEFINE m == Message(type, Head(work).id)
<1>1. Head(work) \in Work /\ Head(work) = Message(Head(work).type, Head(work).id)
  <2>1. Head(work) \in Work
    BY TodoTyped
  <2> QED BY <2>1 DEF Message, Work
<1>2. m \in Answers /\ m.type = type /\ m.id = Head(work).id
  BY <1>1 DEF Message, Work, Answers
<1>3. \A t : m \in {Message("complete", t), Message("discarded", t)} => edited /\ Head(work) \in Ends(t)
  BY <1>1, MessageFacts DEF Ends
<1> HIDE DEF m
<1>4. ToSet(sse') = ToSet(sse) \cup {m}
  BY <1>2, AnswerAppend DEF Typed, PageTyped, m
<1>5. Quiet
  BY DEF Quiet
<1>6. ModeInv'
  BY <1>2, <1>4 DEF CalmInv, ModeInv
<1>7. \A t \in Sessions : Carried(t)' => Gone(t)
  <2>1. \A t : Carried(t)' => Carried(t)
    BY <1>3, <1>4 DEF Carried
  <2> QED BY <2>1 DEF CalmInv, EndedIsGone
<1> QED BY <1>5, <1>6, <1>7, QuietCalm

LEMMA AnswersCalm ==
  ASSUME Typed, CalmInv, trouble' = None, AgentCarbonizes \/ AgentAnswers
  PROVE  CalmInv'
<1>0. /\ work # <<>> /\ edited
      /\ UNCHANGED <<state, currentSessionId, arrived, pendingAccepted, observer, stored, handled,
                      confirmed, calls, source, dom>>
  BY DEF AgentCarbonizes, AgentAnswers, tabVars, storage
<1>1. CASE AgentCarbonizes
  <2>1. sse' = Append(sse, Message("agent_done", Head(work).id)) /\ UNCHANGED <<work, edited>>
    BY <1>1 DEF AgentCarbonizes
  <2>2. Todo' = Todo
    BY <2>1 DEF Todo
  <2>3. "agent_done" \in AnswerTypes \ {"error"}
    BY DEF AnswerTypes
  <2> QED BY <1>0, <2>1, <2>2, <2>3, OneMoreAnswer
<1>2. CASE AgentAnswers
  <2> DEFINE type == CompletionType(Head(work).type)
  <2>1. /\ work' = Tail(work) /\ edited' = FALSE
        /\ sse' = Append(sse, Message(type, Head(work).id)) /\ type # "error"
    BY <1>2, SessionsAssumption DEF AgentAnswers, Answer
  <2>2. Todo' = Todo
    BY <1>0, <2>1 DEF Todo
  <2>3. Head(work).type \in WorkTypes
    BY <1>0, TodoTyped DEF Work
  <2>4. /\ type \in AnswerTypes
        /\ type \in {"complete", "discarded"} => Head(work).type \in {"accept", "discard"}
    BY <2>3 DEF CompletionType, WorkTypes, AnswerTypes
  <2> HIDE DEF type
  <2> QED BY <1>0, <2>1, <2>2, <2>4, OneMoreAnswer
<1> QED BY <1>1, <1>2

\* What a reload makes of the requests: posts of the sessions that were ending.
LEMMA PostsAreSent ==
  ASSUME Typed, CalmInv, Reload
  PROVE  /\ \A t : EndAsked(Todo, t)' => EndAsked(Todo, t) \/ Ending(t)
         /\ \A t : EndAsked(Todo, t) => EndAsked(Todo, t)'
         /\ \A t : Message("generate", t) \in ToSet(Todo') <=> Message("generate", t) \in ToSet(Todo)
         /\ GeneratesOnce(Todo')
         /\ edited' => Head(work') = Head(work)
         /\ \A t, x : EndsFirst(Todo, t, x) => EndsFirst(Todo, t, x)'
         /\ \A t, x : ~ EndAsked(Todo', x) /\ EndAsked(Todo', t) => EndsFirst(Todo', t, x)
<1>0. PICK sent \in SUBSET Delivered : \E posts \in SetToSeqs(sent) :
        work' = work \o [i \in DOMAIN posts |-> Message(posts[i].kind, posts[i].id)]
  BY DEF Reload
<1>1. PICK posts \in SetToSeqs(sent) :
        work' = work \o [i \in DOMAIN posts |-> Message(posts[i].kind, posts[i].id)]
  BY <1>0
<1> DEFINE p == [i \in DOMAIN posts |-> Message(posts[i].kind, posts[i].id)]
<1>2. /\ p \in Seq(Work)
      /\ \A m \in ToSet(p) : /\ m.type \in {"accept", "discard"}
                             /\ Call(m.type, m.id) \in calls
  BY PostsTyped
<1>3. work' = work \o p /\ edited' = edited
  BY <1>1 DEF Reload
<1> HIDE DEF p
<1>4. Todo' = Todo \o p /\ ToSet(Todo') = ToSet(Todo) \cup ToSet(p) /\ (edited' => Head(work') = Head(work))
  BY <1>2, <1>3, TodoGrows DEF Typed, ServerTyped
<1>5. Todo \in Seq(Work)
  BY TodoTyped
<1>6. ASSUME NEW t, EndAsked(p, t) PROVE Ending(t)
  <2>1. PICK i \in 1..Len(p) : p[i] \in Ends(t)
    BY <1>6 DEF EndAsked
  <2>2. p[i] \in ToSet(p)
    BY <1>2, ToSetIs
  <2>3. p[i].type \in {"accept", "discard"} /\ p[i].id = t
    BY <2>1, MessageFacts DEF Ends
  <2> QED BY <1>2, <2>2, <2>3 DEF Ending
<1>7. \A t : EndAsked(Todo', t) <=> EndAsked(Todo, t) \/ EndAsked(p, t)
  BY <1>2, <1>4, <1>5, ConcatFacts
<1>8. \A t : Message("generate", t) \notin ToSet(p)
  BY <1>2, MessageFacts
<1>9. GeneratesOnce(Todo')
  <2>1. \A n \in ToSet(p) : n.type # "generate"
    BY <1>2
  <2> QED BY <1>2, <1>4, <1>5, <2>1, OnceFacts DEF CalmInv, GeneratedOnce
<1>10. \A t, x : EndsFirst(Todo, t, x) => EndsFirst(Todo', t, x)
  BY <1>2, <1>4, <1>5, ConcatFacts
<1>11. \A t, x : ~ EndAsked(Todo', x) /\ EndAsked(Todo', t) => EndsFirst(Todo', t, x)
  BY <1>2, <1>4, <1>5, ConcatFacts
<1> QED BY <1>4, <1>6, <1>7, <1>8, <1>9, <1>10, <1>11

LEMMA ReloadCalm ==
  ASSUME Typed, CalmInv, trouble' = None, Reload
  PROVE  CalmInv'
<1>1. /\ UNCHANGED <<edited, source>> /\ calls' = {} /\ sse' = <<>>
      /\ pendingAccepted' = NoAccept /\ dom' = source /\ resumeSession
  BY SessionsAssumption DEF Reload, resumeSession, restoreSessionWithoutWrapper, FetchSaved, Suffers
<1>2. /\ \A t : EndAsked(Todo', t) => EndAsked(Todo, t) \/ Ending(t)
      /\ \A t : EndAsked(Todo, t) => EndAsked(Todo', t)
      /\ \A t : Message("generate", t) \in ToSet(Todo') <=> Message("generate", t) \in ToSet(Todo)
      /\ GeneratesOnce(Todo')
      /\ edited' => Head(work') = Head(work)
      /\ \A t, x : EndsFirst(Todo, t, x) => EndsFirst(Todo', t, x)
      /\ \A t, x : ~ EndAsked(Todo', x) /\ EndAsked(Todo', t) => EndsFirst(Todo', t, x)
  BY PostsAreSent
<1>3. \A t : ~ Capturing(t)' /\ ~ Ending(t)'
  BY <1>1 DEF Capturing, Ending
<1>4. \A t : Fresh(t)' => Fresh(t)
  BY <1>2, <1>3 DEF Fresh
<1>5. \A t : Carried(t)' => Carried(t)
  <2>1. ToSet(<<>>) = {}
    BY DEF ToSet
  <2> QED BY <1>1, <1>2, <2>1 DEF Carried
<1>6. /\ confirmed' = confirmed
      /\ \/ source = {} /\ state' # "CYCLING"
         \/ /\ source # {} /\ handled' = handled /\ First(source) = handled
            /\ state' = "PICKING" /\ arrived' = FALSE /\ stored' = stored
            /\ currentSessionId' = None
         \/ /\ source # {} /\ handled' = handled /\ First(source) # handled
            /\ state' = "CYCLING" /\ arrived' = TRUE /\ stored'.id = First(source)
            /\ currentSessionId' = First(source)
      /\ state' \in {"PICKING", "CONFIGURING"} => currentSessionId' = None
      /\ observer' = currentSessionId'
  BY <1>1 DEF resumeSession, restoreSessionWithoutWrapper, RestoreSaved, ResumeWrapper, storage
<1>7. ASSUME source = {}
      PROVE  /\ stored'.id \in {stored.id, None} /\ currentSessionId' \in {stored.id, None}
             /\ currentSessionId' # None => arrived' = stored.arrived
             /\ stored'.id # None => stored'.arrived = stored.arrived
  <2>1. restoreSessionWithoutWrapper /\ UNCHANGED used
    BY <1>1, <1>7 DEF resumeSession, Reload
  <2>2. CASE Restorable
    <3>1. RestoreSaved /\ currentSessionId' = stored.id /\ arrived' = stored.arrived
      BY <2>1, <2>2 DEF restoreSessionWithoutWrapper, RestoreSaved
    <3> QED BY <2>1, <2>2, <3>1, RestoreTyped
  <2>3. CASE ~ Restorable
    <3>1. stored' = NoSession /\ currentSessionId' = None
      BY <2>1, <2>3 DEF restoreSessionWithoutWrapper
    <3> QED BY <3>1 DEF NoSession
  <2> QED BY <2>2, <2>3
<1>8. source # {} => First(source) \in source /\ \A t \in source : First(source) <= t
  BY NoneFacts, FirstFacts
<1>9. ModeInv'
  <2>1. ToSet(sse') = {}
    BY <1>1 DEF ToSet
  <2> QED BY <1>1, <1>6, <2>1 DEF ModeInv
<1>10. GeneratedOnce'
  BY <1>2, <1>3 DEF GeneratedOnce
<1>11. FreshIsNew'
  <2>1. ASSUME NEW t \in Sessions, Fresh(t)
        PROVE  /\ t \notin source \cup dom' \cup confirmed /\ ~ EndAsked(Todo', t)
               /\ pendingAccepted'.id # t
               /\ currentSessionId' = t => ~ arrived'
               /\ stored'.id = t => ~ stored'.arrived
    <3>1. /\ t \notin source \cup dom' \cup confirmed /\ ~ EndAsked(Todo', t) /\ t # None
          /\ stored.id = t => ~ stored.arrived
      BY <1>1, <1>2, <2>1, SessionsAssumption DEF CalmInv, FreshIsNew
    <3>2. pendingAccepted'.id # t
      BY <1>1, SessionsAssumption DEF NoAccept
    <3> QED BY <1>6, <1>7, <1>8, <3>1, <3>2
  <2> QED BY <1>1, <1>3, <1>4, <1>6, <2>1 DEF FreshIsNew
<1>12. EndedIsGone'
  BY <1>1, <1>4, <1>5 DEF CalmInv, EndedIsGone, Gone
<1>13. EndsInOrder'
  <2>1. ASSUME NEW x \in source, NEW t \in source, x < t, EndAsked(Todo', t)
        PROVE  EndsFirst(Todo', t, x)
    <3>0. x \in Sessions /\ t \in Sessions /\ x \in Nat /\ t \in Nat /\ t # None
      BY NoneFacts
    <3>1. CASE EndAsked(Todo, t)
      BY <1>2, <2>1, <3>1 DEF CalmInv, EndsInOrder
    <3>2. CASE ~ EndAsked(Todo, t)
      <4>1. currentSessionId = t
        BY <1>2, <2>1, <3>2 DEF CalmInv, PostsAreCurrent, Ending
      <4>2. ~ Capturing(t) /\ ~ GeneratesAfter(Todo, t, x)
        <5>1. ~ Fresh(t)
          BY <3>0 DEF CalmInv, FreshIsNew
        <5>2. GeneratesAfter(Todo, t, x) => Message("generate", t) \in ToSet(Todo)
          BY TodoTyped, ToSetIs DEF GeneratesAfter
        <5> QED BY <5>1, <5>2 DEF Fresh
      <4>3. ~ EndAsked(Todo, x)
        <5>1. x # t /\ ~ (t < x)
          BY <2>1, <3>0
        <5> QED BY <3>0, <4>1, <4>2, <5>1 DEF CalmInv, CurrentIsFirst
      <4>4. ~ Ending(x)
        <5>1. x # t
          BY <2>1, <3>0
        <5> QED BY <4>1, <4>3, <5>1 DEF CalmInv, PostsAreCurrent, Ending
      <4> QED BY <1>2, <2>1, <4>3, <4>4
    <3> QED BY <3>1, <3>2
  <2> QED BY <1>1, <2>1 DEF EndsInOrder
<1>14. CurrentIsFirst'
  <2>1. ASSUME NEW t \in source, t # currentSessionId', currentSessionId' # None
        PROVE  currentSessionId' \in source /\ currentSessionId' < t
    <3>1. currentSessionId' = First(source)
      BY <1>6, <2>1
    <3> QED BY <1>8, <2>1, <3>1, NoneFacts
  <2> QED BY <1>1, <2>1 DEF CurrentIsFirst
<1>15. PostsAreCurrent'
  BY <1>1 DEF PostsAreCurrent
<1>16. DiscardedStay'
  <2>1. ASSUME NEW r \in confirmed
        PROVE  /\ r \in source => EndAsked(Todo', r) /\ (handled' = r \/ \E u \in source : u < r)
               /\ stored'.id # r /\ currentSessionId' # r /\ ~ Fresh(r)
    <3>1. /\ r \in source => EndAsked(Todo, r) /\ (handled = r \/ \E u \in source : u < r)
          /\ stored.id # r /\ ~ Fresh(r)
      BY DEF CalmInv, DiscardedStay
    <3>2. r # None
      BY NoneFacts
    <3>3. source # {} /\ First(source) # handled => First(source) # r
      <4>1. ASSUME source # {}, First(source) # handled, First(source) = r PROVE FALSE
        <5>1. PICK u \in source : u < r
          BY <1>8, <3>1, <4>1
        <5>2. r <= u /\ u \in Nat /\ r \in Nat
          BY <1>8, <4>1, NoneFacts
        <5> QED BY <5>1, <5>2
      <4> QED BY <4>1
    <3> QED BY <1>2, <1>6, <1>7, <3>1, <3>2, <3>3
  <2> QED BY <1>1, <1>4, <1>6, <2>1 DEF DiscardedStay
<1> QED BY <1>9, <1>10, <1>11, <1>12, <1>13, <1>14, <1>15, <1>16 DEF CalmInv

\* Trouble does not go away.
LEMMA TroubleStays ==
  ASSUME Typed, [Next]_vars, trouble' = None
  PROVE  trouble = None
<1>1. CASE UNCHANGED trouble
  BY <1>1
<1>2. ASSUME NEW k, Suffers(k) PROVE trouble = None
  BY <1>2 DEF Suffers
<1>3. ASSUME NEW s, Drops(s) PROVE trouble = None
  BY <1>3 DEF Drops
<1>4. UNCHANGED trouble \/ (\E k : Suffers(k)) \/ (\E s : Drops(s)) \/ trouble' = "late"
  <2>1. CASE UNCHANGED vars
    BY <2>1 DEF vars
  <2>2. CASE User
    BY <2>2 DEF User, Pick, exitConfigureToPicking, handleAccept, handleDiscard, Reload,
                handleGo, submitSteerMessage, resumeSession, restoreSessionWithoutWrapper,
                FetchSaved
  <2>3. CASE Callbacks
    <3>1. CASE Receive
      <4> DEFINE m == Head(sse)
      <4>1. \/ OnDone(m)
            \/ UNCHANGED trouble
        BY <3>1 DEF Receive
      <4> QED BY <4>1 DEF OnDone
    <3>2. CASE VariantsSeen \/ SteerTimesOut
      BY <3>2 DEF VariantsSeen, SteerTimesOut
    <3>3. ASSUME NEW s \in Sessions,
                 \/ captureAndEmit(s) \/ AcceptPosted(s) \/ DiscardPosted(s)
                 \/ injectVariantsFromSource(s) \/ AcceptCleanup(s)
          PROVE  UNCHANGED trouble \/ (\E k : Suffers(k)) \/ (\E t : Drops(t))
      BY <3>3 DEF captureAndEmit, AcceptPosted, DiscardPosted, injectVariantsFromSource, AcceptCleanup
    <3> QED BY <2>3, <3>1, <3>2, <3>3 DEF Callbacks
  <2>4. CASE Environment
    BY <2>4 DEF Environment, HotUpdate, Reconnect, FetchSaved, AgentEdits, AgentCarbonizes,
                AgentAnswers, AgentFailsRequest
  <2> QED BY <2>1, <2>2, <2>3, <2>4 DEF Next
<1> QED BY <1>1, <1>2, <1>3, <1>4, SessionsAssumption

\* An agent's error is trouble.
LEMMA NoFailure ==
  ASSUME trouble' = None, AgentFailsRequest
  PROVE  FALSE
  BY SessionsAssumption DEF AgentFailsRequest, Suffers

\* A page without a wrapper has seen nothing that is in the source: the session
\* that is restored then stands in nobody's way.
LEMMA ReconnectCalm ==
  ASSUME Typed, CalmInv, SeenIsInPage, trouble' = None, Reconnect
  PROVE  CalmInv'
<1>1. /\ UNCHANGED <<work, edited, source, handled, confirmed, sse, dom, calls, pendingAccepted>>
      /\ dom = {} /\ Restorable /\ RestoreSaved /\ used' = used
      /\ state' = "GENERATING" /\ currentSessionId' = stored.id /\ observer' = stored.id
      /\ arrived' = stored.arrived
  BY SessionsAssumption DEF Reconnect, RestoreSaved, FetchSaved, Suffers, serverVars
<1>2. stored'.id = stored.id /\ stored'.arrived = stored.arrived /\ stored.id # None
  BY <1>1, RestoreTyped
<1>3. Todo' = Todo
  BY <1>1 DEF Todo
<1>4. Quiet
  BY <1>1, <1>3 DEF Quiet
<1>5. GeneratedOnce' /\ EndsInOrder' /\ \A s \in Sessions : Fresh(s)' <=> Fresh(s)
  BY <1>4, QuietSteps
<1>6. \A t \in source : ~ EndAsked(Todo, t) /\ ~ Ending(t)
  BY <1>1 DEF SeenIsInPage, Seen
<1>7. ModeInv'
  BY <1>1 DEF CalmInv, ModeInv
<1>8. FreshIsNew'
  BY <1>1, <1>2, <1>3, <1>5 DEF CalmInv, FreshIsNew, Ending
<1>9. EndedIsGone'
  BY <1>1, <1>5 DEF CalmInv, EndedIsGone, Carried, Gone
<1>10. CurrentIsFirst' /\ PostsAreCurrent'
  BY <1>1, <1>3, <1>6 DEF CurrentIsFirst, PostsAreCurrent, Ending
<1>11. DiscardedStay'
  BY <1>1, <1>2, <1>3, <1>5, NoneFacts DEF CalmInv, DiscardedStay
<1> QED BY <1>5, <1>7, <1>8, <1>9, <1>10, <1>11 DEF CalmInv

LEMMA StepCalm ==
  ASSUME Typed, CalmInv, SeenIsInPage, trouble' = None, [Next]_vars
  PROVE  CalmInv'
<1>1. CASE UNCHANGED vars
  <2>1. /\ UNCHANGED <<state, currentSessionId, arrived, pendingAccepted, observer, stored, handled,
                       calls, sse, work, edited, source, dom, confirmed>>
    BY <1>1 DEF vars
  <2>2. Todo' = Todo
    BY <2>1 DEF Todo
  <2>3. Quiet /\ ModeInv'
    BY <2>1, <2>2 DEF Quiet, CalmInv, ModeInv
  <2>4. \A s \in Sessions : Carried(s)' => Gone(s)
    BY <2>1 DEF CalmInv, EndedIsGone, Carried
  <2> QED BY <2>1, <2>3, <2>4, QuietCalm
<1>2. CASE User
  BY <1>2, SmallStepsCalm, EndingBegins, ReloadCalm, GoCalm, SteerCalm DEF User
<1>3. CASE Callbacks
  BY <1>3, captureCalm, AcceptPostedCalm, DiscardPostedCalm, NoSourceCalls, CleanupCalm,
     ReceiveCalm, VariantsCalm, SmallStepsCalm DEF Callbacks
<1>4. CASE Environment
  BY <1>4, SmallStepsCalm, ReconnectCalm, EditsCalm, AnswersCalm, NoFailure DEF Environment
<1> QED BY <1>1, <1>2, <1>3, <1>4 DEF Next

\* Nothing is seen that is not in the page, and nothing that is in the source and
\* has been seen is taken out of it.
LEMMA SeenStays ==
  ASSUME SeenIsInPage,
         \A s \in source' : /\ s \in source /\ (s \in dom => s \in dom')
                            /\ Seen(s)' => Seen(s) \/ s \in dom'
  PROVE  SeenIsInPage'
  BY DEF SeenIsInPage

LEMMA UserSeen ==
  ASSUME Typed, CalmInv, SeenIsInPage, trouble' = None, User
  PROVE  SeenIsInPage'
<1>1. CASE Pick \/ exitConfigureToPicking
  <2>1. UNCHANGED <<currentSessionId, arrived, stored, calls, work, edited, source, dom>>
    BY <1>1 DEF Pick, exitConfigureToPicking, storage, serverVars
  <2> QED BY <2>1, SeenStays DEF Seen, Ending, Todo
<1>2. CASE handleAccept \/ handleDiscard
  <2> DEFINE u == currentSessionId
  <2>1. /\ UNCHANGED <<currentSessionId, arrived, work, edited, source, dom>> /\ arrived
        /\ stored' = stored \/ stored'.id = u
        /\ calls' \in {calls \cup {Call("accept", u)}, calls \cup {Call("discard", u)}}
    BY <1>2 DEF handleAccept, handleDiscard, Enter, Saved, serverVars, tabVars, storage,
                CalmInv, ModeInv
  <2>2. Todo' = Todo
    BY <2>1 DEF Todo
  <2>3. \A s : s # u => (Ending(s)' <=> Ending(s))
    BY <2>1, CallFacts DEF Ending
  <2>4. \A s : Seen(s)' => Seen(s)
    BY <2>1, <2>2, <2>3 DEF Seen
  <2> QED BY <2>1, <2>4, SeenStays
<1>3. CASE Reload
  BY <1>3 DEF Reload, SeenIsInPage
<1>4. ASSUME NEW t \in Sessions, handleGo(t) PROVE SeenIsInPage'
  <2>1. /\ UNCHANGED <<work, edited, source, dom>> /\ t \notin source
        /\ currentSessionId' = t /\ stored'.id = t /\ calls' = calls \cup {Call("capture", t)}
    BY <1>4 DEF handleGo, serverVars, Typed, ServerTyped
  <2>2. Todo' = Todo
    BY <2>1 DEF Todo
  <2>3. \A s : Ending(s)' <=> Ending(s)
    BY <2>1, CallFacts DEF Ending
  <2>4. \A s \in source : Seen(s)' => Seen(s)
    BY <2>1, <2>2, <2>3 DEF Seen
  <2> QED BY <2>1, <2>4, SeenStays
<1>5. ASSUME NEW t \in Sessions, submitSteerMessage(t) PROVE SeenIsInPage'
  <2>1. /\ work' = Append(work, Message("steer", t))
        /\ UNCHANGED <<edited, source, dom, currentSessionId, stored, arrived, calls>>
    BY <1>5, SessionsAssumption DEF submitSteerMessage, tabVars, storage, Suffers
  <2>2. Message("steer", t) \in Work /\ Message("steer", t).type = "steer"
    BY DEF Message, Work, WorkTypes
  <2>3. \A s : EndAsked(Todo', s) <=> EndAsked(Todo, s)
    BY <2>1, <2>2, RequestArrives
  <2>4. \A s : Seen(s)' => Seen(s)
    BY <2>1, <2>3 DEF Seen, Ending
  <2> QED BY <2>1, <2>4, SeenStays
<1> QED BY <1>1, <1>2, <1>3, <1>4, <1>5 DEF User

LEMMA CallbacksSeen ==
  ASSUME Typed, CalmInv, SeenIsInPage, trouble' = None, Callbacks
  PROVE  SeenIsInPage'
<1>1. ASSUME NEW t \in Sessions, captureAndEmit(t) PROVE SeenIsInPage'
  <2>1. /\ work' = Append(work, Message("generate", t)) /\ calls' = calls \ {Call("capture", t)}
        /\ UNCHANGED <<edited, source, dom, currentSessionId, stored, arrived>>
    BY <1>1, SessionsAssumption DEF captureAndEmit, tabVars, storage, Suffers
  <2>2. Message("generate", t) \in Work /\ Message("generate", t).type = "generate"
    BY DEF Message, Work, WorkTypes
  <2>3. \A s : EndAsked(Todo', s) <=> EndAsked(Todo, s)
    BY <2>1, <2>2, RequestArrives
  <2>4. \A s : Seen(s)' => Seen(s)
    BY <2>1, <2>3 DEF Seen, Ending
  <2> QED BY <2>1, <2>4, SeenStays
<1>2. ASSUME NEW t \in Sessions, AcceptPosted(t) \/ DiscardPosted(t) PROVE SeenIsInPage'
  <2>1. PICK k \in {"accept", "discard"} :
          /\ Call(k, t) \in calls /\ t \in used
          /\ work' = Append(work, Message(k, t)) /\ calls' = calls \ {Call(k, t)}
          /\ UNCHANGED <<edited, source, dom, arrived>>
          /\ currentSessionId' \in {currentSessionId, None}
          /\ stored' = stored \/ stored'.id = None
    BY <1>2, CallFacts, SessionsAssumption
    DEF AcceptPosted, DiscardPosted, cleanup, NoSession, storage, tabVars, Suffers, Typed, CallsTyped
  <2>2. \A s \in Sessions : EndAsked(Todo, s)' <=> EndAsked(Todo, s) \/ s = t
    BY <2>1, PostsArrive
  <2>3. \A s : Ending(s)' => Ending(s)
    BY <2>1 DEF Ending
  <2>4. \A s \in source : Seen(s)' => Seen(s)
    BY <2>1, <2>2, <2>3, NoneFacts DEF Seen, Ending
  <2> QED BY <2>1, <2>4, SeenStays
<1>3. ASSUME NEW t \in Sessions, AcceptCleanup(t) PROVE SeenIsInPage'
  <2>1. /\ Call("cleanup", t) \in calls /\ calls' \subseteq calls
        /\ UNCHANGED <<work, edited, source, arrived>> /\ dom \ {t} \subseteq dom'
        /\ currentSessionId' \in {currentSessionId, None}
        /\ stored' = stored \/ stored'.id = None
    BY <1>3 DEF AcceptCleanup, cleanupAcceptedSession, NoSession, serverVars, tabVars
  <2>2. t \notin source
    BY <2>1 DEF CalmInv, EndedIsGone, Carried, Gone
  <2>3. Todo' = Todo
    BY <2>1 DEF Todo
  <2>4. \A s \in source : Seen(s)' => Seen(s)
    BY <2>1, <2>3, NoneFacts DEF Seen, Ending
  <2> QED BY <2>1, <2>2, <2>4, SeenStays
<1>4. CASE Receive
  <2> DEFINE m == Head(sse)
  <2>1. /\ UNCHANGED <<work, edited, source, dom, arrived>>
        /\ currentSessionId' \in {currentSessionId, None}
        /\ stored' = stored \/ stored'.id = None
        /\ calls' \subseteq calls \cup {Call("source", m.id), Call("cleanup", m.id)}
    BY <1>4 DEF Receive, OnDone, maybeCompleteAcceptedSession, OnDiscarded, OnError, cleanup,
                NoSession, serverVars, tabVars, storage
  <2>2. Todo' = Todo
    BY <2>1 DEF Todo
  <2>3. \A s : Ending(s)' => Ending(s)
    BY <2>1, CallFacts DEF Ending
  <2>4. \A s \in source : Seen(s)' => Seen(s)
    BY <2>1, <2>2, <2>3, NoneFacts DEF Seen
  <2> QED BY <2>1, <2>4, SeenStays
<1>5. CASE VariantsSeen
  <2>1. /\ UNCHANGED <<work, edited, source, dom, calls, currentSessionId>>
        /\ stored' = stored \/ stored'.id = currentSessionId
        /\ currentSessionId \in dom
    BY <1>5 DEF VariantsSeen, Enter, Saved, serverVars, CalmInv, ModeInv
  <2>2. Todo' = Todo
    BY <2>1 DEF Todo
  <2>3. \A s : Seen(s)' => Seen(s) \/ s = currentSessionId
    BY <2>1, <2>2 DEF Seen, Ending
  <2> QED BY <2>1, <2>3, SeenStays
<1>6. CASE SteerTimesOut
  <2>1. UNCHANGED <<currentSessionId, arrived, stored, calls, work, edited, source, dom>>
    BY <1>6 DEF SteerTimesOut, tabVars, storage, serverVars
  <2> QED BY <2>1, SeenStays DEF Seen, Ending, Todo
<1> QED BY <1>1, <1>2, <1>3, <1>4, <1>5, <1>6, NoSourceCalls DEF Callbacks

LEMMA EnvironmentSeen ==
  ASSUME Typed, CalmInv, SeenIsInPage, trouble' = None, Environment
  PROVE  SeenIsInPage'
<1>1. CASE HotUpdate
  BY <1>1 DEF HotUpdate, serverVars, SeenIsInPage
<1>2. CASE Reconnect
  <2>1. /\ UNCHANGED <<work, edited, source, dom, calls>> /\ Restorable /\ RestoreSaved
        /\ currentSessionId' = stored.id /\ arrived' = stored.arrived /\ used' = used
    BY <1>2, SessionsAssumption DEF Reconnect, RestoreSaved, FetchSaved, Suffers, serverVars
  <2>2. stored'.id = stored.id /\ stored'.arrived = stored.arrived
    BY <2>1, RestoreTyped
  <2>3. \A s : Seen(s)' => Seen(s)
    BY <2>1, <2>2 DEF Seen, Ending, Todo
  <2> QED BY <2>1, <2>3, SeenStays
<1>3. CASE AgentEdits
  <2> DEFINE m == Head(work)
  <2>1. /\ Todo = work /\ work # <<>> /\ Todo' = Tail(Todo)
        /\ UNCHANGED <<currentSessionId, arrived, stored, calls, dom>>
    BY <1>3 DEF AgentEdits, Todo, tabVars, storage, Typed, ServerTyped
  <2>2. /\ m \in ToSet(Todo) /\ m = Message(m.type, m.id) /\ m.id \in Sessions
        /\ m.type \in WorkTypes /\ Todo \in Seq(Work)
    <3>1. Todo \in Seq(Work) /\ m \in Work
      BY <2>1, TodoTyped
    <3>2. m \in ToSet(Todo)
      BY <2>1, <3>1, ToSetFacts
    <3> QED BY <3>1, <3>2 DEF Message, Work
  <2>3. \A s : Seen(s)' => Seen(s)
    BY <2>1, <2>2, TailFacts DEF Seen, Ending
  <2>4. source' \subseteq source \cup {m.id} /\ (source' \subseteq source \/ m.type = "generate")
    BY <1>3, <2>2 DEF AgentEdits, WorkTypes
  <2>5. m.type = "generate" => Fresh(m.id)
    BY <2>2 DEF Fresh
  <2>6. Fresh(m.id) => ~ Seen(m.id)
    BY <2>2 DEF CalmInv, FreshIsNew, Seen
  <2> QED BY <2>1, <2>3, <2>4, <2>5, <2>6 DEF SeenIsInPage
<1>4. CASE AgentCarbonizes \/ AgentAnswers
  <2>1. /\ UNCHANGED <<currentSessionId, arrived, stored, calls, source, dom>> /\ edited
        /\ \/ UNCHANGED <<work, edited>>
           \/ work' = Tail(work) /\ edited' = FALSE
    BY <1>4 DEF AgentCarbonizes, AgentAnswers, Answer, tabVars, storage
  <2>2. Todo' = Todo
    BY <2>1 DEF Todo
  <2> QED BY <2>1, <2>2, SeenStays DEF Seen, Ending
<1> QED BY <1>1, <1>2, <1>3, <1>4, NoFailure DEF Environment

LEMMA StepSeen ==
  ASSUME Typed, CalmInv, SeenIsInPage, trouble' = None, [Next]_vars
  PROVE  SeenIsInPage'
<1>1. CASE UNCHANGED vars
  <2>1. UNCHANGED <<currentSessionId, arrived, stored, calls, work, edited, source, dom>>
    BY <1>1 DEF vars
  <2> QED BY <2>1, SeenStays DEF Seen, Ending, Todo
<1> QED BY <1>1, UserSeen, CallbacksSeen, EnvironmentSeen DEF Next

LEMMA InvInductive ==
  ASSUME IInv, [Next]_vars
  PROVE  IInv'
<1>1. Typed'
  BY StepTyped DEF IInv
<1>2. ASSUME trouble' = None PROVE CalmInv' /\ SeenIsInPage'
  <2>1. CalmInv /\ SeenIsInPage
    BY <1>2, TroubleStays DEF IInv
  <2> QED BY <1>2, <2>1, StepCalm, StepSeen DEF IInv
<1> QED BY <1>1, <1>2 DEF IInv

\* As long as nothing goes wrong, no session whose discard the page saw confirmed
\* is ever the overlay's session again, whenever the page is reloaded and
\* whatever posts a reload cuts off (isSessionHandled, resumeSession).
THEOREM DiscardsAreFinal == Spec => []DiscardedIsNotResumed
<1>1. Init => IInv
  <2>1. Init => SeenIsInPage
    BY DEF Init, SeenIsInPage
  <2> QED BY <2>1, TypedInit, CalmInit DEF IInv
<1>2. IInv /\ [Next]_vars => IInv'
  BY InvInductive
<1>3. IInv => DiscardedIsNotResumed
  BY DEF IInv, CalmInv, DiscardedStay, DiscardedIsNotResumed
<1> QED BY <1>1, <1>2, <1>3, PTL DEF Spec

-------------------------------------------------------------------------------
(* A page that saves is going to hear of it *)

\* What is to take the page of s out of SAVING: an answer on the way, one that the
\* server is to give, or the accept, which will find its markers in the source.
Awaited(s) ==
  \/ \E type \in {"complete", "error", "discarded"} : Message(type, s) \in ToSet(sse)
  \/ edited /\ Head(work) = Message("discard", s)
  \/ edited /\ Head(work) = Message("accept", s) /\ result # "unhandled"
  \/ /\ s \in source
     /\ Call("accept", s) \in calls \/ Message("accept", s) \in ToSet(Todo)

\* The page saves what its session has accepted, and takes the answer for its own:
\* it does not think that the accept is over.
SavingIsAwaited ==
  state = "SAVING" /\ ~ astray /\ trouble # "stream" =>
    /\ currentSessionId # None
    /\ pendingAccepted = [id |-> currentSessionId, finalizing |-> FALSE]
    /\ Awaited(currentSessionId)

\* No answer of the session is taken for that of a steer.
SteerApart == steerRequestId # None => steerRequestId \notin {currentSessionId, stored.id}

\* An accept astray and a broken stream are not forgotten.
LEMMA AstrayStays ==
  ASSUME [Next]_vars, ~ astray', trouble' # "stream"
  PROVE  ~ astray /\ trouble # "stream"
<1>1. UNCHANGED astray \/ astray' = (astray \/ WithoutMarkers(currentSessionId))
  BY DEF Next, vars, User, Callbacks, Environment, Pick, exitConfigureToPicking, handleAccept,
         handleDiscard, Reload, handleGo, submitSteerMessage, captureAndEmit, AcceptPosted,
         DiscardPosted, injectVariantsFromSource, AcceptCleanup, Receive, VariantsSeen,
         SteerTimesOut, HotUpdate, Reconnect, AgentEdits, AgentCarbonizes, AgentAnswers,
         AgentFailsRequest
<1>2. trouble = None \/ trouble' = trouble
  <2>1. CASE UNCHANGED vars
    BY <2>1 DEF vars
  <2>2. CASE User
    BY <2>2 DEF User, Pick, exitConfigureToPicking, handleAccept, handleDiscard, Reload,
                handleGo, submitSteerMessage, resumeSession, restoreSessionWithoutWrapper,
                FetchSaved, Suffers
  <2>3. CASE Callbacks
    BY <2>3 DEF Callbacks, captureAndEmit, AcceptPosted, DiscardPosted, injectVariantsFromSource,
                AcceptCleanup, Receive, VariantsSeen, SteerTimesOut, OnDone, Suffers, Drops
  <2>4. CASE Environment
    BY <2>4 DEF Environment, HotUpdate, Reconnect, FetchSaved, AgentEdits, AgentCarbonizes,
                AgentAnswers, AgentFailsRequest, Suffers
  <2> QED BY <2>1, <2>2, <2>3, <2>4 DEF Next
<1>3. ~ astray
  BY <1>1, Zenon
<1>4. trouble # "stream"
  BY <1>2, SessionsAssumption
<1> QED BY <1>3, <1>4

\* A step of a page that goes on saving: it is enough that what was awaited is.
LEMMA SavingStays ==
  ASSUME SavingIsAwaited, [Next]_vars,
         ~ astray' /\ trouble' # "stream" /\ state' = "SAVING" =>
           /\ UNCHANGED <<state, currentSessionId, pendingAccepted>>
           /\ Awaited(currentSessionId) => Awaited(currentSessionId)'
  PROVE  SavingIsAwaited'
<1> SUFFICES ASSUME ~ astray', trouble' # "stream", state' = "SAVING"
             PROVE  /\ currentSessionId' # None
                    /\ pendingAccepted' = [id |-> currentSessionId', finalizing |-> FALSE]
                    /\ Awaited(currentSessionId)'
  BY DEF SavingIsAwaited
<1>1. ~ astray /\ trouble # "stream"
  BY AstrayStays
<1> QED BY <1>1 DEF SavingIsAwaited

\* What is awaited of a page that saves, and stays so.
LEMMA AwaitedStays ==
  ASSUME NEW s, UNCHANGED <<edited, source, result>>,
         ToSet(sse) \subseteq ToSet(sse'), edited => Head(work') = Head(work),
         ToSet(Todo) \subseteq ToSet(Todo'),
         Call("accept", s) \in calls =>
           Call("accept", s) \in calls' \/ Message("accept", s) \in ToSet(Todo'),
         Awaited(s)
  PROVE  Awaited(s)'
  BY DEF Awaited

\* A request more, whatever it is.
LEMMA MoreWork ==
  ASSUME Typed, NEW s \in Sessions, NEW k \in WorkTypes, work' = Append(work, Message(k, s)),
         edited' = edited
  PROVE  /\ ToSet(Todo') = ToSet(Todo) \cup {Message(k, s)}
         /\ edited => Head(work') = Head(work)
<1>1. work \in Seq(Work) /\ Message(k, s) \in Work /\ (edited => work # <<>>)
  BY DEF Typed, ServerTyped, Message, Work
<1>2. /\ work' = work \o <<Message(k, s)>> /\ <<Message(k, s)>> \in Seq(Work)
      /\ ToSet(<<Message(k, s)>>) = {Message(k, s)}
  BY <1>1, WorkAppend
<1> QED BY <1>1, <1>2, TodoGrows

\* What live-accept.mjs will find: the markers stand in the source.
LEMMA SavingBegins ==
  ASSUME handleAccept
  PROVE  SavingIsAwaited'
<1>1. /\ currentSessionId' = currentSessionId /\ currentSessionId # None
      /\ pendingAccepted' = [id |-> currentSessionId, finalizing |-> FALSE]
      /\ Call("accept", currentSessionId) \in calls' /\ source' = source
      /\ ~ astray' => currentSessionId \in source
  BY DEF handleAccept, WithoutMarkers, serverVars
<1> QED BY <1>1 DEF SavingIsAwaited, Awaited

LEMMA PostSaving ==
  ASSUME Typed, SavingIsAwaited, [Next]_vars, NEW s \in Sessions, AcceptPosted(s)
  PROVE  SavingIsAwaited'
<1>1. CASE state' = "CYCLING"
  BY <1>1 DEF SavingIsAwaited
<1>2. CASE work' = Append(work, Message("accept", s)) /\ UNCHANGED <<state, pendingAccepted>>
  <2>1. /\ calls' = calls \ {Call("accept", s)} /\ UNCHANGED <<currentSessionId, sse, edited, source, result>>
    BY DEF AcceptPosted
  <2>2. ToSet(Todo') = ToSet(Todo) \cup {Message("accept", s)} /\ (edited => Head(work') = Head(work))
    BY <1>2, <2>1, MoreWork DEF WorkTypes
  <2>3. Call("accept", currentSessionId) \in calls =>
          \/ Call("accept", currentSessionId) \in calls'
          \/ Message("accept", currentSessionId) \in ToSet(Todo')
    BY <2>1, <2>2, CallFacts
  <2>4. Awaited(currentSessionId) => Awaited(currentSessionId)'
    BY <2>1, <2>2, <2>3, AwaitedStays
  <2> QED BY <1>2, <2>1, <2>4, SavingStays
<1> QED BY <1>1, <1>2 DEF AcceptPosted

\* Steps that add a request or a callback, or take a callback of another kind.
LEMMA OthersSaving ==
  ASSUME Typed, SavingIsAwaited, [Next]_vars, NEW s \in Sessions,
         \/ captureAndEmit(s) \/ DiscardPosted(s) \/ injectVariantsFromSource(s)
         \/ AcceptCleanup(s) \/ handleDiscard \/ submitSteerMessage(s)
  PROVE  SavingIsAwaited'
<1>1. CASE state' \in {"PICKING", "CYCLING"}
  BY <1>1 DEF SavingIsAwaited
<1>2. CASE state' \notin {"PICKING", "CYCLING"}
  <2>1. UNCHANGED <<state, currentSessionId, pendingAccepted, sse, edited, source, result>>
    BY <1>2 DEF captureAndEmit, DiscardPosted, injectVariantsFromSource, AcceptCleanup,
                handleDiscard, submitSteerMessage, tabVars, serverVars, cleanup,
                cleanupAcceptedSession, Enter
  <2>2. Call("accept", currentSessionId) \in calls => Call("accept", currentSessionId) \in calls'
    BY CallFacts DEF captureAndEmit, DiscardPosted, injectVariantsFromSource, AcceptCleanup,
                     handleDiscard, submitSteerMessage
  <2>3. work' = work \/ \E k \in WorkTypes : work' = Append(work, Message(k, s))
    BY DEF captureAndEmit, DiscardPosted, injectVariantsFromSource, AcceptCleanup,
           handleDiscard, submitSteerMessage, serverVars, WorkTypes
  <2>4. ToSet(Todo) \subseteq ToSet(Todo') /\ (edited => Head(work') = Head(work))
    <3>1. CASE work' = work
      BY <2>1, <3>1 DEF Todo
    <3>2. CASE work' # work
      BY <2>1, <2>3, <3>2, MoreWork
    <3> QED BY <3>1, <3>2
  <2>5. Awaited(currentSessionId) => Awaited(currentSessionId)'
    BY <2>1, <2>2, <2>4, AwaitedStays
  <2> QED BY <2>1, <2>5, SavingStays
<1> QED BY <1>1, <1>2

LEMMA ReceiveSaving ==
  ASSUME Typed, SavingIsAwaited, SteerApart, [Next]_vars, Receive
  PROVE  SavingIsAwaited'
<1> DEFINE m == Head(sse)
           s == currentSessionId
<1>1. ToSet(sse) = {m} \cup ToSet(sse')
  BY ToSetFacts, Zenon DEF Receive, Typed, PageTyped
<1> HIDE DEF m
<1>2. UNCHANGED <<work, edited, source, result>>
  BY DEF Receive, serverVars
<1> SUFFICES ASSUME state' = "SAVING", ~ astray', trouble' # "stream" PROVE SavingIsAwaited'
  BY DEF SavingIsAwaited
<1>3. ~ astray /\ trouble # "stream"
  BY AstrayStays
<1>4. ASSUME UNCHANGED <<state, currentSessionId, pendingAccepted>>, calls \subseteq calls',
             m.type \in {"complete", "error", "discarded"} => m.id # s
      PROVE  SavingIsAwaited'
  <2>1. \A type \in {"complete", "error", "discarded"} : m # Message(type, s)
    BY <1>4, MessageFacts
  <2>2. Todo' = Todo
    BY <1>2 DEF Todo
  <2>3. Awaited(s) => Awaited(s)'
    BY <1>1, <1>2, <1>4, <2>1, <2>2 DEF Awaited
  <2> QED BY <1>4, <2>3, SavingStays
<1>5. CASE maybeCompleteSteer(m)
  <2>1. UNCHANGED <<tabVars, calls>>
    BY <1>5 DEF Receive, m
  <2>2. m.type \in {"steer_done", "error"} /\ m.id # s
    BY <1>5 DEF maybeCompleteSteer, SteerApart
  <2> QED BY <1>4, <2>1, <2>2 DEF tabVars
<1>6. CASE ~ maybeCompleteSteer(m)
  <2>0. /\ m.type = "done" =>
             OnDone(m) /\ UNCHANGED <<currentSessionId, pendingAccepted>>
        /\ m.type = "complete" =>
             maybeCompleteAcceptedSession(m) /\ UNCHANGED currentSessionId
        /\ m.type = "discarded" => OnDiscarded(m) /\ UNCHANGED calls
        /\ m.type = "error" => OnError(m)
        /\ m.type \notin {"done", "complete", "discarded", "error"} =>
             UNCHANGED <<tabVars, calls>>
    BY <1>6 DEF Receive, m
  <2>1. CASE m.type = "done"
    <3>1. OnDone(m) /\ UNCHANGED <<currentSessionId, pendingAccepted>>
      BY <2>0, <2>1
    <3>2. UNCHANGED state /\ calls \subseteq calls'
      BY <3>1 DEF OnDone
    <3> QED BY <1>4, <2>1, <3>1, <3>2
  <2>2. CASE m.type = "complete"
    <3>1. maybeCompleteAcceptedSession(m) /\ UNCHANGED currentSessionId
      BY <2>0, <2>2
    <3>2. UNCHANGED <<state, calls>> /\ state = "SAVING"
      BY <3>1 DEF maybeCompleteAcceptedSession
    <3>3. pendingAccepted = [id |-> currentSessionId, finalizing |-> FALSE]
      BY <1>3, <3>2 DEF SavingIsAwaited
    <3>4. m.id # currentSessionId /\ UNCHANGED pendingAccepted
      BY <3>1, <3>2, <3>3 DEF maybeCompleteAcceptedSession
    <3> QED BY <1>4, <2>2, <3>1, <3>2, <3>4
  <2>3. CASE m.type = "discarded"
    <3>1. OnDiscarded(m) /\ UNCHANGED calls
      BY <2>0, <2>3
    <3>2. UNCHANGED tabVars /\ m.id # s
      BY <3>1 DEF OnDiscarded, cleanup
    <3> QED BY <1>4, <2>3, <3>1, <3>2 DEF tabVars
  <2>4. m.type # "error"
    BY <2>0 DEF OnError
  <2>5. CASE m.type \notin {"done", "complete", "discarded", "error"}
    <3>1. UNCHANGED <<tabVars, calls>>
      BY <2>0, <2>5
    <3> QED BY <1>4, <2>5, <3>1 DEF tabVars
  <2> QED BY <2>1, <2>2, <2>3, <2>4, <2>5
<1> QED BY <1>5, <1>6

\* The agent works off the accept, or what comes before it.
LEMMA AgentSaving ==
  ASSUME Typed, SavingIsAwaited, [Next]_vars,
         AgentEdits \/ AgentCarbonizes \/ AgentAnswers \/ AgentFailsRequest
  PROVE  SavingIsAwaited'
<1> DEFINE m == Head(work)
           s == currentSessionId
<1>1. work # <<>> /\ UNCHANGED <<state, currentSessionId, pendingAccepted, calls>>
  BY DEF AgentEdits, AgentCarbonizes, AgentAnswers, AgentFailsRequest, tabVars
<1>2. /\ ToSet(work) = {m} \cup ToSet(Tail(work)) /\ m \in Work /\ m = Message(m.type, m.id)
  <2>1. work \in Seq(Work)
    BY DEF Typed, ServerTyped
  <2>2. ToSet(work) = {m} \cup ToSet(Tail(work)) /\ m \in Work
    BY <1>1, <2>1, ToSetFacts, Zenon
  <2> QED BY <2>2 DEF Message, Work
<1>3. \A type \in AnswerTypes : sse' = Append(sse, Message(type, m.id)) =>
        ToSet(sse') = ToSet(sse) \cup {Message(type, m.id)}
  <2>1. \A type \in AnswerTypes : Message(type, m.id) \in Answers
    BY <1>2 DEF Answers, Message, Work
  <2> QED BY <2>1, AnswerAppend DEF Typed, PageTyped
<1>4. \A t, k : m = Message(k, t) <=> m.type = k /\ m.id = t
  BY <1>2, MessageFacts
<1>5. s \in Sessions => s # None
  BY SessionsAssumption
<1> HIDE DEF m
<1> SUFFICES ASSUME Awaited(s) PROVE Awaited(s)'
  BY <1>1, SavingStays
<1>6. CASE AgentEdits
  <2>1. /\ ~ edited /\ edited' /\ UNCHANGED <<work, sse>>
        /\ Todo = work /\ Todo' = Tail(work) /\ Head(work') = m
    BY <1>6 DEF AgentEdits, Todo, m
  <2>2. /\ m.type = "accept" /\ m.id \in source => result' # "unhandled"
        /\ m.id # s \/ m.type \notin {"accept", "discard"} => (s \in source => s \in source')
    BY <1>2, <1>6 DEF AgentEdits, m, Work, WorkTypes
  <2>3. CASE \E type \in {"complete", "error", "discarded"} : Message(type, s) \in ToSet(sse)
    BY <1>1, <2>1, <2>3 DEF Awaited
  <2>4. CASE /\ s \in source
             /\ Call("accept", s) \in calls \/ Message("accept", s) \in ToSet(work)
    <3>1. CASE m = Message("discard", s) \/ m = Message("accept", s)
      BY <1>1, <1>4, <2>1, <2>2, <2>4, <3>1 DEF Awaited
    <3>2. CASE m # Message("discard", s) /\ m # Message("accept", s)
      <4>1. s \in source'
        BY <1>4, <2>2, <2>4, <3>2
      <4>2. Message("accept", s) \in ToSet(work) => Message("accept", s) \in ToSet(Todo')
        BY <1>2, <2>1, <3>2
      <4> QED BY <1>1, <2>4, <4>1, <4>2 DEF Awaited
    <3> QED BY <3>1, <3>2
  <2> QED BY <2>1, <2>3, <2>4 DEF Awaited
<1>7. CASE AgentCarbonizes
  <2>1. /\ UNCHANGED <<work, edited, source>> /\ result' # "unhandled"
        /\ sse' = Append(sse, Message("agent_done", m.id))
    BY <1>7 DEF AgentCarbonizes, m
  <2>2. Todo' = Todo /\ ToSet(sse) \subseteq ToSet(sse')
    BY <1>3, <2>1 DEF Todo, AnswerTypes
  <2> QED BY <1>1, <2>1, <2>2 DEF Awaited
<1>8. CASE AgentAnswers
  <2>1. /\ edited /\ work' = Tail(work) /\ edited' = FALSE /\ UNCHANGED source
        /\ sse' = Append(sse, Message(CompletionType(m.type), m.id))
    BY <1>8 DEF AgentAnswers, Answer, m
  <2>2. Todo' = Todo
    BY <2>1 DEF Todo
  <2>3. /\ CompletionType(m.type) \in AnswerTypes
        /\ m.type = "accept" => CompletionType(m.type) = "complete" \/ result = "unhandled"
        /\ m.type = "discard" => CompletionType(m.type) \in {"discarded", "error"}
    BY <1>2 DEF CompletionType, AnswerTypes, Work, WorkTypes
  <2> DEFINE type == CompletionType(m.type)
  <2>4. ToSet(sse') = ToSet(sse) \cup {Message(type, m.id)}
    BY <1>3, <2>1, <2>3
  <2> HIDE DEF type
  <2>5. CASE m = Message("discard", s)
    BY <1>1, <1>4, <2>3, <2>4, <2>5 DEF Awaited, type
  <2>6. CASE m = Message("accept", s) /\ result # "unhandled"
    BY <1>1, <1>4, <2>3, <2>4, <2>6 DEF Awaited, type
  <2>7. CASE \/ \E l \in {"complete", "error", "discarded"} : Message(l, s) \in ToSet(sse)
             \/ /\ s \in source
                /\ Call("accept", s) \in calls \/ Message("accept", s) \in ToSet(Todo)
    BY <1>1, <2>1, <2>2, <2>4, <2>7 DEF Awaited
  <2> QED BY <2>5, <2>6, <2>7 DEF Awaited, m
<1>9. CASE AgentFailsRequest
  <2>1. /\ ~ edited /\ work' = Tail(work) /\ edited' = FALSE /\ UNCHANGED source
        /\ sse' = Append(sse, Message("error", m.id))
    BY <1>9 DEF AgentFailsRequest, Answer, m
  <2>2. Todo = work /\ Todo' = Tail(work)
    BY <2>1 DEF Todo
  <2>3. ToSet(sse') = ToSet(sse) \cup {Message("error", m.id)}
    BY <1>3, <2>1 DEF AnswerTypes
  <2>4. CASE m = Message("accept", s)
    BY <1>1, <1>4, <2>3, <2>4 DEF Awaited
  <2>5. CASE m # Message("accept", s)
    BY <1>1, <1>2, <2>1, <2>2, <2>3, <2>5 DEF Awaited
  <2> QED BY <2>4, <2>5
<1> QED BY <1>6, <1>7, <1>8, <1>9

\* A page that is left restores no saving.
LEMMA ReloadSaving ==
  ASSUME Reload
  PROVE  state' # "SAVING" /\ steerRequestId' = None
  BY DEF Reload, resumeSession, restoreSessionWithoutWrapper, RestoreSaved, ResumeWrapper

LEMMA SavingNext ==
  ASSUME Typed, SavingIsAwaited, SteerApart, [Next]_vars
  PROVE  SavingIsAwaited'
<1>1. CASE UNCHANGED vars \/ SteerTimesOut \/ HotUpdate
  <2>1. UNCHANGED <<state, currentSessionId, pendingAccepted, calls, work, edited, result, source, sse>>
    BY <1>1 DEF vars, SteerTimesOut, HotUpdate, tabVars, serverVars
  <2>2. Todo' = Todo
    BY <2>1 DEF Todo
  <2>3. Awaited(currentSessionId) => Awaited(currentSessionId)'
    BY <2>1, <2>2, AwaitedStays
  <2> QED BY <2>1, <2>3, SavingStays
<1>2. CASE Pick \/ exitConfigureToPicking \/ VariantsSeen \/ \E s \in Sessions : handleGo(s)
  BY <1>2 DEF Pick, exitConfigureToPicking, VariantsSeen, handleGo, Enter, SavingIsAwaited
<1>3. CASE Reload
  BY <1>3, ReloadSaving DEF SavingIsAwaited
<1>4. CASE Reconnect
  BY <1>4 DEF Reconnect, RestoreSaved, Suffers, SavingIsAwaited
<1>5. Sessions = {} => ~ handleDiscard
  BY DEF handleDiscard, Typed, TabTyped, PageTyped
<1>6. CASE User
  BY <1>2, <1>3, <1>5, <1>6, SavingBegins, OthersSaving DEF User
<1>7. CASE Callbacks
  BY <1>1, <1>2, <1>7, PostSaving, OthersSaving, ReceiveSaving DEF Callbacks
<1>8. CASE Environment
  BY <1>1, <1>4, <1>8, AgentSaving DEF Environment
<1> QED BY <1>1, <1>6, <1>7, <1>8 DEF Next

\* Ids are made up anew: that of a steer is no session's.
LEMMA SteerNext ==
  ASSUME Typed, SteerApart, [Next]_vars
  PROVE  SteerApart'
<1> USE DEF Typed, TabTyped, StorageTyped, CallsTyped, PageTyped
<1>0. ASSUME \/ steerRequestId' = None
             \/ /\ steerRequestId' = steerRequestId
                /\ currentSessionId' \in {None, currentSessionId, stored.id}
                /\ stored'.id \in {None, stored.id, currentSessionId}
      PROVE  SteerApart'
  BY <1>0 DEF SteerApart
<1>1. CASE UNCHANGED vars
  BY <1>0, <1>1 DEF vars
<1>2. CASE User
  <2>1. CASE Pick \/ exitConfigureToPicking \/ handleAccept \/ handleDiscard
    BY <1>0, <2>1 DEF Pick, exitConfigureToPicking, handleAccept, handleDiscard, tabVars, storage,
                      Enter, Saved
  <2>2. CASE Reload
    BY <1>0, <2>2, ReloadSaving
  <2>3. ASSUME NEW s \in Sessions, handleGo(s) PROVE SteerApart'
    BY <2>3 DEF handleGo, SteerApart
  <2>4. ASSUME NEW s \in Sessions, submitSteerMessage(s) PROVE SteerApart'
    BY <2>4, SessionsAssumption DEF submitSteerMessage, tabVars, storage, SteerApart
  <2> QED BY <1>2, <2>1, <2>2, <2>3, <2>4 DEF User
<1>3. CASE Callbacks
  <2>1. ASSUME NEW s \in Sessions,
               \/ captureAndEmit(s) \/ AcceptPosted(s) \/ DiscardPosted(s)
               \/ injectVariantsFromSource(s) \/ AcceptCleanup(s)
        PROVE  SteerApart'
    BY <1>0, <2>1 DEF captureAndEmit, AcceptPosted, DiscardPosted, injectVariantsFromSource,
                      AcceptCleanup, tabVars, storage, cleanup, cleanupAcceptedSession, Enter,
                      Saved, NoSession
  <2>2. CASE VariantsSeen \/ SteerTimesOut
    BY <1>0, <2>2 DEF VariantsSeen, SteerTimesOut, Enter, Saved
  <2>3. CASE Receive
    BY <1>0, <2>3 DEF Receive, tabVars, storage, OnDiscarded, cleanup, NoSession
  <2> QED BY <1>3, <2>1, <2>2, <2>3 DEF Callbacks
<1>4. CASE Environment
  <2>1. CASE Restorable /\ RestoreSaved /\ UNCHANGED <<used, steerRequestId>>
    BY <1>0, <2>1, RestoreTyped DEF RestoreSaved
  <2>2. CASE Reconnect
    BY <1>0, <2>1, <2>2 DEF Reconnect, storage
  <2>3. CASE ~ Reconnect
    BY <1>0, <1>4, <2>3 DEF Environment, HotUpdate, AgentEdits, AgentCarbonizes, AgentAnswers,
                            AgentFailsRequest, tabVars, storage
  <2> QED BY <2>2, <2>3
<1> QED BY <1>1, <1>2, <1>3, <1>4 DEF Next

\* While the page saves, an answer to its accept is on the way, is given, or will
\* be given because the markers of the session stand in the source, and the page
\* takes that answer for its own: no other request and no reload before it, and no
\* failure but a broken event stream, makes the page wait for an answer that is not
\* to come, unless the accept is itself astray: asked for again or without markers
\* (handleAccept, maybeCompleteAcceptedSession, completionTypeForAcceptResult).
THEOREM SavingsAreAnswered == Spec => []SavingIsAwaited
<1>1. Init => SavingIsAwaited /\ SteerApart
  BY DEF Init, SavingIsAwaited, SteerApart
<1>2. Typed /\ SavingIsAwaited /\ SteerApart /\ [Next]_vars => (SavingIsAwaited /\ SteerApart)'
  BY SavingNext, SteerNext
<1> QED BY <1>1, <1>2, TypedAlways, PTL DEF Spec

===============================================================================
