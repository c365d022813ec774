----------------------------- MODULE PageProofs -----------------------------
(***************************************************************************)
(* Proofs about NetworkPage and Pages, for all modes, values, cells, scans,*)
(* views, groups and bounds: the lemmas of both on queues of calls and     *)
(* replies, NetworkPage panel by panel, Pages panel by panel.              *)
(***************************************************************************)
EXTENDS NetworkPage, Pages, SequenceTheorems, FiniteSetTheorems, TLAPS

-----------------------------------------------------------------------------
(* Queues of calls and replies.                                            *)

\* A sequence without its i-th element.
LEMMA RemovedIs ==
  ASSUME NEW C, NEW s \in Seq(C), NEW i \in DOMAIN s
  PROVE  /\ RemoveAt(s, i) \in Seq(C) /\ DOMAIN RemoveAt(s, i) = 1..(Len(s) - 1)
         /\ \A j \in 1..(Len(s) - 1) : RemoveAt(s, i)[j] = IF j < i THEN s[j] ELSE s[j+1]
<1> DEFINE r == RemoveAt(s, i)
           a == SubSeq(s, 1, i-1)
           b == SubSeq(s, i+1, Len(s))
<1>1. Len(s) \in Nat /\ i \in 1..Len(s) /\ DOMAIN s = 1..Len(s)
  OBVIOUS
<1>2. /\ a \in Seq(C) /\ Len(a) = i - 1
      /\ \A j \in 1..(i - 1) : a[j] = s[j]
  BY <1>1
<1>3. /\ b \in Seq(C) /\ Len(b) = Len(s) - i
      /\ \A j \in 1..(Len(s) - i) : b[j] = s[i + j]
  BY <1>1
<1>r. r = a \o b
  BY DEF RemoveAt
<1> HIDE DEF r, a, b
<1>c. /\ r \in Seq(C) /\ Len(r) = Len(a) + Len(b)
      /\ \A j \in 1..(Len(a) + Len(b)) : r[j] = IF j <= Len(a) THEN a[j] ELSE b[j - Len(a)]
  BY <1>2, <1>3, <1>r, ConcatProperties
<1>4. r \in Seq(C) /\ Len(r) = Len(s) - 1
  BY <1>1, <1>2, <1>3, <1>c
<1>5. \A j \in 1..(Len(s) - 1) : r[j] = IF j < i THEN s[j] ELSE s[j+1]
  <2> TAKE j \in 1..(Len(s) - 1)
  <2>0. j \in Int /\ i \in Int /\ j \in 1..(Len(a) + Len(b))
    BY <1>1, <1>2, <1>3
  <2>1. CASE j < i
    <3>1. j \in 1..(i - 1) /\ j <= Len(a)
      BY <2>0, <2>1, <1>1, <1>2
    <3>2. r[j] = a[j] /\ a[j] = s[j]
      BY <2>0, <3>1, <1>2, <1>c
    <3> QED
      BY <2>1, <3>2
  <2>2. CASE j >= i
    <3>1. /\ ~(j <= Len(a)) /\ ~(j < i) /\ j - Len(a) \in 1..(Len(s) - i)
          /\ i + (j - Len(a)) = j + 1
      BY <2>0, <2>2, <1>1, <1>2
    <3>2. r[j] = b[j - Len(a)]
      BY <2>0, <3>1, <1>c
    <3>3. b[j - Len(a)] = s[i + (j - Len(a))]
      BY <3>1, <1>3
    <3> QED
      BY <3>1, <3>2, <3>3
  <2> QED
    BY <2>0, <2>1, <2>2
<1>6. DOMAIN r = 1..(Len(s) - 1)
  BY <1>1, <1>4
<1> QED
  BY <1>4, <1>5, <1>6 DEF r

\* It has the others, and nothing else.
LEMMA Removed ==
  ASSUME NEW C, NEW s \in Seq(C), NEW i \in DOMAIN s
  PROVE  /\ RemoveAt(s, i) \in Seq(C)
         /\ \A j \in DOMAIN RemoveAt(s, i) : \E k \in DOMAIN s : k # i /\ RemoveAt(s, i)[j] = s[k]
         /\ \A k \in DOMAIN s \ {i} : \E j \in DOMAIN RemoveAt(s, i) : RemoveAt(s, i)[j] = s[k]
<1> DEFINE r == RemoveAt(s, i)
<1>1. Len(s) \in Nat /\ i \in 1..Len(s) /\ DOMAIN s = 1..Len(s)
  OBVIOUS
<1>4. /\ r \in Seq(C) /\ DOMAIN r = 1..(Len(s) - 1)
      /\ \A j \in 1..(Len(s) - 1) : r[j] = IF j < i THEN s[j] ELSE s[j+1]
  BY RemovedIs
<1> HIDE DEF r
<1>5. \A j \in 1..(Len(s) - 1) : r[j] = IF j < i THEN s[j] ELSE s[j+1]
  BY <1>4
<1>6. DOMAIN r = 1..(Len(s) - 1)
  BY <1>4
<1>7. \A j \in DOMAIN r : \E k \in DOMAIN s : k # i /\ r[j] = s[k]
  <2> TAKE j \in DOMAIN r
  <2>1. CASE j < i
    BY <2>1, <1>1, <1>5, <1>6
  <2>2. CASE j >= i
    <3>1. r[j] = s[j+1] /\ j + 1 \in DOMAIN s /\ j + 1 # i
      BY <2>2, <1>1, <1>5, <1>6
    <3> QED
      BY <3>1
  <2> QED
    BY <2>1, <2>2, <1>1, <1>6
<1>8. \A k \in DOMAIN s \ {i} : \E j \in DOMAIN r : r[j] = s[k]
  <2> TAKE k \in DOMAIN s \ {i}
  <2>1. CASE k < i
    BY <2>1, <1>1, <1>5, <1>6
  <2>2. CASE k > i
    <3>1. k - 1 \in DOMAIN r /\ r[k-1] = s[k]
      BY <2>2, <1>1, <1>5, <1>6
    <3> QED
      BY <3>1
  <2> QED
    BY <2>1, <2>2, <1>1
<1> QED
  BY <1>4, <1>7, <1>8 DEF r

\* The replies left when the first is taken.
LEMMA Taken ==
  ASSUME NEW A, NEW s \in Seq(A), s # <<>>
  PROVE  /\ Head(s) \in A /\ Head(s) = s[1] /\ 1 \in DOMAIN s
         /\ Tail(s) \in Seq(A)
         /\ \A i \in DOMAIN Tail(s) : i + 1 \in DOMAIN s /\ Tail(s)[i] = s[i + 1]
         /\ \A i \in DOMAIN s : i # 1 => i - 1 \in DOMAIN Tail(s) /\ Tail(s)[i - 1] = s[i]
OBVIOUS

\* A reply that is sent comes behind the others.
LEMMA Added ==
  ASSUME NEW A, NEW s \in Seq(A), NEW a \in A
  PROVE  /\ Append(s, a) \in Seq(A)
         /\ DOMAIN Append(s, a) = DOMAIN s \union {Len(s) + 1}
         /\ Append(s, a)[Len(s) + 1] = a
         /\ \A i \in DOMAIN s : i < Len(s) + 1 /\ Append(s, a)[i] = s[i]
OBVIOUS

-----------------------------------------------------------------------------
(* Steps of every panel.                                                   *)

\* What CallFails counts.
LEMMA FailureIsCounted ==
  ASSUME TypeOK, NEW i \in DOMAIN flights, CallFails(i)
  PROVE  failures' # 0
BY DEF TypeOK, CallFails, GiveUp, Mishap

\* What the server does with a call, and with it the reply.
Reacts(i, ok) ==
  /\ server' = HandledBy(flights[i], ok)
  /\ answers' = IF flights[i].orphan THEN answers
                ELSE Append(answers, [kind |-> flights[i].kind, key |-> flights[i].key,
                                      ok |-> ok, snap |-> server'])

LEMMA HandledIs ==
  ASSUME NEW i \in DOMAIN flights, ServerHandles(i)
  PROVE  /\ UNCHANGED <<panel, page, active>>
         /\ flights' = RemoveAt(flights, i)
         /\ \/ Reacts(i, TRUE) /\ UNCHANGED failures
            \/ /\ Reacts(i, FALSE)
               /\ \/ failures' = failures + 1
                  \/ flights[i].kind = "scan_start" /\ UNCHANGED failures
<1>1. UNCHANGED <<panel, page, active>> /\ flights' = RemoveAt(flights, i)
  BY DEF ServerHandles
<1> DEFINE c == flights[i]
           Obeys(ok) == /\ server' = HandledBy(c, ok)
                        /\ answers' = IF c.orphan THEN answers
                             ELSE Append(answers, [kind |-> c.kind, key |-> c.key,
                                                   ok |-> ok, snap |-> server'])
<1>2. \/ Obeys(TRUE) /\ UNCHANGED failures
      \/ /\ Obeys(FALSE)
         /\ failures' = failures + 1 \/ (c.kind = "scan_start" /\ UNCHANGED failures)
  <2> HIDE DEF c
  <2> QED
    BY DEF ServerHandles, bounds, c
<1> QED
  BY <1>1, <1>2 DEF Reacts

LEMMA ServedCounts ==
  ASSUME TypeOK, NEW i \in DOMAIN flights, ServerHandles(i)
  PROVE  failures' \in Nat /\ (failures' = 0 => failures = 0)
<1>1. failures \in Nat /\ failures + 1 \in Nat /\ failures + 1 # 0
  BY DEF TypeOK
<1>2. failures' = failures \/ failures' = failures + 1
  BY HandledIs, Zenon
<1> QED
  BY <1>1, <1>2

\* The queues keep their types when the server takes a call.
LEMMA HandledTypes ==
  ASSUME NEW C, NEW M, NEW i \in DOMAIN flights, NEW ok \in BOOLEAN,
         flights \in Seq(C), answers \in Seq(AnswersOf(C, M)), server' \in M,
         Reacts(i, ok), flights' = RemoveAt(flights, i)
  PROVE  flights' \in Seq(C) /\ answers' \in Seq(AnswersOf(C, M))
<1>1. flights[i] \in C
  OBVIOUS
<1> DEFINE a == [kind |-> flights[i].kind, key |-> flights[i].key, ok |-> ok, snap |-> server']
<1>2. a \in AnswersOf(C, M)
  BY <1>1 DEF AnswersOf
<1>3. answers' = answers \/ answers' = Append(answers, a)
  BY DEF Reacts
<1> HIDE DEF a
<1>4. answers' \in Seq(AnswersOf(C, M))
  <2>1. Append(answers, a) \in Seq(AnswersOf(C, M))
    BY <1>2, Added
  <2> QED
    BY <1>3, <2>1
<1> QED
  BY <1>4, Removed

\* The queues keep their types when the page sends calls, with a reply or without.
LEMMA SentTypes ==
  ASSUME NEW C, NEW A, flights \in Seq(C), answers \in Seq(A), NEW new \in Seq(C),
         Send(new) \/ (answers # <<>> /\ Done(new))
  PROVE  flights' \in Seq(C) /\ answers' \in Seq(A)
<1>1. flights' \in Seq(C)
  <2>1. flights' = flights \o new
    BY DEF Send, Done
  <2> QED
    BY <2>1
<1>2. answers' \in Seq(A)
  BY Taken DEF Send, Done
<1> QED
  BY <1>1, <1>2

\* The reply at hand.
LEMMA HeadIs ==
  ASSUME NEW C, NEW M, answers \in Seq(AnswersOf(C, M)), answers # <<>>
  PROVE  /\ Head(answers).ok \in BOOLEAN /\ Head(answers).snap \in M
         /\ Head(answers).kind \in {c.kind : c \in C} /\ Head(answers).key \in {c.key : c \in C}
<1>1. Head(answers) \in AnswersOf(C, M)
  BY Taken
<1> QED
  BY <1>1 DEF AnswersOf

\* The queues keep their types when a call is given up.
LEMMA FailedTypes ==
  ASSUME NEW C, NEW i \in DOMAIN flights, flights \in Seq(C), NEW new \in Seq(C),
         [flights[i] EXCEPT !.orphan = TRUE] \in C,
         \/ flights' = RemoveAt(flights, i) \o new
         \/ flights' = [flights EXCEPT ![i].orphan = TRUE] \o new
  PROVE  flights' \in Seq(C)
<1>1. RemoveAt(flights, i) \in Seq(C)
  BY Removed
<1>2. [flights EXCEPT ![i].orphan = TRUE] \in Seq(C)
  OBVIOUS
<1>3. \A s \in Seq(C) : s \o new \in Seq(C)
  OBVIOUS
<1> QED
  BY <1>1, <1>2, <1>3

-----------------------------------------------------------------------------
(* The order of the replies, while nothing failed.                         *)

\* The first reply is gone, the others have moved up.
Shift ==
  /\ DOMAIN answers \subseteq Nat /\ DOMAIN answers' \subseteq Nat
  /\ \A i \in DOMAIN answers' : i + 1 \in DOMAIN answers /\ answers'[i] = answers[i + 1]
  /\ \A i \in DOMAIN answers : i # 1 => i - 1 \in DOMAIN answers' /\ answers'[i - 1] = answers[i]

\* One more reply is on its way, and says what the module now holds.
Grow(c) ==
  \E last \in Nat :
    /\ DOMAIN answers' = DOMAIN answers \union {last}
    /\ answers'[last].kind = c.kind /\ answers'[last].key = c.key
    /\ answers'[last].snap = server'
    /\ \A i \in DOMAIN answers : i \in Nat /\ i < last /\ answers'[i] = answers[i]

LEMMA DoneShifts ==
  ASSUME NEW A, answers \in Seq(A), answers # <<>>, NEW new, Done(new)
  PROVE  Shift /\ 1 \in DOMAIN answers /\ Head(answers) = answers[1]
<1>1. answers' \in Seq(A) /\ answers' = Tail(answers)
  BY Taken DEF Done
<1>2. DOMAIN answers \subseteq Nat /\ DOMAIN answers' \subseteq Nat
  BY <1>1
<1> QED
  BY <1>1, <1>2, Taken DEF Shift

\* New calls have somebody who waits for them, and none that waits is lost.
LEMMA SentAsks ==
  ASSUME NEW C, NEW A, flights \in Seq(C), answers \in Seq(A), NEW new \in Seq(C),
         Send(new) \/ (answers # <<>> /\ Done(new))
  PROVE  /\ \A kinds : UnderWay(kinds) => UnderWay(kinds)'
         /\ \A kinds : \A k \in DOMAIN new : new[k].kind \in kinds => UnderWay(kinds)'
         /\ (\A k \in DOMAIN new : ~new[k].orphan) /\ NothingFailed => NothingFailed'
<1>1. flights' = flights \o new
  BY DEF Send, Done
<1>a. /\ \A k \in DOMAIN flights : \E j \in DOMAIN flights' : flights'[j] = flights[k]
      /\ \A k \in DOMAIN new : \E j \in DOMAIN flights' : flights'[j] = new[k]
      /\ \A j \in DOMAIN flights' : \/ \E k \in DOMAIN flights : flights'[j] = flights[k]
                                    \/ \E k \in DOMAIN new : flights'[j] = new[k]
  <2>1. /\ DOMAIN flights = 1..Len(flights) /\ DOMAIN new = 1..Len(new)
        /\ Len(flights) \in Nat /\ Len(new) \in Nat
    OBVIOUS
  <2>2. DOMAIN flights' = 1..(Len(flights) + Len(new))
    BY <1>1
  <2>3. /\ \A k \in 1..Len(flights) : flights'[k] = flights[k]
        /\ \A k \in 1..Len(new) : flights'[Len(flights) + k] = new[k]
        /\ \A j \in 1..(Len(flights) + Len(new)) : j > Len(flights) => flights'[j] = new[j - Len(flights)]
    BY <1>1
  <2>4. \A k \in DOMAIN flights : \E j \in DOMAIN flights' : flights'[j] = flights[k]
    BY <2>1, <2>2, <2>3
  <2>5. ASSUME NEW k \in DOMAIN new PROVE \E j \in DOMAIN flights' : flights'[j] = new[k]
    <3>1. Len(flights) + k \in DOMAIN flights' /\ flights'[Len(flights) + k] = new[k]
      BY <2>1, <2>2, <2>3
    <3> QED
      BY <3>1
  <2>6. ASSUME NEW j \in DOMAIN flights'
        PROVE  \/ \E k \in DOMAIN flights : flights'[j] = flights[k]
               \/ \E k \in DOMAIN new : flights'[j] = new[k]
    <3>1. CASE j <= Len(flights)
      BY <3>1, <2>1, <2>2, <2>3
    <3>2. CASE j > Len(flights)
      <4>1. j - Len(flights) \in DOMAIN new /\ flights'[j] = new[j - Len(flights)]
        BY <3>2, <2>1, <2>2, <2>3
      <4> QED
        BY <4>1
    <3> QED
      BY <3>1, <3>2, <2>1, <2>2
  <2> QED
    BY <2>4, <2>5, <2>6
<1>2. \A kinds : UnderWay(kinds) => UnderWay(kinds)'
  BY <1>a, Zenon DEF UnderWay
<1>3. \A kinds : \A k \in DOMAIN new : new[k].kind \in kinds => UnderWay(kinds)'
  BY <1>a, Zenon DEF UnderWay
<1>4. ASSUME \A k \in DOMAIN new : ~new[k].orphan, NothingFailed PROVE NothingFailed'
  <2>1. \A i \in DOMAIN flights' : ~flights'[i].orphan
    BY <1>a, <1>4 DEF NothingFailed
  <2>2. \A i \in DOMAIN answers' : answers'[i].ok
    <3>1. CASE Send(new)
      BY <3>1, <1>4 DEF Send, NothingFailed
    <3>2. CASE answers # <<>> /\ Done(new)
      BY <3>2, <1>4, DoneShifts DEF Shift, NothingFailed
    <3> QED
      BY <3>1, <3>2
  <2> QED
    BY <2>1, <2>2 DEF NothingFailed
<1> QED
  BY <1>2, <1>3, <1>4

\* A call the server takes while nothing failed is obeyed and answered.
LEMMA ObeyedGrows ==
  ASSUME NEW C, NEW A, flights \in Seq(C), answers \in Seq(A), NEW i \in DOMAIN flights,
         ServerHandles(i), flights[i].kind # "scan_start", failures = 0, failures' = 0, NothingFailed
  PROVE  /\ server' = HandledBy(flights[i], TRUE) /\ Grow(flights[i])
         /\ \A kinds : UnderWay(kinds) => UnderWay(kinds)' \/ flights[i].kind \in kinds
         /\ NothingFailed'
<1>1. failures' # failures + 1
  OBVIOUS
<1>2. Reacts(i, TRUE)
  BY <1>1, HandledIs, Zenon
<1>3. server' = HandledBy(flights[i], TRUE)
  BY <1>2, Zenon DEF Reacts
<1> DEFINE a == [kind |-> flights[i].kind, key |-> flights[i].key, ok |-> TRUE, snap |-> server']
<1>4. answers' = Append(answers, a)
  BY <1>2, Zenon DEF Reacts, NothingFailed
<1>5. a.ok = TRUE
  OBVIOUS
<1> HIDE DEF a
<1>6. /\ DOMAIN answers' = DOMAIN answers \union {Len(answers) + 1} /\ answers'[Len(answers) + 1] = a
      /\ \A k \in DOMAIN answers : k < Len(answers) + 1 /\ answers'[k] = answers[k]
      /\ Len(answers) + 1 \in Nat /\ DOMAIN answers \subseteq Nat
  <2> DEFINE B == A \union {a}
  <2>1. answers \in Seq(B) /\ a \in B
    OBVIOUS
  <2> HIDE DEF B
  <2> QED
    BY <1>4, <2>1, Added
<1>7. Grow(flights[i])
  <2>1. a.kind = flights[i].kind /\ a.key = flights[i].key /\ a.snap = server'
    BY DEF a
  <2> QED
    BY <1>6, <2>1 DEF Grow
<1>8. flights' = RemoveAt(flights, i)
  BY HandledIs
<1>a. /\ \A k \in DOMAIN flights \ {i} : \E j \in DOMAIN flights' : flights'[j] = flights[k]
      /\ \A j \in DOMAIN flights' : \E k \in DOMAIN flights : flights'[j] = flights[k]
  <2> DEFINE rest == RemoveAt(flights, i)
  <2>1. /\ \A k \in DOMAIN flights \ {i} : \E j \in DOMAIN rest : rest[j] = flights[k]
        /\ \A j \in DOMAIN rest : \E k \in DOMAIN flights : rest[j] = flights[k]
    BY Removed
  <2>2. flights' = rest
    BY <1>8
  <2> HIDE DEF rest
  <2> QED
    BY <2>1, <2>2
<1>9. \A kinds : UnderWay(kinds) => UnderWay(kinds)' \/ flights[i].kind \in kinds
  BY <1>a, Zenon DEF UnderWay
<1>10. NothingFailed'
  <2>1. \A k \in DOMAIN flights' : ~flights'[k].orphan
    BY <1>a DEF NothingFailed
  <2>2. \A k \in DOMAIN answers' : answers'[k].ok
    BY <1>5, <1>6 DEF NothingFailed
  <2> QED
    BY <2>1, <2>2 DEF NothingFailed
<1> QED
  BY <1>3, <1>7, <1>9, <1>10

-----------------------------------------------------------------------------
(* PDP contexts and carrier profiles.                                      *)

LEMMA LoadIsCall == Load("first") \in ListCalls /\ Load("after") \in ListCalls
BY DEF Load, Ask, ListCalls, CallsOf

LEMMA ListTypesSent ==
  ASSUME panel \in Lists, Typed(ListPages, ListModules, ListCalls), ValuesAssumption, List \/ ListAnswer
  PROVE  Typed(ListPages, ListModules, ListCalls)'
<1> USE DEF Typed
<1>1. CASE OpenForm
  BY <1>1 DEF OpenForm, SendNothing, calls, User, ListPages
<1>2. CASE RunChange
  <2>1. PICK v \in Values : Send(<<Ask("change", IF page.form THEN "form" ELSE All, v)>>)
    BY <1>2 DEF RunChange
  <2>2. <<Ask("change", IF page.form THEN "form" ELSE All, v)>> \in Seq(ListCalls)
    BY DEF Ask, ListCalls, CallsOf, All
  <2>3. page' \in ListPages /\ server' \in ListModules
    BY <1>2 DEF RunChange, User, ListPages
  <2> QED
    BY <2>1, <2>2, <2>3, SentTypes
<1>3. CASE RebootForMbn
  <2>1. <<Ask("reboot", All, Unknown)>> \in Seq(ListCalls)
    BY DEF Ask, ListCalls, CallsOf
  <2>2. page' \in ListPages /\ server' \in ListModules /\ Send(<<Ask("reboot", All, Unknown)>>)
    BY <1>3 DEF RebootForMbn, User
  <2> QED
    BY <2>1, <2>2, SentTypes
<1>4. CASE ChangeAnswered
  <2>1. <<Load("after")>> \in Seq(ListCalls)
    BY LoadIsCall
  <2>2. page' \in ListPages
    <3>1. Head(answers).ok \in BOOLEAN
      BY <1>4, HeadIs DEF ChangeAnswered, Reply
    <3> QED
      BY <1>4, <3>1 DEF ChangeAnswered, ListPages
  <2>3. server' \in ListModules /\ answers # <<>> /\ Done(<<Load("after")>>)
    BY <1>4 DEF ChangeAnswered, Page, Reply
  <2> QED
    BY <2>1, <2>2, <2>3, SentTypes
<1>5. CASE LoadAnswered
  <2>1. <<>> \in Seq(ListCalls)
    OBVIOUS
  <2>2. page' \in ListPages
    <3>1. Head(answers).snap.set \in Values
      <4>1. Head(answers).snap \in ListModules
        BY <1>5, HeadIs DEF LoadAnswered, Reply
      <4> QED
        BY <4>1 DEF ListModules
    <3>2. (page.busy /\ Head(answers).key # "after") \in BOOLEAN
      OBVIOUS
    <3> QED
      BY <1>5, <3>1, <3>2 DEF LoadAnswered, ListPages, Shows
  <2>3. server' \in ListModules /\ answers # <<>> /\ Done(<<>>)
    BY <1>5 DEF LoadAnswered, Page, Reply
  <2> QED
    BY <2>1, <2>2, <2>3, SentTypes
<1>6. CASE RebootAnswered
  <2>1. <<>> \in Seq(ListCalls)
    OBVIOUS
  <2>2. page' \in ListPages
    <3>1. (~Head(answers).ok /\ page.reboot) \in BOOLEAN
      OBVIOUS
    <3> QED
      BY <1>6, <3>1 DEF RebootAnswered, ListPages
  <2>3. server' \in ListModules /\ answers # <<>> /\ Done(<<>>)
    BY <1>6 DEF RebootAnswered, Page, Reply
  <2> QED
    BY <2>1, <2>2, <2>3, SentTypes
<1> QED
  BY <1>1, <1>2, <1>3, <1>4, <1>5, <1>6 DEF List, ListAnswer

LEMMA ListTypesServed ==
  ASSUME TypeOK, panel \in Lists, NEW i \in DOMAIN flights, ServerHandles(i) \/ CallFails(i)
  PROVE  Typed(ListPages, ListModules, ListCalls)'
<1>0. Typed(ListPages, ListModules, ListCalls) /\ flights[i] \in ListCalls
  BY DEF TypeOK, Typed
<1>1. CASE ServerHandles(i)
  <2>1. PICK ok \in BOOLEAN : Reacts(i, ok)
    BY <1>1, HandledIs, Zenon
  <2>2. server' = ListHandled(flights[i], ok)
    BY <2>1 DEF Reacts, HandledBy, Lists
  <2>3. server' \in ListModules
    <3>1. flights[i].kind = "change" => flights[i].val \in Values
      BY <1>0 DEF ListCalls, CallsOf
    <3> QED
      BY <1>0, <2>2, <3>1 DEF ListHandled, ListModules, Typed
  <2>4. flights' \in Seq(ListCalls) /\ answers' \in Seq(AnswersOf(ListCalls, ListModules))
    BY <1>0, <1>1, <2>1, <2>3, HandledIs, HandledTypes DEF Typed
  <2> QED
    BY <1>0, <1>1, <2>3, <2>4, HandledIs DEF Typed
<1>2. CASE CallFails(i)
  <2>1. AfterFailure(flights[i]) \in Seq(ListCalls)
    BY LoadIsCall DEF AfterFailure, Lists
  <2>2. [flights[i] EXCEPT !.orphan = TRUE] \in ListCalls
    BY <1>0 DEF ListCalls, CallsOf
  <2>3. flights' \in Seq(ListCalls)
    BY <1>0, <1>2, <2>1, <2>2, FailedTypes DEF Typed, CallFails, GiveUp, Mishap
  <2>4. page' = ListFailed(flights[i])
    BY <1>2 DEF CallFails, GiveUp, Mishap, FailedBy, Lists
  <2>5. page' \in ListPages
    BY <1>0, <2>4 DEF ListFailed, ListPages, Typed
  <2> QED
    BY <1>0, <1>2, <2>3, <2>5 DEF Typed, CallFails, GiveUp, Mishap
<1> QED
  BY <1>1, <1>2

\* No call is lost while nothing failed, and a change is followed by a fresh read.
LEMMA ListSends ==
  ASSUME panel \in Lists, Typed(ListPages, ListModules, ListCalls), ValuesAssumption, List \/ ListAnswer
  PROVE  /\ NothingFailed => NothingFailed'
         /\ \A kinds : UnderWay(kinds) => UnderWay(kinds)'
         /\ ChangeAnswered => UnderWay({"load"})'
<1> DEFINE Still == /\ NothingFailed => NothingFailed'
                    /\ \A kinds : UnderWay(kinds) => UnderWay(kinds)'
<1>0. flights \in Seq(ListCalls) /\ answers \in Seq(AnswersOf(ListCalls, ListModules))
  BY DEF Typed
<1>1. ASSUME NEW c \in ListCalls, ~c.orphan, Send(<<c>>) \/ (answers # <<>> /\ Done(<<c>>))
      PROVE  Still /\ \A kinds : c.kind \in kinds => UnderWay(kinds)'
  <2> DEFINE new == <<c>>
  <2>1. new \in Seq(ListCalls) /\ DOMAIN new = {1} /\ new[1] = c
    BY <1>1
  <2>2. Send(new) \/ (answers # <<>> /\ Done(new))
    BY <1>1
  <2> HIDE DEF new
  <2> QED
    BY <1>0, <1>1, <2>1, <2>2, SentAsks
<1>2. ASSUME answers # <<>>, Done(<<>>) PROVE Still
  <2> DEFINE new == <<>>
  <2>1. new \in Seq(ListCalls) /\ DOMAIN new = {} /\ Done(new)
    BY <1>2
  <2> HIDE DEF new
  <2> QED
    BY <1>0, <1>2, <2>1, SentAsks
<1>3. ASSUME OpenForm PROVE Still
  <2>1. UNCHANGED <<flights, answers>>
    BY <1>3 DEF OpenForm, SendNothing, calls
  <2> QED
    BY <2>1 DEF NothingFailed, UnderWay
<1>4. ASSUME RunChange PROVE Still
  <2>1. PICK v \in Values : Send(<<Ask("change", IF page.form THEN "form" ELSE All, v)>>)
    BY <1>4 DEF RunChange
  <2>2. Ask("change", IF page.form THEN "form" ELSE All, v) \in ListCalls
    BY DEF Ask, ListCalls, CallsOf, All
  <2>3. ~Ask("change", IF page.form THEN "form" ELSE All, v).orphan
    BY DEF Ask
  <2> HIDE DEF Still
  <2> QED
    BY <2>1, <2>2, <2>3, <1>1
<1>5. ASSUME RebootForMbn PROVE Still
  <2>1. Send(<<Ask("reboot", All, Unknown)>>)
    BY <1>5 DEF RebootForMbn
  <2>2. Ask("reboot", All, Unknown) \in ListCalls
    BY DEF Ask, ListCalls, CallsOf, All
  <2>3. ~Ask("reboot", All, Unknown).orphan
    BY DEF Ask
  <2> HIDE DEF Still
  <2> QED
    BY <2>1, <2>2, <2>3, <1>1
<1>6. ASSUME ChangeAnswered PROVE Still /\ UnderWay({"load"})'
  <2>1. answers # <<>> /\ Done(<<Load("after")>>)
    BY <1>6 DEF ChangeAnswered, Reply
  <2>2. ~Load("after").orphan /\ Load("after").kind = "load"
    BY DEF Load, Ask
  <2> QED
    BY <2>1, <2>2, <1>1, LoadIsCall
<1>7. ASSUME LoadAnswered \/ RebootAnswered PROVE Still
  <2>1. answers # <<>> /\ Done(<<>>)
    BY <1>7 DEF LoadAnswered, RebootAnswered, Reply
  <2> HIDE DEF Still
  <2> QED
    BY <2>1, <1>2
<1> HIDE DEF Still
<1>8. Still
  BY <1>3, <1>4, <1>5, <1>6, <1>7 DEF List, ListAnswer
<1> QED
  BY <1>6, <1>8 DEF Still

LEMMA ListStays ==
  ASSUME panel \in Lists, Typed(ListPages, ListModules, ListCalls), ValuesAssumption, List,
         NothingFailed, ListInv
  PROVE  ListInv'
<1>1. UNCHANGED <<panel, server, answers>>
  BY DEF List, OpenForm, RunChange, RebootForMbn, User, SendNothing, Send, calls
<1>2. page'.shown = page.shown /\ page'.reboot = page.reboot
  BY DEF List, OpenForm, RunChange, RebootForMbn, User, Typed, ListPages
<1>3. \A kinds : UnderWay(kinds) => UnderWay(kinds)'
  BY ListSends
<1>4. \A kinds : Told(kinds)' <=> Told(kinds)
  BY <1>1 DEF Told
<1> QED
  BY <1>1, <1>2, <1>3, <1>4 DEF ListInv, ListAgrees, RestartOffered, PdpAtOnce

LEMMA ListHears ==
  ASSUME panel \in Lists, Typed(ListPages, ListModules, ListCalls), ValuesAssumption, ListAnswer,
         NothingFailed, ListInv
  PROVE  ListInv'
<1>0. answers \in Seq(AnswersOf(ListCalls, ListModules)) /\ page \in ListPages
  BY DEF Typed
<1>1. answers # <<>> /\ \E new : Done(new)
  BY DEF ListAnswer, ChangeAnswered, LoadAnswered, RebootAnswered, Reply
<1>2. Shift /\ 1 \in DOMAIN answers /\ Head(answers) = answers[1]
  BY <1>0, <1>1, DoneShifts
<1>3. UNCHANGED <<panel, server>>
  BY DEF ListAnswer, ChangeAnswered, LoadAnswered, RebootAnswered, Page
<1>4. answers[1].ok
  BY <1>2 DEF NothingFailed
<1>5. \A kinds : UnderWay(kinds) => UnderWay(kinds)'
  BY ListSends
<1>6. \A kinds : Told(kinds) /\ answers[1].kind \notin kinds => Told(kinds)'
  BY <1>2, Zenon DEF Told, Shift
<1>7. \A i \in DOMAIN answers' : answers'[i].kind = "load" =>
        \/ answers'[i].snap.set = server'.set
        \/ \E j \in DOMAIN answers' : i < j /\ answers'[j].kind = "change"
  <2> SUFFICES ASSUME NEW i \in DOMAIN answers', answers'[i].kind = "load",
                      answers'[i].snap.set # server'.set
               PROVE  \E j \in DOMAIN answers' : i < j /\ answers'[j].kind = "change"
    OBVIOUS
  <2>1. i \in Nat /\ i + 1 \in DOMAIN answers /\ answers'[i] = answers[i + 1]
    BY <1>2 DEF Shift
  <2>2. PICK j \in DOMAIN answers : i + 1 < j /\ answers[j].kind = "change"
    BY <1>3, <2>1 DEF ListInv, ListAgrees
  <2>3. j \in Nat /\ j - 1 \in DOMAIN answers' /\ answers'[j - 1] = answers[j] /\ i < j - 1
    BY <1>2, <2>1, <2>2 DEF Shift
  <2> QED
    BY <2>2, <2>3
<1>8. page'.shown = server'.set \/ UnderWay({"load"})' \/ Told({"load", "change"})'
  <2>1. CASE ChangeAnswered
    BY <2>1, ListSends
  <2>2. CASE LoadAnswered
    <3>1. answers[1].kind = "load" /\ page'.shown = answers[1].snap.set
      BY <2>2, <1>0, <1>2 DEF LoadAnswered, Reply, ListPages
    <3>2. CASE answers[1].snap.set = server.set
      BY <3>1, <3>2, <1>3
    <3>3. CASE \E j \in DOMAIN answers : 1 < j /\ answers[j].kind = "change"
      <4>1. PICK j \in DOMAIN answers : 1 < j /\ answers[j].kind = "change"
        BY <3>3
      <4>2. j # 1
        BY <4>1
      <4>3. j - 1 \in DOMAIN answers' /\ answers'[j - 1] = answers[j]
        BY <1>2, <4>2 DEF Shift
      <4> QED
        BY <4>1, <4>3 DEF Told
    <3> QED
      BY <1>2, <3>1, <3>2, <3>3 DEF ListInv, ListAgrees
  <2>3. CASE RebootAnswered
    <3>1. answers[1].kind = "reboot" /\ page'.shown = page.shown
      BY <2>3, <1>0, <1>2 DEF RebootAnswered, Reply, ListPages
    <3> QED
      BY <3>1, <1>3, <1>5, <1>6 DEF ListInv, ListAgrees
  <2> QED
    BY <2>1, <2>2, <2>3 DEF ListAnswer
<1>9. RestartOffered'
  <2> SUFFICES ASSUME server.set # server.inForce
               PROVE  \/ page'.reboot /\ ~Told({"reboot"})'
                      \/ \E i \in DOMAIN answers' :
                           /\ answers'[i].kind = "change"
                           /\ \A j \in DOMAIN answers' : i < j => answers'[j].kind # "reboot"
    BY <1>3 DEF RestartOffered
  <2>1. page'.reboot <=> IF answers[1].kind = "change" THEN page.reboot \/ panel = "mbn"
                         ELSE answers[1].kind # "reboot" /\ page.reboot
    BY <1>0, <1>2, <1>4 DEF ListAnswer, ChangeAnswered, LoadAnswered, RebootAnswered, Reply, ListPages
  <2>2. CASE page.reboot /\ ~Told({"reboot"})
    <3>1. answers[1].kind # "reboot"
      BY <1>2, <2>2 DEF Told
    <3>2. ~Told({"reboot"})'
      BY <1>2, <2>2 DEF Told, Shift
    <3> QED
      BY <2>1, <2>2, <3>1, <3>2
  <2>3. CASE \E i \in DOMAIN answers :
               /\ answers[i].kind = "change"
               /\ \A j \in DOMAIN answers : i < j => answers[j].kind # "reboot"
    <3>1. PICK i \in DOMAIN answers :
               /\ answers[i].kind = "change"
               /\ \A j \in DOMAIN answers : i < j => answers[j].kind # "reboot"
      BY <2>3
    <3>2. CASE i = 1
      <4>1. page'.reboot
        BY <2>1, <3>1, <3>2 DEF ListInv, PdpAtOnce, Lists
      <4>2. ~Told({"reboot"})'
        <5> SUFFICES ASSUME NEW k \in DOMAIN answers' PROVE answers'[k].kind # "reboot"
          BY DEF Told
        <5>1. k + 1 \in DOMAIN answers /\ answers'[k] = answers[k + 1] /\ k \in Nat
          BY <1>2 DEF Shift
        <5>2. k # 0
          BY <1>0, <1>1, Taken DEF ListAnswer, ChangeAnswered, LoadAnswered, RebootAnswered, Done
        <5> QED
          BY <5>1, <5>2, <3>1, <3>2
      <4> QED
        BY <4>1, <4>2
    <3>3. CASE i # 1
      <4>1. i - 1 \in DOMAIN answers' /\ answers'[i - 1] = answers[i] /\ i \in Nat
        BY <1>2, <3>3 DEF Shift
      <4>2. ASSUME NEW j \in DOMAIN answers', i - 1 < j PROVE answers'[j].kind # "reboot"
        <5>1. j + 1 \in DOMAIN answers /\ answers'[j] = answers[j + 1] /\ j \in Nat
          BY <1>2 DEF Shift
        <5> QED
          BY <5>1, <4>1, <4>2, <3>1
      <4> QED
        BY <3>1, <4>1, <4>2
    <3> QED
      BY <3>2, <3>3
  <2> QED
    BY <2>2, <2>3 DEF ListInv, RestartOffered
<1>10. PdpAtOnce'
  BY <1>3 DEF ListInv, PdpAtOnce
<1> QED
  BY <1>3, <1>7, <1>8, <1>9, <1>10 DEF ListInv, ListAgrees

LEMMA ListServed ==
  ASSUME TypeOK, panel \in Lists, NEW i \in DOMAIN flights, ServerHandles(i),
         failures = 0, failures' = 0, NothingFailed, ListInv
  PROVE  NothingFailed' /\ ListInv'
<1> DEFINE c == flights[i]
<1>0. /\ flights \in Seq(ListCalls) /\ answers \in Seq(AnswersOf(ListCalls, ListModules))
      /\ page \in ListPages /\ server \in ListModules /\ c \in ListCalls
  BY DEF TypeOK, Typed
<1>1. c.kind \in {"load", "change", "reboot"}
  BY <1>0 DEF ListCalls, CallsOf
<1> HIDE DEF c
<1>2. /\ server' = HandledBy(c, TRUE) /\ Grow(c)
      /\ \A kinds : UnderWay(kinds) => UnderWay(kinds)' \/ c.kind \in kinds
      /\ NothingFailed'
  <2>1. flights[i].kind # "scan_start"
    BY <1>1 DEF c
  <2> QED
    BY <1>0, <2>1, ObeyedGrows DEF c
<1>3. UNCHANGED <<panel, page>>
  BY HandledIs
<1>4. server' = ListHandled(c, TRUE)
  BY <1>2 DEF HandledBy, Lists
<1>5. PICK last \in Nat :
        /\ DOMAIN answers' = DOMAIN answers \union {last}
        /\ answers'[last].kind = c.kind /\ answers'[last].snap = server'
        /\ \A k \in DOMAIN answers : k \in Nat /\ k < last /\ answers'[k] = answers[k]
  BY <1>2 DEF Grow
<1>6. \A kinds : Told(kinds) \/ c.kind \in kinds => Told(kinds)'
  BY <1>5 DEF Told
<1>7. CASE c.kind = "load"
  <2>1. server' = server
    BY <1>4, <1>7 DEF ListHandled
  <2>2. \A k \in DOMAIN answers' : answers'[k].kind = "load" =>
          \/ answers'[k].snap.set = server'.set
          \/ \E j \in DOMAIN answers' : k < j /\ answers'[j].kind = "change"
    BY <1>5, <1>7, <2>1 DEF ListInv, ListAgrees
  <2>3. page'.shown = server'.set \/ UnderWay({"load"})' \/ Told({"load", "change"})'
    BY <1>6, <1>7
  <2>4. RestartOffered'
    <3>1. Told({"reboot"})' => Told({"reboot"})
      BY <1>5, <1>7 DEF Told
    <3>2. ASSUME NEW k \in DOMAIN answers, answers[k].kind = "change",
                 \A j \in DOMAIN answers : k < j => answers[j].kind # "reboot"
          PROVE  /\ k \in DOMAIN answers' /\ answers'[k].kind = "change"
                 /\ \A j \in DOMAIN answers' : k < j => answers'[j].kind # "reboot"
      BY <1>5, <1>7, <3>2
    <3> QED
      BY <1>3, <2>1, <3>1, <3>2 DEF ListInv, RestartOffered
  <2> QED
    BY <1>2, <1>3, <2>1, <2>2, <2>3, <2>4 DEF ListInv, ListAgrees, PdpAtOnce
<1>8. CASE c.kind = "change"
  <2>1. \A k \in DOMAIN answers : k < last /\ last \in DOMAIN answers' /\ answers'[last].kind = "change"
    BY <1>5, <1>8
  <2>2. \A k \in DOMAIN answers' : answers'[k].kind = "load" =>
          \E j \in DOMAIN answers' : k < j /\ answers'[j].kind = "change"
    BY <1>5, <1>8
  <2>3. Told({"load", "change"})'
    BY <1>6, <1>8
  <2>4. RestartOffered'
    <3>1. last \in DOMAIN answers' /\ answers'[last].kind = "change"
      BY <1>5, <1>8
    <3>2. \A j \in DOMAIN answers' : ~(last < j)
      BY <1>5
    <3> QED
      BY <3>1, <3>2 DEF RestartOffered
  <2>5. PdpAtOnce'
    BY <1>0, <1>3, <1>4, <1>8 DEF ListHandled, PdpAtOnce, ListModules
  <2> QED
    BY <1>2, <2>2, <2>3, <2>4, <2>5 DEF ListInv, ListAgrees
<1>9. CASE c.kind = "reboot"
  <2>1. server'.set = server.set /\ server'.inForce = server.set
    BY <1>0, <1>4, <1>9 DEF ListHandled, ListModules
  <2>2. \A k \in DOMAIN answers' : answers'[k].kind = "load" =>
          \/ answers'[k].snap.set = server'.set
          \/ \E j \in DOMAIN answers' : k < j /\ answers'[j].kind = "change"
    BY <1>5, <1>9, <2>1 DEF ListInv, ListAgrees
  <2>3. page'.shown = server'.set \/ UnderWay({"load"})' \/ Told({"load", "change"})'
    BY <1>2, <1>3, <1>6, <1>9, <2>1 DEF ListInv, ListAgrees
  <2> QED
    BY <1>2, <2>1, <2>2, <2>3 DEF ListInv, ListAgrees, RestartOffered, PdpAtOnce
<1> QED
  BY <1>1, <1>7, <1>8, <1>9

\* Every step of the two lists keeps the types and, while nothing failed, what
\* the replies and the page say.
LEMMA ListStep ==
  ASSUME TypeOK, panel \in Lists, ValuesAssumption, NetworkNext,
         failures = 0 => NothingFailed /\ ListInv
  PROVE  /\ panel' = panel /\ Typed(ListPages, ListModules, ListCalls)'
         /\ failures' = 0 => NothingFailed' /\ ListInv'
<1>0. Typed(ListPages, ListModules, ListCalls) /\ failures \in Nat
  BY DEF TypeOK
<1>1. CASE List \/ ListAnswer
  <2>1. UNCHANGED <<panel, failures>>
    BY <1>1 DEF List, ListAnswer, OpenForm, RunChange, RebootForMbn, ChangeAnswered, LoadAnswered,
                RebootAnswered, User, Page, bounds
  <2>2. Typed(ListPages, ListModules, ListCalls)'
    BY <1>0, <1>1, ListTypesSent
  <2>3. failures = 0 => NothingFailed' /\ ListInv'
    BY <1>0, <1>1, ListSends, ListStays, ListHears
  <2> QED
    BY <2>1, <2>2, <2>3
<1>2. CASE \E i \in DOMAIN flights : ServerHandles(i)
  <2>1. PICK i \in DOMAIN flights : ServerHandles(i)
    BY <1>2
  <2>2. failures' = 0 => failures = 0
    BY <2>1, ServedCounts
  <2> QED
    BY <2>1, <2>2, ListTypesServed, ListServed, HandledIs
<1>3. CASE \E i \in DOMAIN flights : CallFails(i)
  <2>1. PICK i \in DOMAIN flights : CallFails(i)
    BY <1>3
  <2> QED
    BY <2>1, ListTypesServed, FailureIsCounted DEF CallFails, GiveUp, Mishap
<1>4. ~GuardDecides /\ ~EnterNetwork /\ ~LeaveNetwork
  BY DEF GuardDecides, EnterNetwork, LeaveNetwork, Lists
<1> QED
  BY <1>1, <1>2, <1>3, <1>4 DEF NetworkNext, PanelStep, Deliver, Lists

-----------------------------------------------------------------------------
(* The frequency lock.                                                     *)

LEMMA ReadFreqIsCall == ReadFreq \in FreqCalls /\ ~ReadFreq.orphan /\ ReadFreq.kind = "freq"
BY DEF ReadFreq, Ask, FreqCalls, CallsOf

\* The rest of loadFreqLock.
LEMMA FollowedIs ==
  ASSUME NEW p \in FreqPages
  PROVE  /\ Followed(p) \in FreqPages
         /\ Followed(p).shown = p.shown /\ Followed(p).guard = p.guard
         /\ p.guard = "checking" => Followed(p).timer
         /\ Followed(p).verdict \in {p.verdict, p.guard}
BY DEF Followed, FreqPages

LEMMA FreqSends ==
  ASSUME panel = "freq", Typed(FreqPages, FreqModules, FreqCalls), ValuesAssumption,
         Freq \/ FreqAnswer \/ EnterNetwork
  PROVE  /\ Typed(FreqPages, FreqModules, FreqCalls)' /\ UNCHANGED <<panel, server, failures>>
         /\ NothingFailed => NothingFailed'
         /\ \A kinds : UnderWay(kinds) => UnderWay(kinds)'
         /\ FreqTimerFires \/ FreqSet => UnderWay({"freq"})'
<1> DEFINE Still == /\ flights' \in Seq(FreqCalls)
                    /\ answers' \in Seq(AnswersOf(FreqCalls, FreqModules))
                    /\ NothingFailed => NothingFailed'
                    /\ \A kinds : UnderWay(kinds) => UnderWay(kinds)'
<1>0. /\ flights \in Seq(FreqCalls) /\ answers \in Seq(AnswersOf(FreqCalls, FreqModules))
      /\ page \in FreqPages /\ server \in FreqModules
  BY DEF Typed
<1>1. ASSUME NEW c \in FreqCalls, ~c.orphan, Send(<<c>>) \/ (answers # <<>> /\ Done(<<c>>))
      PROVE  Still /\ \A kinds : c.kind \in kinds => UnderWay(kinds)'
  <2> DEFINE new == <<c>>
  <2>1. new \in Seq(FreqCalls) /\ DOMAIN new = {1} /\ new[1] = c
    BY <1>1
  <2>2. Send(new) \/ (answers # <<>> /\ Done(new))
    BY <1>1
  <2> HIDE DEF new
  <2>3. /\ \A kinds : UnderWay(kinds) => UnderWay(kinds)'
        /\ NothingFailed => NothingFailed'
        /\ \A kinds : c.kind \in kinds => UnderWay(kinds)'
    BY <1>0, <1>1, <2>1, <2>2, SentAsks
  <2>4. flights' \in Seq(FreqCalls) /\ answers' \in Seq(AnswersOf(FreqCalls, FreqModules))
    BY <1>0, <2>1, <2>2, SentTypes
  <2> QED
    BY <2>3, <2>4
<1>2. ASSUME answers # <<>>, Done(<<>>) PROVE Still
  <2> DEFINE new == <<>>
  <2>1. new \in Seq(FreqCalls) /\ DOMAIN new = {} /\ Done(new)
    BY <1>2
  <2> HIDE DEF new
  <2>3. /\ \A kinds : UnderWay(kinds) => UnderWay(kinds)'
        /\ NothingFailed => NothingFailed'
    BY <1>0, <1>2, <2>1, SentAsks
  <2>4. flights' \in Seq(FreqCalls) /\ answers' \in Seq(AnswersOf(FreqCalls, FreqModules))
    BY <1>0, <1>2, <2>1, SentTypes
  <2> QED
    BY <2>3, <2>4
<1> HIDE DEF Still
<1>3. UNCHANGED <<panel, server, failures>>
  BY DEF Freq, FreqAnswer, FreqTimerFires, LockFreq, FreqAnswered, FreqSet, EnterNetwork, User, Page, bounds
<1>4. ASSUME FreqTimerFires PROVE Still /\ UnderWay({"freq"})' /\ page' \in FreqPages
  <2>1. Send(<<ReadFreq>>) /\ page' \in FreqPages
    BY <1>0, <1>4 DEF FreqTimerFires, FreqPages
  <2> QED
    BY <2>1, <1>1, ReadFreqIsCall
<1>5. ASSUME LockFreq PROVE Still /\ page' \in FreqPages
  <2>1. PICK v \in Values, kind \in FreqChanges :
          Send(<<Ask(kind, All, IF kind = "freq_unlock" THEN Initially ELSE v)>>)
    BY <1>5 DEF LockFreq, FreqChanges
  <2> DEFINE c == Ask(kind, All, IF kind = "freq_unlock" THEN Initially ELSE v)
  <2>2. c \in FreqCalls /\ ~c.orphan
    BY ValuesAssumption DEF Ask, FreqCalls, CallsOf, All, FreqChanges
  <2>3. Send(<<c>>)
    BY <2>1
  <2> HIDE DEF c
  <2>4. page' \in FreqPages
    BY <1>0, <1>5 DEF LockFreq, FreqPages
  <2> QED
    BY <2>2, <2>3, <2>4, <1>1
<1>6. ASSUME FreqAnswered PROVE Still /\ page' \in FreqPages
  <2>1. answers # <<>> /\ Done(<<>>)
    BY <1>6 DEF FreqAnswered, Reply
  <2>2. Head(answers).snap \in FreqModules
    BY <1>0, <2>1, HeadIs
  <2> DEFINE p == [page EXCEPT !.shown = Head(answers).snap.lock, !.guard = Head(answers).snap.phase]
  <2>3. p \in FreqPages
    BY <1>0, <2>2 DEF FreqPages, FreqModules, Shows
  <2>4. page' = Followed(p)
    BY <1>6 DEF FreqAnswered
  <2> HIDE DEF p
  <2> QED
    BY <2>1, <2>3, <2>4, <1>2, FollowedIs
<1>7. ASSUME FreqSet PROVE Still /\ UnderWay({"freq"})' /\ page' \in FreqPages
  <2>1. answers # <<>> /\ Done(<<ReadFreq>>)
    BY <1>7 DEF FreqSet, Reply
  <2>2. Head(answers).ok \in BOOLEAN
    BY <1>0, <2>1, HeadIs
  <2> DEFINE follow == IF Head(answers).ok /\ Head(answers).kind # "freq_unlock"
                       THEN Head(answers).kind = "freq_guarded" ELSE page.follow
  <2>3. follow \in BOOLEAN
    BY <1>0 DEF FreqPages
  <2>4. page' = [page EXCEPT !.busy = FALSE, !.follow = follow,
                             !.verdict = IF Head(answers).ok THEN "none" ELSE "refused"]
    BY <1>7 DEF FreqSet
  <2> HIDE DEF follow
  <2>5. page' \in FreqPages
    BY <1>0, <2>3, <2>4 DEF FreqPages
  <2> QED
    BY <2>1, <2>5, <1>1, ReadFreqIsCall
<1>8. ASSUME EnterNetwork PROVE Still /\ page' \in FreqPages
  <2>1. Send(<<ReadFreq>>) /\ page' = page
    BY <1>8 DEF EnterNetwork
  <2> QED
    BY <1>0, <2>1, <1>1, ReadFreqIsCall
<1>9. Still /\ page' \in FreqPages
  BY <1>4, <1>5, <1>6, <1>7, <1>8 DEF Freq, FreqAnswer
<1>10. Typed(FreqPages, FreqModules, FreqCalls)'
  <2>1. flights' \in Seq(FreqCalls) /\ answers' \in Seq(AnswersOf(FreqCalls, FreqModules))
    BY <1>9 DEF Still
  <2>2. page' \in FreqPages /\ server' \in FreqModules
    BY <1>0, <1>3, <1>9
  <2> QED
    BY <2>1, <2>2 DEF Typed
<1> QED
  BY <1>3, <1>4, <1>7, <1>9, <1>10 DEF Still

LEMMA FreqTypesServed ==
  ASSUME TypeOK, panel = "freq", NEW i \in DOMAIN flights, ServerHandles(i) \/ CallFails(i)
  PROVE  Typed(FreqPages, FreqModules, FreqCalls)'
<1>0. /\ Typed(FreqPages, FreqModules, FreqCalls) /\ flights[i] \in FreqCalls
      /\ page \in FreqPages /\ server \in FreqModules
  BY DEF TypeOK, Typed
<1>1. CASE ServerHandles(i)
  <2>1. PICK ok \in BOOLEAN : Reacts(i, ok)
    BY <1>1, HandledIs, Zenon
  <2>2. server' = FreqHandled(flights[i], ok)
    BY <2>1 DEF Reacts, HandledBy, Lists
  <2>3. server' \in FreqModules
    <3>1. flights[i].kind \in FreqChanges => flights[i].val \in Values
      BY <1>0 DEF FreqCalls, CallsOf, FreqChanges
    <3> QED
      BY <1>0, <2>2, <3>1 DEF FreqHandled, FreqModules, FreqChanges, GuardPhases
  <2>4. flights' \in Seq(FreqCalls) /\ answers' \in Seq(AnswersOf(FreqCalls, FreqModules))
    BY <1>0, <1>1, <2>1, <2>3, HandledIs, HandledTypes DEF Typed
  <2> QED
    BY <1>0, <1>1, <2>3, <2>4, HandledIs DEF Typed
<1>2. CASE CallFails(i)
  <2>1. AfterFailure(flights[i]) \in Seq(FreqCalls)
    BY ReadFreqIsCall DEF AfterFailure, Lists
  <2>2. [flights[i] EXCEPT !.orphan = TRUE] \in FreqCalls
    BY <1>0 DEF FreqCalls, CallsOf
  <2>3. flights' \in Seq(FreqCalls)
    BY <1>0, <1>2, <2>1, <2>2, FailedTypes DEF Typed, CallFails, GiveUp, Mishap
  <2>4. page' = FreqFailed(flights[i])
    BY <1>2 DEF CallFails, GiveUp, Mishap, FailedBy, Lists
  <2>5. page' \in FreqPages
    <3>1. [page EXCEPT !.busy = FALSE, !.verdict = "refused"] \in FreqPages
      BY <1>0 DEF FreqPages
    <3> QED
      BY <1>0, <2>4, <3>1, FollowedIs DEF FreqFailed
  <2> QED
    BY <1>0, <1>2, <2>3, <2>5 DEF Typed, CallFails, GiveUp, Mishap
<1> QED
  BY <1>1, <1>2

LEMMA FreqStays ==
  ASSUME panel = "freq", Typed(FreqPages, FreqModules, FreqCalls), ValuesAssumption,
         Freq \/ EnterNetwork, FreqInv
  PROVE  FreqInv'
<1>1. UNCHANGED <<panel, server, answers>>
  BY DEF Freq, EnterNetwork, FreqTimerFires, LockFreq, User, Page, Send
<1>2. /\ page'.shown = page.shown /\ page'.guard = page.guard
      /\ page'.verdict \in {page.verdict, "none"}
      /\ page'.timer = page.timer \/ FreqTimerFires
  BY DEF Freq, EnterNetwork, FreqTimerFires, LockFreq, User, Typed, FreqPages
<1>3. /\ \A kinds : UnderWay(kinds) => UnderWay(kinds)'
      /\ FreqTimerFires => UnderWay({"freq"})'
  BY FreqSends
<1>4. \A kinds : Told(kinds)' <=> Told(kinds)
  BY <1>1 DEF Told
<1>5. /\ \A i \in DOMAIN answers' : answers'[i].kind = "freq" =>
           \/ answers'[i].snap.phase = "checking"
           \/ answers'[i].snap.lock = server'.lock /\ answers'[i].snap.phase = server'.phase
           \/ \E j \in DOMAIN answers' : i < j /\ answers'[j].kind \in FreqChanges
      /\ \A i \in DOMAIN answers' : answers'[i].snap.phase \in Decided =>
           \/ answers'[i].snap.phase = server'.phase
           \/ \E j \in DOMAIN answers' : i < j /\ answers'[j].kind \in FreqChanges
  BY <1>1 DEF FreqInv, FreqAgrees, VerdictHolds
<1>6. \/ page'.shown = server'.lock /\ page'.guard = server'.phase /\ page'.guard # "checking"
      \/ page'.timer \/ UnderWay({"freq"})' \/ Told({"freq"} \union FreqChanges)'
  BY <1>1, <1>2, <1>3, <1>4 DEF FreqInv, FreqAgrees
<1>7. page'.verdict \in Decided => page'.verdict = server'.phase \/ Told(FreqChanges)'
  BY <1>1, <1>2, <1>4 DEF FreqInv, VerdictHolds, Decided
<1> QED
  BY <1>5, <1>6, <1>7 DEF FreqInv, FreqAgrees, VerdictHolds

LEMMA FreqHears ==
  ASSUME panel = "freq", Typed(FreqPages, FreqModules, FreqCalls), ValuesAssumption,
         FreqAnswer, FreqInv
  PROVE  FreqInv'
<1>0. answers \in Seq(AnswersOf(FreqCalls, FreqModules)) /\ page \in FreqPages
  BY DEF Typed
<1>1. answers # <<>> /\ \E new : Done(new)
  BY DEF FreqAnswer, FreqAnswered, FreqSet, Reply
<1>2. Shift /\ 1 \in DOMAIN answers /\ Head(answers) = answers[1]
  BY <1>0, <1>1, DoneShifts
<1>3. UNCHANGED <<panel, server>>
  BY DEF FreqAnswer, FreqAnswered, FreqSet, Page
<1>4. \A kinds : Told(kinds) /\ answers[1].kind \notin kinds => Told(kinds)'
  BY <1>2, Zenon DEF Told, Shift
<1>5. ASSUME NEW i \in DOMAIN answers', \E j \in DOMAIN answers : i + 1 < j /\ answers[j].kind \in FreqChanges
      PROVE  \E j \in DOMAIN answers' : i < j /\ answers'[j].kind \in FreqChanges
  <2>1. PICK j \in DOMAIN answers : i + 1 < j /\ answers[j].kind \in FreqChanges
    BY <1>5
  <2>2. i \in Nat /\ j \in Nat
    BY <1>2 DEF Shift
  <2>3. j - 1 \in DOMAIN answers' /\ answers'[j - 1] = answers[j] /\ i < j - 1
    BY <1>2, <2>1, <2>2 DEF Shift
  <2> QED
    BY <2>1, <2>3
<1>6. ASSUME \E j \in DOMAIN answers : 1 < j /\ answers[j].kind \in FreqChanges PROVE Told(FreqChanges)'
  <2>1. PICK j \in DOMAIN answers : 1 < j /\ answers[j].kind \in FreqChanges
    BY <1>6
  <2>2. j # 1
    BY <2>1
  <2>3. j - 1 \in DOMAIN answers' /\ answers'[j - 1] = answers[j]
    BY <1>2, <2>2 DEF Shift
  <2> QED
    BY <2>1, <2>3 DEF Told
<1>7. \A i \in DOMAIN answers' : i + 1 \in DOMAIN answers /\ answers'[i] = answers[i + 1]
  BY <1>2 DEF Shift
<1>8. \A i \in DOMAIN answers' : answers'[i].kind = "freq" =>
        \/ answers'[i].snap.phase = "checking"
        \/ answers'[i].snap.lock = server'.lock /\ answers'[i].snap.phase = server'.phase
        \/ \E j \in DOMAIN answers' : i < j /\ answers'[j].kind \in FreqChanges
  BY <1>3, <1>5, <1>7 DEF FreqInv, FreqAgrees
<1>9. \A i \in DOMAIN answers' : answers'[i].snap.phase \in Decided =>
        \/ answers'[i].snap.phase = server'.phase
        \/ \E j \in DOMAIN answers' : i < j /\ answers'[j].kind \in FreqChanges
  BY <1>3, <1>5, <1>7 DEF FreqInv, VerdictHolds
<1>10. CASE FreqAnswered
  <2> DEFINE p == [page EXCEPT !.shown = answers[1].snap.lock, !.guard = answers[1].snap.phase]
  <2>1. page' = Followed(p) /\ answers[1].kind = "freq"
    BY <1>2, <1>10 DEF FreqAnswered, Reply
  <2>2. answers[1].snap \in FreqModules
    <3>1. answers[1] \in AnswersOf(FreqCalls, FreqModules)
      BY <1>0, <1>2
    <3> QED
      BY <3>1 DEF AnswersOf
  <2>3. /\ p \in FreqPages /\ p.shown = answers[1].snap.lock /\ p.guard = answers[1].snap.phase
        /\ p.verdict = page.verdict
    BY <1>0, <2>2 DEF FreqPages, FreqModules, Shows
  <2> HIDE DEF p
  <2>4. /\ page'.shown = answers[1].snap.lock /\ page'.guard = answers[1].snap.phase
        /\ answers[1].snap.phase = "checking" => page'.timer
        /\ page'.verdict \in {page.verdict, answers[1].snap.phase}
    BY <2>1, <2>3, FollowedIs
  <2>5. \/ page'.shown = server'.lock /\ page'.guard = server'.phase /\ page'.guard # "checking"
        \/ page'.timer \/ Told(FreqChanges)'
    BY <1>2, <1>3, <1>6, <2>1, <2>4 DEF FreqInv, FreqAgrees
  <2>6. page'.verdict \in Decided => page'.verdict = server'.phase \/ Told(FreqChanges)'
    <3>1. "freq" \notin FreqChanges
      BY DEF FreqChanges
    <3>2. Told(FreqChanges) => Told(FreqChanges)'
      BY <1>4, <2>1, <3>1
    <3> QED
      BY <1>2, <1>3, <1>6, <2>4, <3>2 DEF FreqInv, VerdictHolds
  <2>7. Told(FreqChanges)' => Told({"freq"} \union FreqChanges)'
    BY DEF Told
  <2> QED
    BY <1>8, <1>9, <2>5, <2>6, <2>7 DEF FreqInv, FreqAgrees, VerdictHolds
<1>11. CASE FreqSet
  <2>1. UnderWay({"freq"})'
    BY <1>11, FreqSends
  <2>2. page'.verdict \in {"none", "refused"}
    BY <1>0, <1>11 DEF FreqSet, FreqPages
  <2> QED
    BY <1>8, <1>9, <2>1, <2>2 DEF FreqInv, FreqAgrees, VerdictHolds, Decided
<1> QED
  BY <1>10, <1>11 DEF FreqAnswer

LEMMA FreqDecides ==
  ASSUME panel = "freq", Typed(FreqPages, FreqModules, FreqCalls), GuardDecides
  PROVE  /\ Typed(FreqPages, FreqModules, FreqCalls)' /\ UNCHANGED <<panel, failures>>
         /\ NothingFailed => NothingFailed'
         /\ FreqInv => FreqInv'
<1>1. UNCHANGED <<panel, page, flights, answers, failures>> /\ server.phase = "checking"
  BY DEF GuardDecides, calls, bounds
<1>2. server' \in FreqModules /\ server'.phase \in Decided
  <2>1. PICK phase \in Decided :
          server' = [(IF phase # "reverted" THEN server ELSE [server EXCEPT !.lock = server.previous])
                     EXCEPT !.phase = phase]
    BY DEF GuardDecides, Decided
  <2>2. server \in FreqModules
    BY DEF Typed
  <2>3. [server EXCEPT !.lock = server.previous] \in FreqModules
    BY <2>2 DEF FreqModules
  <2> DEFINE m == IF phase # "reverted" THEN server ELSE [server EXCEPT !.lock = server.previous]
  <2>4. m \in FreqModules /\ server' = [m EXCEPT !.phase = phase]
    BY <2>1, <2>2, <2>3
  <2> HIDE DEF m
  <2> QED
    BY <2>4 DEF FreqModules, Decided, GuardPhases
<1>3. Typed(FreqPages, FreqModules, FreqCalls)'
  BY <1>1, <1>2 DEF Typed
<1>4. NothingFailed => NothingFailed'
  BY <1>1 DEF NothingFailed
<1>5. \A kinds : (Told(kinds)' <=> Told(kinds)) /\ (UnderWay(kinds)' <=> UnderWay(kinds))
  BY <1>1 DEF Told, UnderWay
<1>6. ASSUME FreqInv PROVE FreqInv'
  <2>1. FreqAgrees'
    BY <1>1, <1>5, <1>6 DEF FreqInv, FreqAgrees
  <2>2. VerdictHolds'
    BY <1>1, <1>5, <1>6 DEF FreqInv, VerdictHolds, Decided
  <2> QED
    BY <2>1, <2>2 DEF FreqInv
<1> QED
  BY <1>1, <1>3, <1>4, <1>6

LEMMA FreqServed ==
  ASSUME TypeOK, panel = "freq", NEW i \in DOMAIN flights, ServerHandles(i),
         failures = 0, failures' = 0, NothingFailed, FreqInv
  PROVE  NothingFailed' /\ FreqInv'
<1> DEFINE c == flights[i]
<1>0. /\ flights \in Seq(FreqCalls) /\ answers \in Seq(AnswersOf(FreqCalls, FreqModules))
      /\ page \in FreqPages /\ server \in FreqModules /\ c \in FreqCalls
  BY DEF TypeOK, Typed
<1>1. c.kind = "freq" \/ c.kind \in FreqChanges
  BY <1>0 DEF FreqCalls, CallsOf, FreqChanges
<1> HIDE DEF c
<1>2. /\ server' = HandledBy(c, TRUE) /\ Grow(c)
      /\ \A kinds : UnderWay(kinds) => UnderWay(kinds)' \/ c.kind \in kinds
      /\ NothingFailed'
  <2>1. flights[i].kind # "scan_start"
    BY <1>1 DEF c, FreqChanges
  <2> QED
    BY <1>0, <2>1, ObeyedGrows DEF c
<1>3. UNCHANGED <<panel, page>>
  BY HandledIs
<1>4. server' = FreqHandled(c, TRUE)
  BY <1>2 DEF HandledBy, Lists
<1>5. PICK last \in Nat :
        /\ DOMAIN answers' = DOMAIN answers \union {last}
        /\ answers'[last].kind = c.kind /\ answers'[last].snap = server'
        /\ \A k \in DOMAIN answers : k \in Nat /\ k < last /\ answers'[k] = answers[k]
  BY <1>2 DEF Grow
<1>6. \A kinds : Told(kinds) \/ c.kind \in kinds => Told(kinds)'
  BY <1>5 DEF Told
<1>7. Told({"freq"} \union FreqChanges)'
  BY <1>1, <1>6
<1>8. CASE c.kind = "freq"
  <2>1. server' = server
    BY <1>4, <1>8 DEF FreqHandled
  <2>2. FreqAgrees'
    BY <1>5, <1>7, <1>8, <2>1 DEF FreqInv, FreqAgrees
  <2>3. VerdictHolds'
    BY <1>3, <1>5, <1>6, <1>8, <2>1 DEF FreqInv, VerdictHolds
  <2> QED
    BY <1>2, <2>2, <2>3 DEF FreqInv
<1>9. CASE c.kind \in FreqChanges
  <2>1. Told(FreqChanges)'
    BY <1>6, <1>9
  <2>2. /\ last \in DOMAIN answers' /\ answers'[last].kind \in FreqChanges
        /\ \A k \in DOMAIN answers' : k # last => k < last
    BY <1>5, <1>9
  <2>3. FreqAgrees'
    <3>1. "freq" \notin FreqChanges
      BY DEF FreqChanges
    <3> QED
      BY <1>7, <2>2, <3>1 DEF FreqAgrees
  <2>4. VerdictHolds'
    BY <1>5, <2>1, <2>2 DEF VerdictHolds
  <2> QED
    BY <1>2, <2>3, <2>4 DEF FreqInv
<1> QED
  BY <1>1, <1>8, <1>9

\* Every step of the frequency lock's panel keeps the types and, while nothing
\* failed, what the replies, the page and its verdict say.
LEMMA FreqStep ==
  ASSUME TypeOK, panel = "freq", ValuesAssumption, NetworkNext,
         failures = 0 => NothingFailed /\ FreqInv
  PROVE  /\ panel' = panel /\ Typed(FreqPages, FreqModules, FreqCalls)'
         /\ failures' = 0 => NothingFailed' /\ FreqInv'
<1>0. Typed(FreqPages, FreqModules, FreqCalls) /\ failures \in Nat
  BY DEF TypeOK
<1>1. CASE Freq \/ FreqAnswer \/ EnterNetwork
  <2>1. failures = 0 => NothingFailed' /\ FreqInv'
    BY <1>0, <1>1, FreqSends, FreqStays, FreqHears
  <2> QED
    BY <1>0, <1>1, <2>1, FreqSends
<1>2. CASE \E i \in DOMAIN flights : ServerHandles(i)
  <2>1. PICK i \in DOMAIN flights : ServerHandles(i)
    BY <1>2
  <2>2. failures' = 0 => failures = 0
    BY <2>1, ServedCounts
  <2> QED
    BY <2>1, <2>2, FreqTypesServed, FreqServed, HandledIs
<1>3. CASE \E i \in DOMAIN flights : CallFails(i)
  <2>1. PICK i \in DOMAIN flights : CallFails(i)
    BY <1>3
  <2> QED
    BY <2>1, FreqTypesServed, FailureIsCounted DEF CallFails, GiveUp, Mishap
<1>4. CASE GuardDecides
  BY <1>0, <1>4, FreqDecides
<1>5. ~LeaveNetwork
  BY DEF LeaveNetwork
<1> QED
  BY <1>1, <1>2, <1>3, <1>4, <1>5 DEF NetworkNext, PanelStep, Deliver, Lists

-----------------------------------------------------------------------------
(* Cell locks and scans.                                                   *)

\* Ticks are on rows, on several LTE cells or on one NR cell.
Chosen(p) == /\ p.selected \subseteq p.rows
             /\ p.selected \subseteq Lte \/ \E c \in Nr : p.selected = {c}

LEMMA ClearedIs ==
  ASSUME NEW p \in CellsPages
  PROVE  Cleared(p) \in CellsPages /\ Chosen(Cleared(p))
BY DEF Cleared, CellsPages, Chosen

\* Whatever result is shown, nothing of it is ticked.
LEMMA ShownIs ==
  ASSUME NEW p \in CellsPages, NEW kind \in Kinds, NEW match
  PROVE  Shown(p, kind, match) \in CellsPages /\ Chosen(Shown(p, kind, match))
<1> DEFINE r == p.results[kind]
           q == Cleared(p)
           mode == IF kind = "full" THEN r.mode ELSE q.mode
<1>1. r \in Results
  BY DEF CellsPages
<1>2. q \in CellsPages /\ Chosen(q) /\ q.selected = {}
  BY ClearedIs DEF Cleared, CellsPages
<1>3. Shown(p, kind, match) = q \/ Shown(p, kind, match) = [q EXCEPT !.mode = mode, !.rows = r.cells]
  BY DEF Shown
<1>4. mode \in ScanModes \union {"none"} /\ r.cells \in SUBSET Cells
  BY <1>1, <1>2 DEF Results, CellsPages
<1> HIDE DEF r, q, mode
<1>5. [q EXCEPT !.mode = mode, !.rows = r.cells] \in CellsPages
  BY <1>2, <1>4 DEF CellsPages
<1>6. Chosen([q EXCEPT !.mode = mode, !.rows = r.cells])
  BY <1>2 DEF CellsPages, Chosen
<1> QED
  BY <1>2, <1>3, <1>5, <1>6

\* applyScanStatus leaves the ticks, or takes the rows with them.
LEMMA AppliedIs ==
  ASSUME NEW p \in CellsPages, Chosen(p), NEW s \in CellsModules, NEW started \in BOOLEAN
  PROVE  Applied(p, s, started) \in CellsPages /\ Chosen(Applied(p, s, started))
<1> DEFINE q == [p EXCEPT !.known = TRUE, !.results = s.results, !.poll = FALSE]
           over == [q EXCEPT !.loading = FALSE, !.scanning = FALSE]
           first == [over EXCEPT !.kind = s.latest]
<1>1. q \in CellsPages /\ Chosen(q)
  BY DEF CellsPages, CellsModules, Chosen
<1> HIDE DEF q
<1>2. over \in CellsPages /\ Chosen(over)
  BY <1>1 DEF CellsPages, Chosen
<1>3. q.kind \in Kinds /\ s.latest \in Kinds
  BY <1>1 DEF CellsPages, CellsModules
<1> HIDE DEF over
<1>4. first \in CellsPages
  BY <1>2, <1>3 DEF CellsPages
<1> HIDE DEF first
<1>5. CASE s.running # "none"
  <2>1. s.running \in Kinds /\ s.mode \in ScanModes
    BY <1>5 DEF CellsModules
  <2> DEFINE mode == IF s.running = "full" THEN s.mode ELSE q.mode
  <2>2. mode \in ScanModes \union {"none"}
    BY <1>1, <2>1 DEF CellsPages
  <2>3. ScanFollowed(q, s) =
          [q EXCEPT !.loading = TRUE, !.scanning = TRUE, !.kind = s.running, !.poll = TRUE, !.mode = mode]
    BY DEF ScanFollowed
  <2> DEFINE run == s.running
             w == [q EXCEPT !.loading = TRUE, !.scanning = TRUE, !.kind = run, !.poll = TRUE, !.mode = mode]
  <2>a. run \in Kinds /\ ScanFollowed(q, s) = w
    BY <2>1, <2>3
  <2> HIDE DEF mode, run
  <2>b. w \in CellsPages
    BY <1>1, <2>2, <2>a DEF CellsPages
  <2>c. w.selected = q.selected /\ w.rows = q.rows
    BY <1>1 DEF CellsPages
  <2> HIDE DEF w
  <2>4. ScanFollowed(q, s) \in CellsPages /\ Chosen(ScanFollowed(q, s))
    BY <1>1, <2>a, <2>b, <2>c DEF Chosen
  <2>5. Applied(p, s, started) = ScanFollowed(q, s)
    BY <1>5 DEF Applied, q
  <2> QED
    BY <2>4, <2>5
<1>6. CASE s.running = "none"
  <2>1. Applied(p, s, started) \in {Shown(over, q.kind, FALSE), Shown(first, s.latest, FALSE), over}
    BY <1>6 DEF Applied, q, over, first
  <2> QED
    BY <1>2, <1>3, <1>4, <2>1, ShownIs
<1> QED
  BY <1>5, <1>6

LEMMA ReadsAreCalls ==
  /\ ReadLocks \in CellsCalls /\ ReadScans \in CellsCalls
  /\ \A p : ReadSettings(p) \in Seq(CellsCalls)
  /\ \A p : RefreshLocks(p) \in Seq(CellsCalls) /\ RefreshLocks(p) \o <<ReadScans>> \in Seq(CellsCalls)
<1>1. ReadLocks \in CellsCalls /\ ReadScans \in CellsCalls
  BY DEF ReadLocks, ReadScans, Ask, CellsCalls, CallsOf
<1>2. Ask("settings", All, Unknown) \in CellsCalls
  BY DEF Ask, CellsCalls, CallsOf
<1>3. \A p : ReadSettings(p) \in Seq(CellsCalls)
  BY <1>2 DEF ReadSettings
<1>4. \A p : RefreshLocks(p) \in Seq(CellsCalls)
  BY <1>1 DEF RefreshLocks
<1>5. \A s \in Seq(CellsCalls) : s \o <<ReadScans>> \in Seq(CellsCalls)
  <2> DEFINE t == <<ReadScans>>
  <2>1. t \in Seq(CellsCalls)
    BY <1>1
  <2> HIDE DEF t
  <2>2. ASSUME NEW s \in Seq(CellsCalls) PROVE s \o t \in Seq(CellsCalls)
    BY <2>1, ConcatProperties
  <2> QED
    BY <2>2 DEF t
<1> QED
  BY <1>1, <1>3, <1>4, <1>5

CellsType == Typed(CellsPages, CellsModules, CellsCalls)

\* What is sent or answered keeps the queues; the fields are a matter of each step.
LEMMA CellsQueues ==
  ASSUME CellsType, page' \in CellsPages, server' = server,
         NEW new \in Seq(CellsCalls), Send(new) \/ (answers # <<>> /\ Done(new))
  PROVE  CellsType'
<1>1. flights \in Seq(CellsCalls) /\ answers \in Seq(AnswersOf(CellsCalls, CellsModules))
  BY DEF CellsType, Typed
<1>2. flights' \in Seq(CellsCalls) /\ answers' \in Seq(AnswersOf(CellsCalls, CellsModules))
  BY <1>1, SentTypes
<1> QED
  BY <1>2 DEF CellsType, Typed

LEMMA CellsUser ==
  ASSUME panel = "cells", CellsType, Chosen(page),
         \/ SetScanKind \/ ScanModeChange \/ StartCellScan \/ ClearRows \/ ToggleCell
         \/ LockSelected \/ LockByHand
  PROVE  CellsType' /\ Chosen(page)' /\ panel' = panel
<1>0. page \in CellsPages /\ server \in CellsModules
  BY DEF CellsType, Typed
<1>1. UNCHANGED <<panel, server>>
  BY DEF SetScanKind, ScanModeChange, StartCellScan, ClearRows, ToggleCell, LockSelected, LockByHand, User
<1>2. ASSUME SendNothing, page' \in CellsPages PROVE CellsType'
  BY <1>1, <1>2 DEF SendNothing, calls, CellsType, Typed
<1>3. CASE SetScanKind
  <2>1. PICK k \in Kinds : page' = Shown([page EXCEPT !.kind = k], k, FALSE) /\ SendNothing
    BY <1>3 DEF SetScanKind
  <2>2. [page EXCEPT !.kind = k] \in CellsPages
    BY <1>0 DEF CellsPages
  <2> QED
    BY <1>1, <1>2, <2>1, <2>2, ShownIs
<1>4. CASE ScanModeChange
  <2>1. PICK m \in ScanModes : page' = Shown([page EXCEPT !.mode = m], "full", TRUE) /\ SendNothing
    BY <1>4 DEF ScanModeChange
  <2>2. [page EXCEPT !.mode = m] \in CellsPages /\ "full" \in Kinds
    BY <1>0 DEF CellsPages, Kinds
  <2> QED
    BY <1>1, <1>2, <2>1, <2>2, ShownIs
<1>5. CASE StartCellScan
  <2> DEFINE c == Ask("scan_start", page.kind, page.mode)
             q == Cleared(page)
  <2>1. page' = [q EXCEPT !.loading = TRUE, !.scanning = TRUE] /\ Send(<<c>>)
    BY <1>5 DEF StartCellScan
  <2>2. c \in CellsCalls
    BY <1>0, <1>5 DEF StartCellScan, Ask, CellsCalls, CallsOf, CellsPages, Kinds
  <2>3. q \in CellsPages /\ Chosen(q)
    BY <1>0, ClearedIs
  <2> HIDE DEF c, q
  <2>4. page' \in CellsPages /\ Chosen(page)'
    BY <2>1, <2>3 DEF CellsPages, Chosen
  <2>5. <<c>> \in Seq(CellsCalls)
    BY <2>2
  <2> QED
    BY <1>1, <2>1, <2>4, <2>5, CellsQueues
<1>6. CASE ClearRows
  BY <1>0, <1>1, <1>2, <1>6, ClearedIs DEF ClearRows
<1>7. CASE ToggleCell
  <2>1. PICK c \in ScannedCells(page) :
          page' = [page EXCEPT !.selected =
            IF c \in page.selected THEN page.selected \ {c}
            ELSE IF c \in Nr \/ page.selected \intersect Lte = {} THEN {c}
            ELSE page.selected \union {c}]
    BY <1>7 DEF ToggleCell
  <2>2. c \in page.rows /\ page.rows \subseteq Cells
    BY <1>0 DEF ScannedCells, CellsPages, Kinds, ScanModes
  <2> DEFINE new == IF c \in page.selected THEN page.selected \ {c}
                    ELSE IF c \in Nr \/ page.selected \intersect Lte = {} THEN {c}
                    ELSE page.selected \union {c}
  <2>3. new \subseteq page.rows
    BY <2>2 DEF Chosen
  <2>4. new \subseteq Lte \/ \E n \in Nr : new = {n}
    BY <2>2 DEF Chosen, Cells
  <2>5. page' = [page EXCEPT !.selected = new]
    BY <2>1
  <2> HIDE DEF new
  <2>6. page' \in CellsPages /\ Chosen(page)'
    BY <1>0, <2>2, <2>3, <2>4, <2>5 DEF CellsPages, Chosen
  <2> QED
    BY <1>1, <1>2, <1>7, <2>6 DEF ToggleCell
<1>8. CASE LockSelected
  <2>1. page' = [page EXCEPT !.busy = TRUE] /\ Send(<<Ask("cell_lock", "init", page.selected)>>)
    BY <1>8 DEF LockSelected
  <2>2. <<Ask("cell_lock", "init", page.selected)>> \in Seq(CellsCalls)
    BY <1>0 DEF Ask, CellsCalls, CallsOf, CellsPages
  <2>3. page' \in CellsPages /\ Chosen(page)'
    BY <1>0, <2>1 DEF CellsPages, Chosen
  <2> QED
    BY <1>1, <2>1, <2>2, <2>3, CellsQueues
<1>9. CASE LockByHand
  <2>1. PICK key \in {"init", "saved"}, cells \in {{}} \union {{c} : c \in Cells} :
          Send(<<Ask("cell_lock", key, cells)>>)
    BY <1>9 DEF LockByHand
  <2>2. <<Ask("cell_lock", key, cells)>> \in Seq(CellsCalls)
    BY DEF Ask, CellsCalls, CallsOf
  <2>3. page' \in CellsPages /\ Chosen(page)'
    BY <1>0, <1>9 DEF LockByHand, CellsPages, Chosen
  <2> QED
    BY <1>1, <2>1, <2>2, <2>3, CellsQueues
<1> QED
  BY <1>3, <1>4, <1>5, <1>6, <1>7, <1>8, <1>9

LEMMA CellsTimers ==
  ASSUME panel = "cells", CellsType, Chosen(page),
         LockTick \/ ScanTimerFires \/ LockCountdownEnds \/ EnterNetwork \/ LeaveNetwork
  PROVE  CellsType' /\ Chosen(page)' /\ panel' = panel
<1>0. page \in CellsPages /\ server \in CellsModules
  BY DEF CellsType, Typed
<1>1. UNCHANGED <<panel, server>>
  BY DEF LockTick, ScanTimerFires, LockCountdownEnds, EnterNetwork, LeaveNetwork, Page
<1>2. page' \in CellsPages /\ Chosen(page)'
  <2>1. CASE LockTick
    <3>1. page' = [page EXCEPT !.refreshing = TRUE]
      BY <2>1 DEF LockTick
    <3> QED
      BY <1>0, <3>1 DEF CellsPages, Chosen
  <2>2. CASE ScanTimerFires
    <3>1. page' = [page EXCEPT !.poll = FALSE]
      BY <2>2 DEF ScanTimerFires
    <3> QED
      BY <1>0, <3>1 DEF CellsPages, Chosen
  <2>3. CASE LockCountdownEnds
    <3>1. page' = [page EXCEPT !.countdown = FALSE, !.settingsCall = TRUE]
      BY <2>3 DEF LockCountdownEnds
    <3> QED
      BY <1>0, <3>1 DEF CellsPages, Chosen
  <2>4. CASE EnterNetwork
    <3>1. page' = [page EXCEPT !.refreshing = TRUE, !.timer = TRUE]
      BY <2>4 DEF EnterNetwork
    <3> QED
      BY <1>0, <3>1 DEF CellsPages, Chosen
  <2>5. CASE LeaveNetwork
    <3>1. page' = [page EXCEPT !.timer = FALSE]
      BY <2>5 DEF LeaveNetwork
    <3> QED
      BY <1>0, <3>1 DEF CellsPages, Chosen
  <2> QED
    BY <2>1, <2>2, <2>3, <2>4, <2>5
<1>3. ASSUME NEW c \in CellsCalls, Send(<<c>>) PROVE CellsType'
  <2>1. <<c>> \in Seq(CellsCalls)
    OBVIOUS
  <2> QED
    BY <1>1, <1>2, <1>3, <2>1, CellsQueues
<1>4. CASE LockTick
  BY <1>1, <1>2, <1>3, <1>4, ReadsAreCalls DEF LockTick
<1>5. CASE ScanTimerFires
  BY <1>1, <1>2, <1>3, <1>5, ReadsAreCalls DEF ScanTimerFires
<1>6. CASE LockCountdownEnds
  <2>1. Send(ReadSettings(page)) /\ ReadSettings(page) \in Seq(CellsCalls)
    BY <1>6, ReadsAreCalls DEF LockCountdownEnds
  <2> QED
    BY <1>1, <1>2, <2>1, CellsQueues
<1>7. CASE EnterNetwork
  <2>1. /\ Send(RefreshLocks(page) \o <<ReadScans>>)
        /\ RefreshLocks(page) \o <<ReadScans>> \in Seq(CellsCalls)
    BY <1>7, ReadsAreCalls DEF EnterNetwork
  <2> QED
    BY <1>1, <1>2, <2>1, CellsQueues
<1>8. CASE LeaveNetwork
  BY <1>1, <1>2, <1>8 DEF LeaveNetwork, calls, CellsType, Typed
<1> QED
  BY <1>4, <1>5, <1>6, <1>7, <1>8

LEMMA CellsHears ==
  ASSUME panel = "cells", CellsType, Chosen(page), CellsAnswer
  PROVE  CellsType' /\ Chosen(page)' /\ panel' = panel
<1>0. /\ page \in CellsPages /\ server \in CellsModules
      /\ flights \in Seq(CellsCalls) /\ answers \in Seq(AnswersOf(CellsCalls, CellsModules))
  BY DEF CellsType, Typed
<1>1. UNCHANGED <<panel, server>> /\ answers # <<>>
  BY DEF CellsAnswer, LocksAnswered, ScanAnswered, CellLockAnswered, LocksRead, Page, Reply
<1> DEFINE a == Head(answers)
           snap == a.snap
<1>2. a.ok \in BOOLEAN /\ snap \in CellsModules /\ snap.lock \in Locks
  <2>1. a.ok \in BOOLEAN /\ snap \in CellsModules
    BY <1>0, <1>1, HeadIs
  <2> HIDE DEF snap
  <2> QED
    BY <2>1 DEF CellsModules
<1>3. <<>> \in Seq(CellsCalls)
  OBVIOUS
<1>4. CASE LocksAnswered
  <2>1. page' = [page EXCEPT !.lock = snap.lock, !.refreshing = FALSE] /\ Done(<<>>)
    BY <1>4 DEF LocksAnswered
  <2> HIDE DEF snap
  <2>2. page' \in CellsPages /\ Chosen(page)'
    BY <1>0, <1>2, <2>1 DEF CellsPages, Chosen
  <2> QED
    BY <1>1, <1>3, <2>1, <2>2, CellsQueues
<1>5. CASE LocksRead
  <2>1. page' = [page EXCEPT !.lock = snap.lock, !.settingsCall = FALSE] /\ Done(<<>>)
    BY <1>5 DEF LocksRead
  <2> HIDE DEF snap
  <2>2. page' \in CellsPages /\ Chosen(page)'
    BY <1>0, <1>2, <2>1 DEF CellsPages, Chosen
  <2> QED
    BY <1>1, <1>3, <2>1, <2>2, CellsQueues
<1>6. CASE ScanAnswered
  <2> DEFINE started == a.kind = "scan_start"
  <2>1. page' = IF a.ok THEN Applied(page, snap, started) ELSE ScanStopped(page)
    BY <1>6 DEF ScanAnswered
  <2>2. Done(<<>>)
    BY <1>6 DEF ScanAnswered
  <2>3. started \in BOOLEAN
    OBVIOUS
  <2> HIDE DEF snap, started, a
  <2>4. Applied(page, snap, started) \in CellsPages /\ Chosen(Applied(page, snap, started))
    BY <1>0, <1>2, <2>3, AppliedIs
  <2>5. ScanStopped(page) \in CellsPages /\ Chosen(ScanStopped(page))
    BY <1>0 DEF ScanStopped, CellsPages, Chosen
  <2>6. page' \in CellsPages /\ Chosen(page')
    BY <2>1, <2>4, <2>5
  <2>7. Chosen(page)'
    BY <2>6 DEF Chosen
  <2> QED
    BY <1>1, <1>3, <2>2, <2>6, <2>7, CellsQueues
<1>7. CASE CellLockAnswered
  <2> DEFINE down == page.countdown \/ a.key = "init"
  <2>1. CASE a.ok
    <3>1. /\ page' = [LockTaken(page, snap.lock) EXCEPT !.countdown = down]
          /\ Done(RefreshLocks(page))
      BY <1>7, <2>1 DEF CellLockAnswered, LockTaken
    <3>2. down \in BOOLEAN
      OBVIOUS
    <3>3. page' = [page EXCEPT !.busy = FALSE, !.lock = snap.lock, !.refreshing = TRUE, !.countdown = down]
      BY <3>1 DEF LockTaken
    <3> HIDE DEF snap, down
    <3>4. page' \in CellsPages /\ Chosen(page)'
      BY <1>0, <1>2, <3>2, <3>3 DEF CellsPages, Chosen
    <3> QED
      BY <1>1, <3>1, <3>4, CellsQueues, ReadsAreCalls
  <2>2. CASE ~a.ok
    <3>1. page' = [page EXCEPT !.busy = FALSE] /\ Done(<<>>)
      BY <1>7, <2>2 DEF CellLockAnswered
    <3>2. page' \in CellsPages /\ Chosen(page)'
      BY <1>0, <3>1 DEF CellsPages, Chosen
    <3> QED
      BY <1>1, <1>3, <3>1, <3>2, CellsQueues
  <2> QED
    BY <2>1, <2>2
<1> QED
  BY <1>4, <1>5, <1>6, <1>7 DEF CellsAnswer

LEMMA CellsElsewhere ==
  ASSUME panel = "cells", CellsType, Chosen(page), ScansAssumption,
         AutoUnlock \/ OtherBrowserScans \/ ScanFinishes \/ ResultExpires
  PROVE  CellsType' /\ Chosen(page)' /\ panel' = panel
<1>0. server \in CellsModules
  BY DEF CellsType, Typed
<1>1. UNCHANGED <<panel, page, flights, answers>>
  BY DEF AutoUnlock, OtherBrowserScans, ScanFinishes, ResultExpires, calls
<1>2. server' \in CellsModules
  <2>1. CASE AutoUnlock
    BY <1>0, <2>1 DEF AutoUnlock, CellsModules, Locks
  <2>2. CASE OtherBrowserScans
    BY <1>0, <2>2 DEF OtherBrowserScans, CellsModules, ScanModes
  <2>3. CASE ScanFinishes
    <3>1. PICK cells \in Scans \union {{}}, state \in {"cells", "error"} :
            server' = [server EXCEPT !.running = "none", !.latest = server.running,
              !.results[server.running] = [state |-> state, mode |-> server.mode, cells |-> cells]]
      BY <2>3 DEF ScanFinishes
    <3>2. server.running \in Kinds /\ server.mode \in ScanModes
      BY <1>0, <2>3 DEF ScanFinishes, CellsModules
    <3> DEFINE r == [state |-> state, mode |-> server.mode, cells |-> cells]
               k == server.running
    <3>3. r \in Results
      BY <3>2, ScansAssumption DEF Results, Cells
    <3>4. server' = [server EXCEPT !.running = "none", !.latest = k, !.results[k] = r]
      BY <3>1
    <3> HIDE DEF r
    <3> QED
      BY <1>0, <3>2, <3>3, <3>4 DEF CellsModules
  <2>4. CASE ResultExpires
    <3>1. NoResult \in Results
      BY DEF NoResult, Results, ScanModes
    <3> QED
      BY <1>0, <2>4, <3>1 DEF ResultExpires, CellsModules
  <2> QED
    BY <2>1, <2>2, <2>3, <2>4
<1> QED
  BY <1>1, <1>2 DEF CellsType, Typed, Chosen

LEMMA CellsServed ==
  ASSUME TypeOK, panel = "cells", Chosen(page), NEW i \in DOMAIN flights,
         ServerHandles(i) \/ CallFails(i)
  PROVE  CellsType' /\ Chosen(page)' /\ panel' = panel
<1> DEFINE c == flights[i]
<1>0. /\ Typed(CellsPages, CellsModules, CellsCalls) /\ c \in CellsCalls
      /\ page \in CellsPages /\ server \in CellsModules
  BY DEF TypeOK, Typed
<1>1. CASE ServerHandles(i)
  <2>1. PICK ok \in BOOLEAN : Reacts(i, ok)
    BY <1>1, HandledIs, Zenon
  <2>2. server' = CellsHandled(c, ok)
    BY <2>1 DEF Reacts, HandledBy, Lists
  <2>3. server' \in CellsModules
    <3> HIDE DEF c
    <3>1. CASE c.kind = "cell_lock" /\ ok
      <4>1. c.val \in SUBSET Cells
        BY <1>0, <3>1 DEF CellsCalls, CallsOf
      <4>2. server' = [server EXCEPT !.lock = c.val]
        BY <2>2, <3>1 DEF CellsHandled
      <4> QED
        BY <1>0, <4>1, <4>2 DEF CellsModules, Locks
    <3>2. CASE c.kind = "scan_start" /\ ok
      <4> DEFINE mode == IF c.key = "full" THEN c.val ELSE server.mode
      <4>1. c.key \in Kinds /\ mode \in ScanModes
        BY <1>0, <3>2 DEF CellsCalls, CallsOf, Kinds, CellsModules
      <4>2. server' = [server EXCEPT !.running = c.key, !.mode = mode]
        BY <2>2, <3>2 DEF CellsHandled
      <4> HIDE DEF mode
      <4> QED
        BY <1>0, <4>1, <4>2 DEF CellsModules
    <3>3. CASE ~(c.kind = "cell_lock" /\ ok) /\ ~(c.kind = "scan_start" /\ ok)
      BY <1>0, <2>2, <3>3 DEF CellsHandled
    <3> QED
      BY <3>1, <3>2, <3>3
  <2>4. flights' \in Seq(CellsCalls) /\ answers' \in Seq(AnswersOf(CellsCalls, CellsModules))
    BY <1>0, <1>1, <2>1, <2>3, HandledIs, HandledTypes DEF Typed
  <2> QED
    BY <1>0, <1>1, <2>3, <2>4, HandledIs DEF CellsType, Typed, Chosen
<1>2. CASE CallFails(i)
  <2>1. AfterFailure(c) \in Seq(CellsCalls)
    BY DEF AfterFailure, Lists
  <2>2. [c EXCEPT !.orphan = TRUE] \in CellsCalls
    BY <1>0 DEF CellsCalls, CallsOf
  <2>3. flights' \in Seq(CellsCalls)
    BY <1>0, <1>2, <2>1, <2>2, FailedTypes DEF Typed, CallFails, GiveUp, Mishap
  <2>4. page' = CellsFailed(c)
    BY <1>2 DEF CallFails, GiveUp, Mishap, FailedBy, Lists
  <2> HIDE DEF c
  <2>5. page' \in CellsPages /\ Chosen(page)'
    BY <1>0, <2>4 DEF CellsFailed, ScanStopped, CellsPages, Chosen
  <2> QED
    BY <1>0, <1>2, <2>3, <2>5 DEF CellsType, Typed, CallFails, GiveUp, Mishap
<1> QED
  BY <1>1, <1>2

\* Every step of the cells' panel keeps the types, and the ticks on the rows.
LEMMA CellsStepKeeps ==
  ASSUME TypeOK, panel = "cells", Chosen(page), ScansAssumption, NetworkNext
  PROVE  CellsType' /\ Chosen(page)' /\ panel' = panel
<1>0. CellsType
  BY DEF TypeOK, CellsType
<1>1. ~GuardDecides
  BY DEF GuardDecides
<1> QED
  BY <1>0, <1>1, CellsUser, CellsTimers, CellsHears, CellsElsewhere, CellsServed
     DEF NetworkNext, PanelStep, Deliver, CellsStep, Lists

-----------------------------------------------------------------------------
(* The band locks and their guard.                                         *)

BandsType == Typed(BandsPages, BandsModules, BandsCalls)

\* A call as the page sends it: somebody waits for the reply.
Fresh == {c \in BandsCalls : ~c.orphan}

\* What is sent or answered keeps the queues, and whoever waited still does.
LEMMA BandsQueues ==
  ASSUME BandsType, page' \in BandsPages, server' = server,
         NEW new \in Seq(Fresh), Send(new) \/ (answers # <<>> /\ Done(new))
  PROVE  /\ BandsType'
         /\ NothingFailed => NothingFailed'
         /\ \A kinds : UnderWay(kinds) => UnderWay(kinds)'
         /\ \A kinds : \A k \in DOMAIN new : new[k].kind \in kinds => UnderWay(kinds)'
<1>1. flights \in Seq(BandsCalls) /\ answers \in Seq(AnswersOf(BandsCalls, BandsModules))
  BY DEF BandsType, Typed
<1>2. new \in Seq(BandsCalls) /\ \A k \in DOMAIN new : ~new[k].orphan
  BY DEF Fresh
<1>3. flights' \in Seq(BandsCalls) /\ answers' \in Seq(AnswersOf(BandsCalls, BandsModules))
  BY <1>1, <1>2, SentTypes
<1>4. /\ NothingFailed => NothingFailed'
      /\ \A kinds : UnderWay(kinds) => UnderWay(kinds)'
      /\ \A kinds : \A k \in DOMAIN new : new[k].kind \in kinds => UnderWay(kinds)'
  BY <1>1, <1>2, SentAsks
<1>5. BandsType'
  BY <1>3 DEF BandsType, Typed
<1> QED
  BY <1>4, <1>5

LEMMA OneCallIs ==
  ASSUME NEW c \in Fresh
  PROVE  <<c>> \in Seq(Fresh) /\ DOMAIN <<c>> = {1} /\ <<c>>[1] = c
OBVIOUS

\* The queries of a list and of the settings; those of the settings are asked
\* unless they are under way.
LEMMA QueriesAre ==
  ASSUME NEW p, NEW k \in Keys
  PROVE  /\ BandQuery(p, k) \in Seq(Fresh) /\ Queries(p, k) \in Seq(Fresh)
         /\ p.settingsCall \/ \E j \in DOMAIN Queries(p, k) : Queries(p, k)[j].kind = "settings"
<1> DEFINE a == BandQuery(p, k)
           b == SettingsQuery(p)
           s == Ask("settings", All, Unknown)
<1>1. Ask("bands", k, Unknown) \in Fresh /\ s \in Fresh /\ s.kind = "settings"
  BY DEF Ask, Fresh, BandsCalls, CallsOf, Keys
<1>2. a \in Seq(Fresh)
  BY <1>1 DEF BandQuery
<1>3. b \in Seq(Fresh) /\ (p.settingsCall \/ b = <<s>>)
  BY <1>1 DEF SettingsQuery
<1>4. Queries(p, k) = a \o b
  BY DEF Queries
<1> HIDE DEF a, b, s
<1>5. Queries(p, k) \in Seq(Fresh)
  BY <1>2, <1>3, <1>4, ConcatProperties
<1>6. ASSUME ~p.settingsCall
      PROVE  \E j \in DOMAIN Queries(p, k) : Queries(p, k)[j].kind = "settings"
  <2>1. b = <<s>> /\ Len(b) = 1 /\ b[1] = s
    BY <1>3, <1>6
  <2>2. Len(a) \in Nat /\ Len(a \o b) = Len(a) + 1 /\ (a \o b)[Len(a) + 1] = s
    BY <1>1, <1>2, <1>3, <2>1
  <2>3. Len(a) + 1 \in DOMAIN Queries(p, k)
    BY <1>4, <1>5, <2>2
  <2> QED
    BY <1>1, <1>4, <2>2, <2>3
<1> QED
  BY <1>2, <1>5, <1>6 DEF a

\* What asking leaves as it is.
AsShown(p, q) == /\ q.shown = p.shown /\ q.setting = p.setting
                 /\ q.countdown = p.countdown /\ q.polls = p.polls

LEMMA AskedIs ==
  ASSUME NEW p \in BandsPages, NEW k \in Keys
  PROVE  /\ Asked(p, k) \in BandsPages /\ AsShown(p, Asked(p, k))
         /\ Asked(p, k).settingsCall /\ Asked(p, k).modelCall = p.modelCall
BY DEF Asked, BandsPages, AsShown

LEMMA InitGoesOnIs ==
  ASSUME NEW p \in BandsPages
  PROVE  /\ InitGoesOn(p) \in BandsPages /\ AsShown(p, InitGoesOn(p))
         /\ InitGoesOn(p).settingsCall /\ InitGoesOn(p).modelCall = "none"
<1>1. All \in Keys
  BY DEF Keys
<1> DEFINE q == Asked(p, All)
<1>2. q \in BandsPages /\ AsShown(p, q) /\ q.settingsCall
  BY <1>1, AskedIs
<1>3. InitGoesOn(p) = [q EXCEPT !.modelCall = "none", !.drawn = TRUE]
  BY DEF InitGoesOn
<1> HIDE DEF q
<1>4. InitGoesOn(p) \in BandsPages
  BY <1>2, <1>3 DEF BandsPages
<1>5. AsShown(q, InitGoesOn(p)) /\ InitGoesOn(p).settingsCall /\ InitGoesOn(p).modelCall = "none"
  BY <1>2, <1>3 DEF BandsPages, AsShown
<1> QED
  BY <1>2, <1>4, <1>5 DEF AsShown

\* init() again asks for the settings, for the model, or waits for the model.
LEMMA ReinitIs ==
  ASSUME NEW p \in BandsPages
  PROVE  /\ Reinit(p) \in BandsPages /\ AsShown(p, Reinit(p)) /\ ReinitCalls(p) \in Seq(Fresh)
         /\ \/ /\ Reinit(p).settingsCall /\ Reinit(p).modelCall = "none"
               /\ ReinitCalls(p) = Queries(p, All)
            \/ /\ Reinit(p).settingsCall = p.settingsCall /\ Reinit(p).modelCall = "pending"
               /\ ReinitCalls(p) = <<Ask("model", All, Unknown)>>
            \/ Reinit(p) = p /\ p.modelCall # "none"
<1>1. All \in Keys /\ Ask("model", All, Unknown) \in Fresh
  BY DEF Keys, Ask, Fresh, BandsCalls, CallsOf
<1>2. CASE p.model
  <2>1. Reinit(p) = InitGoesOn(p) /\ ReinitCalls(p) = Queries(p, All)
    BY <1>2 DEF Reinit, ReinitCalls
  <2> QED
    BY <1>1, <2>1, InitGoesOnIs, QueriesAre
<1>3. CASE ~p.model /\ p.modelCall = "none"
  <2>1. /\ Reinit(p) = [p EXCEPT !.modelCall = "pending", !.attempt = 0]
        /\ ReinitCalls(p) = <<Ask("model", All, Unknown)>>
    BY <1>3 DEF Reinit, ReinitCalls
  <2>2. [p EXCEPT !.modelCall = "pending", !.attempt = 0] \in BandsPages
    BY DEF BandsPages
  <2> QED
    BY <1>1, <2>1, <2>2, OneCallIs DEF BandsPages, AsShown
<1>4. CASE ~p.model /\ p.modelCall # "none"
  <2>1. Reinit(p) = p /\ ReinitCalls(p) = <<>>
    BY <1>4 DEF Reinit, ReinitCalls
  <2>2. ReinitCalls(p) \in Seq(Fresh)
    BY <2>1
  <2> QED
    BY <1>4, <2>1, <2>2 DEF AsShown
<1> QED
  BY <1>2, <1>3, <1>4

\* The list of a key, or of every mode, is known or forgotten; nothing else is touched
\* that a property looks at.
Otherwise(p, q) == /\ q.setting = p.setting /\ q.settingsCall = p.settingsCall /\ q.modelCall = p.modelCall
                   /\ q.countdown = p.countdown /\ q.polls = p.polls

LEMMA KnownIs ==
  ASSUME NEW p \in BandsPages, NEW k \in Keys, NEW bands \in [Modes -> Values]
  PROVE  /\ Known(p, k, bands) \in BandsPages /\ Otherwise(p, Known(p, k, bands))
         /\ \A m \in Modes : Known(p, k, bands).shown[m] = IF k \in {m, All} THEN bands[m] ELSE p.shown[m]
<1> DEFINE shown == [m \in Modes |-> IF k \in {m, All} THEN bands[m] ELSE p.shown[m]]
           q == [p EXCEPT !.shown = shown, !.retries[k] = 0]
<1>1. Known(p, k, bands) = q
  BY DEF Known
<1>2. shown \in [Modes -> Shows]
  BY DEF BandsPages, Shows
<1>3. \A m \in Modes : shown[m] = IF k \in {m, All} THEN bands[m] ELSE p.shown[m]
  OBVIOUS
<1> HIDE DEF shown
<1>4. q \in BandsPages /\ q.shown = shown /\ Otherwise(p, q)
  BY <1>2 DEF BandsPages, Otherwise
<1> QED
  BY <1>1, <1>3, <1>4

LEMMA ForgottenIs ==
  ASSUME NEW p \in BandsPages, NEW k \in Keys
  PROVE  /\ Forgotten(p, k) \in BandsPages /\ Otherwise(p, Forgotten(p, k))
         /\ \A m \in Modes : Forgotten(p, k).shown[m] = IF k \in {m, All} THEN Unknown ELSE p.shown[m]
<1> DEFINE shown == [m \in Modes |-> IF k \in {m, All} THEN Unknown ELSE p.shown[m]]
           q == [p EXCEPT !.shown = shown]
<1>1. Forgotten(p, k) = q
  BY DEF Forgotten
<1>2. shown \in [Modes -> Shows]
  BY DEF BandsPages, Shows
<1>3. \A m \in Modes : shown[m] = IF k \in {m, All} THEN Unknown ELSE p.shown[m]
  OBVIOUS
<1> HIDE DEF shown
<1>4. q \in BandsPages /\ q.shown = shown /\ Otherwise(p, q)
  BY <1>2 DEF BandsPages, Otherwise
<1> QED
  BY <1>1, <1>3, <1>4

LEMMA VerdictForgetsIs ==
  ASSUME NEW p \in BandsPages
  PROVE  /\ VerdictForgets(p) \in BandsPages /\ Otherwise(p, VerdictForgets(p))
         /\ \A m \in Modes : VerdictForgets(p).shown[m] = Unknown
<1>1. All \in Keys
  BY DEF Keys
<1> DEFINE q == Forgotten(p, All)
<1>2. q \in BandsPages /\ Otherwise(p, q) /\ \A m \in Modes : q.shown[m] = Unknown
  BY <1>1, ForgottenIs
<1>3. VerdictForgets(p) = [q EXCEPT !.inFlight = @ \union {All}]
  BY DEF VerdictForgets
<1> HIDE DEF q
<1> QED
  BY <1>1, <1>2, <1>3 DEF BandsPages, Otherwise

LEMMA ScheduleRetryIs ==
  ASSUME NEW p \in BandsPages, NEW k \in Keys
  PROVE  /\ ScheduleRetry(p, k) \in BandsPages /\ Otherwise(p, ScheduleRetry(p, k))
         /\ ScheduleRetry(p, k).shown = p.shown
<1> DEFINE n == p.retries[k] + 1
           r == p.retry \union {k}
           q == [p EXCEPT !.retries[k] = n, !.retry = r]
<1>1. ScheduleRetry(p, k) = p \/ ScheduleRetry(p, k) = q
  BY DEF ScheduleRetry
<1>2. n \in Nat /\ r \in SUBSET Keys
  BY DEF BandsPages
<1> HIDE DEF n, r
<1>3. q \in BandsPages /\ q.shown = p.shown /\ Otherwise(p, q)
  BY <1>2 DEF BandsPages, Otherwise
<1> QED
  BY <1>1, <1>3 DEF Otherwise

\* What a step of the page keeps, while no call failed.
BandsKept == /\ BandsType' /\ UNCHANGED <<panel, server, failures>>
             /\ NothingFailed => NothingFailed'
             /\ NothingFailed /\ BandsInv => BandsInv'

\* What the page waits for, when it asks for more and hears nothing.
LEMMA BandsWaits ==
  ASSUME UNCHANGED <<server, answers>>, page'.shown = page.shown, page'.setting = page.setting,
         \A kinds : UnderWay(kinds) => UnderWay(kinds)',
         page.polls > 0 => page'.polls > 0 \/ UnderWay({"band_guard"})',
         "save" \in page.countdown => \/ "save" \in page'.countdown
                                      \/ UnderWay({"model", "settings"})' \/ Told({"model", "settings"}),
         BandsInv, WaitsForCalls'
  PROVE  BandsInv'
<1>1. \A kinds : Told(kinds)' <=> Told(kinds)
  BY DEF Told
<1>2. BandsAgree'
  BY DEF BandsInv, BandsAgree, Forgets
<1>3. VerdictComes => VerdictComes'
  BY <1>1 DEF VerdictComes
<1>4. GuardIsFollowed'
  BY <1>3 DEF BandsInv, GuardIsFollowed
<1>5. Told({"model", "settings"}) => Told({"model", "settings", "save"})
  BY DEF Told
<1>6. SettingAgrees'
  BY <1>1, <1>5 DEF BandsInv, SettingAgrees
<1> QED
  BY <1>2, <1>4, <1>6 DEF BandsInv

\* The queries of init(), of a retry and after a countdown.
LEMMA SettingsAreAsked ==
  ASSUME NEW p, NEW k \in Keys, p.settingsCall = page.settingsCall, answers' = answers,
         \A kinds : UnderWay(kinds) => UnderWay(kinds)',
         \A kinds : \A j \in DOMAIN Queries(p, k) : Queries(p, k)[j].kind \in kinds => UnderWay(kinds)',
         WaitsForCalls
  PROVE  UnderWay({"settings"})' \/ Told({"settings"})'
<1>1. \A kinds : Told(kinds)' <=> Told(kinds)
  BY DEF Told
<1>2. CASE page.settingsCall
  BY <1>1, <1>2 DEF WaitsForCalls
<1>3. CASE ~page.settingsCall
  <2>1. PICK j \in DOMAIN Queries(p, k) : Queries(p, k)[j].kind = "settings"
    BY <1>3, QueriesAre
  <2> QED
    BY <2>1
<1> QED
  BY <1>2, <1>3

LEMMA BandsUser ==
  ASSUME panel = "bands", BandsType, ValuesAssumption, LockBands \/ ResetBands \/ SaveChanges \/ GuardTimerFires
  PROVE  BandsKept
<1>0. page \in BandsPages /\ server \in BandsModules
  BY DEF BandsType, Typed
<1>1. UNCHANGED <<panel, server, failures>>
  BY DEF LockBands, ResetBands, SaveChanges, GuardTimerFires, User, Page, bounds
<1>2. ASSUME NEW c \in Fresh, Send(<<c>>),
             page' = page \/ (c.kind = "band_guard" /\ page' = [page EXCEPT !.polls = @ - 1] /\ page.polls > 0)
      PROVE  BandsKept
  <2> DEFINE new == <<c>>
  <2>1. new \in Seq(Fresh) /\ DOMAIN new = {1} /\ new[1] = c /\ Send(new)
    BY <1>2
  <2>2. page' \in BandsPages
    BY <1>0, <1>2 DEF BandsPages
  <2>3. /\ page'.shown = page.shown /\ page'.setting = page.setting /\ page'.countdown = page.countdown
        /\ page'.modelCall = page.modelCall /\ page'.settingsCall = page.settingsCall
        /\ page'.polls = page.polls \/ c.kind = "band_guard"
    BY <1>0, <1>2 DEF BandsPages
  <2>4. answers' = answers
    BY <1>2 DEF Send
  <2> HIDE DEF new
  <2>5. /\ BandsType' /\ (NothingFailed => NothingFailed')
        /\ \A kinds : UnderWay(kinds) => UnderWay(kinds)'
        /\ \A kinds : c.kind \in kinds => UnderWay(kinds)'
    BY <1>1, <2>1, <2>2, BandsQueues
  <2>6. ASSUME BandsInv PROVE BandsInv'
    <3>1. WaitsForCalls'
      BY <2>3, <2>4, <2>5, <2>6 DEF BandsInv, WaitsForCalls, Told
    <3>2. page.polls > 0 => page'.polls > 0 \/ UnderWay({"band_guard"})'
      BY <2>3, <2>5
    <3> QED
      BY <1>1, <2>3, <2>4, <2>5, <2>6, <3>1, <3>2, BandsWaits
  <2> QED
    BY <1>1, <2>5, <2>6 DEF BandsKept
<1>3. CASE LockBands
  <2>1. PICK m \in Modes, v \in Values, kind \in {"lock", "lock_guarded"} : Send(<<Ask(kind, m, v)>>)
    BY <1>3 DEF LockBands
  <2>2. Ask(kind, m, v) \in Fresh
    BY DEF Ask, Fresh, BandsCalls, CallsOf
  <2> QED
    BY <1>2, <1>3, <2>1, <2>2 DEF LockBands
<1>4. CASE ResetBands
  <2>1. Ask("reset", All, Initially) \in Fresh
    BY ValuesAssumption DEF Ask, Fresh, BandsCalls, CallsOf
  <2> QED
    BY <1>2, <1>4, <2>1 DEF ResetBands
<1>5. CASE SaveChanges
  <2>1. PICK v \in Values : Send(<<Ask("save", All, v)>>)
    BY <1>5 DEF SaveChanges
  <2>2. Ask("save", All, v) \in Fresh
    BY DEF Ask, Fresh, BandsCalls, CallsOf
  <2> QED
    BY <1>2, <1>5, <2>1, <2>2 DEF SaveChanges
<1>6. CASE GuardTimerFires
  <2>1. Ask("band_guard", All, Unknown) \in Fresh /\ Ask("band_guard", All, Unknown).kind = "band_guard"
    BY DEF Ask, Fresh, BandsCalls, CallsOf, Keys
  <2>2. page' = [page EXCEPT !.polls = @ - 1] /\ page.polls > 0 /\ Send(<<Ask("band_guard", All, Unknown)>>)
    BY <1>6 DEF GuardTimerFires
  <2> QED
    BY <1>2, <2>1, <2>2
<1> QED
  BY <1>3, <1>4, <1>5, <1>6

LEMMA BandsRetries ==
  ASSUME panel = "bands", BandsType, NEW k \in Keys, RetryFires(k)
  PROVE  BandsKept
<1>0. page \in BandsPages /\ server \in BandsModules
  BY DEF BandsType, Typed
<1>1. UNCHANGED <<panel, server, failures>>
  BY DEF RetryFires, Page, bounds
<1> DEFINE p == [page EXCEPT !.retry = @ \ {k}]
<1>2. page' = p \/ page' = [p EXCEPT !.inFlight = @ \union {k}]
  BY DEF RetryFires
<1>3. p \in BandsPages /\ AsShown(page, p) /\ p.modelCall = page.modelCall /\ p.settingsCall = page.settingsCall
  BY <1>0 DEF BandsPages, AsShown
<1>4. UNCHANGED <<flights, answers>> \/ Send(BandQuery(page, k))
  BY DEF RetryFires, SendNothing, calls
<1> HIDE DEF p
<1>5. /\ page' \in BandsPages /\ AsShown(page, page')
      /\ page'.modelCall = page.modelCall /\ page'.settingsCall = page.settingsCall
  BY <1>2, <1>3 DEF BandsPages, AsShown
<1>6. BandsType' /\ (NothingFailed => NothingFailed') /\ \A kinds : UnderWay(kinds) => UnderWay(kinds)'
  <2>1. CASE UNCHANGED <<flights, answers>>
    <3>1. BandsType'
      BY <1>1, <1>5, <2>1 DEF BandsType, Typed
    <3>2. (NothingFailed => NothingFailed') /\ \A kinds : UnderWay(kinds) => UnderWay(kinds)'
      BY <2>1 DEF NothingFailed, UnderWay
    <3> QED
      BY <3>1, <3>2
  <2>2. CASE Send(BandQuery(page, k))
    <3> DEFINE new == BandQuery(page, k)
    <3>1. new \in Seq(Fresh) /\ Send(new)
      BY <2>2, QueriesAre
    <3> HIDE DEF new
    <3> QED
      BY <1>1, <1>5, <3>1, BandsQueues
  <2> QED
    BY <1>4, <2>1, <2>2
<1>7. ASSUME BandsInv PROVE BandsInv'
  <2>1. answers' = answers
    BY <1>4 DEF Send
  <2>2. WaitsForCalls'
    BY <1>5, <1>6, <1>7, <2>1 DEF BandsInv, WaitsForCalls, Told
  <2> QED
    BY <1>1, <1>5, <1>6, <1>7, <2>1, <2>2, BandsWaits DEF AsShown
<1> QED
  BY <1>1, <1>6, <1>7 DEF BandsKept

LEMMA BandsCountdown ==
  ASSUME panel = "bands", BandsType, NEW k \in Keys \union {"save"}, BandsCountdownEnds(k)
  PROVE  BandsKept
<1>0. page \in BandsPages /\ server \in BandsModules
  BY DEF BandsType, Typed
<1>1. UNCHANGED <<panel, server, failures>>
  BY DEF BandsCountdownEnds, Page, bounds
<1> DEFINE p == [page EXCEPT !.countdown = @ \ {k}]
<1>2. IF k = "save" THEN page' = Reinit(p) /\ Send(ReinitCalls(p)) ELSE page' = Asked(p, k) /\ Send(Queries(p, k))
  BY DEF BandsCountdownEnds
<1>3. /\ p \in BandsPages /\ p.shown = page.shown /\ p.setting = page.setting /\ p.polls = page.polls
      /\ p.modelCall = page.modelCall /\ p.settingsCall = page.settingsCall
      /\ p.countdown = page.countdown \ {k}
  BY <1>0 DEF BandsPages
<1> HIDE DEF p
<1>s. ASSUME answers' = answers PROVE \A kinds : Told(kinds)' <=> Told(kinds)
  BY <1>s DEF Told
<1>4. CASE k = "save"
  <2> DEFINE new == ReinitCalls(p)
  <2>1. Send(new) /\ page' = Reinit(p)
    BY <1>2, <1>4
  <2>2. page' \in BandsPages /\ AsShown(p, page') /\ new \in Seq(Fresh)
    BY <1>3, <2>1, ReinitIs
  <2>3. \/ page'.settingsCall /\ page'.modelCall = "none" /\ new = Queries(p, All)
        \/ /\ page'.settingsCall = p.settingsCall /\ page'.modelCall = "pending"
           /\ new = <<Ask("model", All, Unknown)>>
        \/ page' = p /\ p.modelCall # "none"
    BY <1>3, <2>1, ReinitIs
  <2> HIDE DEF new
  <2>4. /\ BandsType' /\ (NothingFailed => NothingFailed')
        /\ \A kinds : UnderWay(kinds) => UnderWay(kinds)'
        /\ \A kinds : \A j \in DOMAIN new : new[j].kind \in kinds => UnderWay(kinds)'
    BY <1>1, <2>1, <2>2, BandsQueues
  <2>5. answers' = answers
    BY <2>1 DEF Send
  <2>6. ASSUME BandsInv
        PROVE  WaitsForCalls' /\ (UnderWay({"model", "settings"})' \/ Told({"model", "settings"}))
    <3>0. WaitsForCalls
      BY <2>6 DEF BandsInv
    <3>m. /\ \A q \in {"model", "settings"} : UnderWay({q})' => UnderWay({"model", "settings"})'
          /\ \A q \in {"model", "settings"} : Told({q}) => Told({"model", "settings"})
      BY DEF UnderWay, Told
    <3>1. CASE page'.settingsCall /\ page'.modelCall = "none" /\ new = Queries(p, All)
      <4>1. UnderWay({"settings"})' \/ Told({"settings"})'
        <5>1. All \in Keys
          BY DEF Keys
        <5> QED
          BY <1>3, <2>4, <2>5, <3>0, <3>1, <5>1, SettingsAreAsked
      <4>2. WaitsForCalls'
        BY <3>1, <4>1 DEF WaitsForCalls
      <4> QED
        BY <1>s, <2>5, <3>m, <4>1, <4>2
    <3>2. CASE /\ page'.settingsCall = p.settingsCall /\ page'.modelCall = "pending"
               /\ new = <<Ask("model", All, Unknown)>>
      <4>1. DOMAIN new = {1} /\ new[1].kind = "model"
        BY <3>2 DEF Ask
      <4>2. UnderWay({"model"})'
        BY <2>4, <4>1
      <4>3. WaitsForCalls'
        BY <1>3, <1>s, <2>4, <2>5, <3>0, <3>2, <4>2 DEF WaitsForCalls
      <4> QED
        BY <3>m, <4>2, <4>3
    <3>3. CASE page' = p /\ p.modelCall # "none"
      <4>1. page.modelCall = "pending"
        BY <1>0, <1>3, <3>0, <3>3 DEF WaitsForCalls, BandsPages
      <4>2. UnderWay({"model"})' \/ Told({"model"})
        BY <2>4, <3>0, <4>1 DEF WaitsForCalls
      <4>3. WaitsForCalls'
        BY <1>3, <1>s, <2>4, <2>5, <3>0, <3>3 DEF WaitsForCalls
      <4> QED
        BY <3>m, <4>2, <4>3
    <3> QED
      BY <2>3, <3>1, <3>2, <3>3
  <2>7. ASSUME BandsInv PROVE BandsInv'
    BY <1>1, <1>3, <2>2, <2>4, <2>5, <2>6, <2>7, BandsWaits DEF AsShown
  <2> QED
    BY <1>1, <2>4, <2>7 DEF BandsKept
<1>5. CASE k # "save"
  <2> DEFINE new == Queries(p, k)
  <2>0. k \in Keys
    BY <1>5
  <2>1. Send(new) /\ page' = Asked(p, k)
    BY <1>2, <1>5
  <2>2. /\ page' \in BandsPages /\ AsShown(p, page') /\ page'.settingsCall
        /\ page'.modelCall = page.modelCall
    BY <1>3, <2>0, <2>1, AskedIs
  <2>3. new \in Seq(Fresh)
    BY <2>0, QueriesAre
  <2> HIDE DEF new
  <2>4. /\ BandsType' /\ (NothingFailed => NothingFailed')
        /\ \A kinds : UnderWay(kinds) => UnderWay(kinds)'
        /\ \A kinds : \A j \in DOMAIN new : new[j].kind \in kinds => UnderWay(kinds)'
    BY <1>1, <2>1, <2>2, <2>3, BandsQueues
  <2>5. answers' = answers
    BY <2>1 DEF Send
  <2>6. ASSUME BandsInv PROVE BandsInv'
    <3>1. WaitsForCalls
      BY <2>6 DEF BandsInv
    <3>2. UnderWay({"settings"})' \/ Told({"settings"})'
      BY <1>3, <2>0, <2>4, <2>5, <3>1, SettingsAreAsked DEF new
    <3>3. WaitsForCalls'
      BY <1>s, <2>2, <2>4, <2>5, <3>1, <3>2 DEF WaitsForCalls
    <3>4. "save" \in page.countdown => "save" \in page'.countdown
      BY <1>3, <1>5, <2>2 DEF AsShown
    <3> QED
      BY <1>1, <1>3, <2>2, <2>4, <2>5, <2>6, <3>3, <3>4, BandsWaits DEF AsShown
  <2> QED
    BY <1>1, <2>4, <2>6 DEF BandsKept
<1> QED
  BY <1>4, <1>5

\* What the replies on their way say of the lists and of the settings: as in
\* BandsAgree and SettingAgrees.
SaysBands(m) ==
  \A i \in DOMAIN answers : answers[i].kind = "bands" /\ answers[i].key \in {m, All} =>
    \/ answers[i].snap.bands[m] = server.bands[m]
    \/ \E j \in DOMAIN answers : i < j /\ Forgets(answers[j], m)
SaysSetting ==
  \A i \in DOMAIN answers : answers[i].kind = "settings" =>
    \/ answers[i].snap.setting = server.setting
    \/ \E j \in DOMAIN answers : i < j /\ answers[j].kind = "save"
ToldToForget(m) == \E j \in DOMAIN answers : Forgets(answers[j], m)

\* The replies behind the one that is heard say what they said.
LEMMA RepliesShift ==
  ASSUME Shift, 1 \in DOMAIN answers, server' = server
  PROVE  /\ \A m : SaysBands(m) => SaysBands(m)'
         /\ SaysSetting => SaysSetting'
         /\ \A kinds : Told(kinds) /\ answers[1].kind \notin kinds => Told(kinds)'
         /\ \A m : ToldToForget(m) /\ ~Forgets(answers[1], m) => ToldToForget(m)'
         /\ \A m : (\E j \in DOMAIN answers : 1 < j /\ Forgets(answers[j], m)) => ToldToForget(m)'
         /\ (\E j \in DOMAIN answers : 1 < j /\ answers[j].kind = "save") => Told({"save"})'
<1>1. /\ \A i \in DOMAIN answers' : i + 1 \in DOMAIN answers /\ answers'[i] = answers[i + 1] /\ i \in Nat
      /\ \A j \in DOMAIN answers : j # 1 => j - 1 \in DOMAIN answers' /\ answers'[j - 1] = answers[j]
      /\ \A j \in DOMAIN answers : j \in Nat
  BY DEF Shift
<1>2. ASSUME NEW m, SaysBands(m) PROVE SaysBands(m)'
  <2> SUFFICES ASSUME NEW i \in DOMAIN answers', answers'[i].kind = "bands", answers'[i].key \in {m, All},
                      answers'[i].snap.bands[m] # server.bands[m]
               PROVE  \E j \in DOMAIN answers' : i < j /\ Forgets(answers'[j], m)
    BY DEF SaysBands, Forgets
  <2>1. i + 1 \in DOMAIN answers /\ answers'[i] = answers[i + 1] /\ i \in Nat
    BY <1>1
  <2>2. PICK j \in DOMAIN answers : i + 1 < j /\ Forgets(answers[j], m)
    BY <1>2, <2>1 DEF SaysBands
  <2>3. j - 1 \in DOMAIN answers' /\ answers'[j - 1] = answers[j] /\ i < j - 1
    BY <1>1, <2>1, <2>2
  <2> QED
    BY <2>2, <2>3
<1>3. ASSUME SaysSetting PROVE SaysSetting'
  <2> SUFFICES ASSUME NEW i \in DOMAIN answers', answers'[i].kind = "settings",
                      answers'[i].snap.setting # server.setting
               PROVE  \E j \in DOMAIN answers' : i < j /\ answers'[j].kind = "save"
    BY DEF SaysSetting
  <2>1. i + 1 \in DOMAIN answers /\ answers'[i] = answers[i + 1] /\ i \in Nat
    BY <1>1
  <2>2. PICK j \in DOMAIN answers : i + 1 < j /\ answers[j].kind = "save"
    BY <1>3, <2>1 DEF SaysSetting
  <2>3. j - 1 \in DOMAIN answers' /\ answers'[j - 1] = answers[j] /\ i < j - 1
    BY <1>1, <2>1, <2>2
  <2> QED
    BY <2>2, <2>3
<1>4. \A kinds : Told(kinds) /\ answers[1].kind \notin kinds => Told(kinds)'
  BY <1>1, Zenon DEF Told
<1>5. ASSUME NEW m, NEW j \in DOMAIN answers, j # 1, Forgets(answers[j], m) PROVE ToldToForget(m)'
  <2>1. j - 1 \in DOMAIN answers' /\ answers'[j - 1] = answers[j]
    BY <1>1, <1>5
  <2> QED
    BY <1>5, <2>1 DEF ToldToForget, Forgets
<1>6. \A m : ToldToForget(m) /\ ~Forgets(answers[1], m) => ToldToForget(m)'
  BY <1>5 DEF ToldToForget
<1>7. \A m : (\E j \in DOMAIN answers : 1 < j /\ Forgets(answers[j], m)) => ToldToForget(m)'
  BY <1>5
<1>8. ASSUME NEW j \in DOMAIN answers, 1 < j, answers[j].kind = "save" PROVE Told({"save"})'
  <2>1. j - 1 \in DOMAIN answers' /\ answers'[j - 1] = answers[j]
    BY <1>1, <1>8
  <2> QED
    BY <1>8, <2>1 DEF Told
<1> QED
  BY <1>2, <1>3, <1>4, <1>6, <1>7, <1>8

\* What the page makes of a reply, but for those about the settings.
HearsBands(a) ==
  /\ \/ page'.polls > 0
     \/ /\ page'.polls = page.polls
        /\ a.kind # "lock_guarded" /\ (a.kind = "band_guard" => a.snap.phase # "checking")
  /\ \A m \in Modes :
       \/ /\ page'.shown[m] \in {page.shown[m], Unknown}
          /\ Forgets(a, m) => page'.shown[m] = Unknown
       \/ a.kind = "bands" /\ a.key \in {m, All} /\ page'.shown[m] = a.snap.bands[m]
HearsSetting ==
  \/ page'.setting \in {Unknown, server'.setting} \/ "save" \in page'.countdown
  \/ UnderWay({"model", "settings"})' \/ Told({"model", "settings", "save"})'

LEMMA BandsHeard ==
  ASSUME Shift, 1 \in DOMAIN answers, server' = server,
         \A kinds : UnderWay(kinds) => UnderWay(kinds)',
         HearsBands(answers[1]), HearsSetting, WaitsForCalls', BandsInv
  PROVE  BandsInv'
<1>1. \A m \in Modes : ~server.untold => SaysBands(m)'
  <2>1. \A m \in Modes : ~server.untold => SaysBands(m)
    BY DEF BandsInv, BandsAgree, SaysBands
  <2> QED
    BY <2>1, RepliesShift
<1>2. ASSUME NEW m \in Modes, ~server.untold
      PROVE  page'.shown[m] \in {Unknown, server.bands[m]} \/ ToldToForget(m)'
  <2>1. page.shown[m] \in {Unknown, server.bands[m]} \/ ToldToForget(m)
    BY <1>2 DEF BandsInv, BandsAgree, ToldToForget
  <2>2. CASE /\ page'.shown[m] \in {page.shown[m], Unknown}
             /\ Forgets(answers[1], m) => page'.shown[m] = Unknown
    BY <2>1, <2>2, RepliesShift
  <2>3. CASE /\ answers[1].kind = "bands" /\ answers[1].key \in {m, All}
             /\ page'.shown[m] = answers[1].snap.bands[m]
    <3>1. \/ answers[1].snap.bands[m] = server.bands[m]
          \/ \E j \in DOMAIN answers : 1 < j /\ Forgets(answers[j], m)
      BY <1>2, <2>3 DEF BandsInv, BandsAgree
    <3> QED
      BY <2>3, <3>1, RepliesShift
  <2> QED
    BY <2>2, <2>3 DEF HearsBands
<1>3. BandsAgree'
  BY <1>1, <1>2 DEF BandsAgree, SaysBands, ToldToForget, Forgets
<1>4. ASSUME VerdictComes PROVE VerdictComes'
  <2>1. CASE page'.polls > 0
    BY <2>1 DEF VerdictComes
  <2>2. CASE /\ page'.polls = page.polls
             /\ answers[1].kind # "lock_guarded"
             /\ answers[1].kind = "band_guard" => answers[1].snap.phase # "checking"
    <3>1. Told({"lock_guarded"}) => Told({"lock_guarded"})'
      BY <2>2, RepliesShift
    <3>2. ASSUME NEW i \in DOMAIN answers, answers[i].kind = "band_guard", answers[i].snap.phase = "checking"
          PROVE  \E j \in DOMAIN answers' : answers'[j].kind = "band_guard" /\ answers'[j].snap.phase = "checking"
      <4>1. i # 1
        BY <2>2, <3>2
      <4>2. i - 1 \in DOMAIN answers' /\ answers'[i - 1] = answers[i]
        BY <4>1 DEF Shift
      <4> QED
        BY <3>2, <4>2
    <3> QED
      BY <1>4, <2>2, <3>1, <3>2 DEF VerdictComes
  <2> QED
    BY <2>1, <2>2 DEF HearsBands
<1>5. GuardIsFollowed'
  BY <1>4 DEF BandsInv, GuardIsFollowed
<1>6. SettingAgrees'
  <2>1. SaysSetting'
    BY RepliesShift DEF BandsInv, SettingAgrees, SaysSetting
  <2> QED
    BY <2>1 DEF SettingAgrees, SaysSetting, HearsSetting
<1> QED
  BY <1>3, <1>5, <1>6 DEF BandsInv

\* The replies that are not about the settings leave what the page knows of them.
HearsOther(a) ==
  /\ page'.setting = page.setting /\ page'.settingsCall = page.settingsCall
  /\ page'.modelCall = page.modelCall /\ page.countdown \subseteq page'.countdown
  /\ a.kind \notin {"model", "settings"} /\ (a.kind = "save" => "save" \in page'.countdown)

LEMMA OthersHeard ==
  ASSUME BandsType, page' \in BandsPages, server' = server, UNCHANGED <<panel, failures>>,
         NEW new \in Seq(Fresh), answers # <<>>, Done(new),
         NothingFailed => HearsBands(Head(answers)) /\ HearsOther(Head(answers))
  PROVE  BandsKept
<1>1. /\ BandsType' /\ (NothingFailed => NothingFailed')
      /\ \A kinds : UnderWay(kinds) => UnderWay(kinds)'
  BY BandsQueues
<1>2. Shift /\ 1 \in DOMAIN answers /\ Head(answers) = answers[1]
  <2>1. answers \in Seq(AnswersOf(BandsCalls, BandsModules))
    BY DEF BandsType, Typed
  <2> QED
    BY <2>1, DoneShifts
<1>3. ASSUME NothingFailed, BandsInv PROVE BandsInv'
  <2>1. HearsBands(answers[1]) /\ HearsOther(answers[1])
    BY <1>2, <1>3
  <2>2. \A kinds : Told(kinds) /\ answers[1].kind \notin kinds => Told(kinds)'
    BY <1>2, RepliesShift
  <2>3. answers[1].kind \notin {"model", "settings"}
    BY <2>1 DEF HearsOther
  <2>4. /\ Told({"model"}) => Told({"model"})'
        /\ Told({"settings"}) => Told({"settings"})'
        /\ Told({"model", "settings", "save"}) => Told({"model", "settings", "save"})' \/ answers[1].kind = "save"
    BY <2>2, <2>3
  <2>5. WaitsForCalls'
    BY <1>1, <1>3, <2>1, <2>4 DEF BandsInv, WaitsForCalls, HearsOther
  <2>6. HearsSetting
    BY <1>1, <1>3, <2>1, <2>4 DEF BandsInv, SettingAgrees, HearsSetting, HearsOther
  <2> QED
    BY <1>1, <1>2, <1>3, <2>1, <2>5, <2>6, BandsHeard
<1> QED
  BY <1>1, <1>3 DEF BandsKept

LEMMA BandsHeadIs ==
  ASSUME BandsType, answers # <<>>
  PROVE  /\ Head(answers).ok \in BOOLEAN /\ Head(answers).key \in Keys
         /\ Head(answers).snap.bands \in [Modes -> Values] /\ Head(answers).snap.setting \in Values
         /\ NothingFailed => Head(answers).ok
<1>1. answers \in Seq(AnswersOf(BandsCalls, BandsModules))
  BY DEF BandsType, Typed
<1>2. /\ Head(answers).ok \in BOOLEAN /\ Head(answers).snap \in BandsModules
      /\ Head(answers).key \in {c.key : c \in BandsCalls}
  BY <1>1, HeadIs
<1>3. \A c \in BandsCalls : c.key \in Keys
  BY DEF BandsCalls, CallsOf, Keys
<1>4. Head(answers).snap.bands \in [Modes -> Values] /\ Head(answers).snap.setting \in Values
  BY <1>2 DEF BandsModules
<1>5. Head(answers) = answers[1] /\ 1 \in DOMAIN answers
  BY <1>1, Taken
<1> QED
  BY <1>2, <1>3, <1>4, <1>5 DEF NothingFailed

LEMMA BandsListHeard ==
  ASSUME panel = "bands", BandsType, BandsAnswered
  PROVE  BandsKept
<1> DEFINE a == Head(answers)
           p == [page EXCEPT !.inFlight = @ \ {a.key}]
<1>0. page \in BandsPages
  BY DEF BandsType, Typed
<1>1. /\ answers # <<>> /\ Done(<<>>) /\ a.kind = "bands" /\ UNCHANGED <<panel, server, failures>>
      /\ page' = IF a.ok THEN Known(p, a.key, a.snap.bands) ELSE ScheduleRetry(p, a.key)
  BY DEF BandsAnswered, Reply, Page, bounds
<1>2. /\ a.ok \in BOOLEAN /\ a.key \in Keys /\ a.snap.bands \in [Modes -> Values]
      /\ NothingFailed => a.ok
  BY <1>1, BandsHeadIs
<1>3. <<>> \in Seq(Fresh)
  OBVIOUS
<1>4. p \in BandsPages /\ p.shown = page.shown /\ Otherwise(page, p)
  BY <1>0 DEF BandsPages, Otherwise
<1> HIDE DEF a, p
<1>5. CASE a.ok
  <2>1. /\ page' \in BandsPages /\ Otherwise(p, page')
        /\ \A m \in Modes : page'.shown[m] = IF a.key \in {m, All} THEN a.snap.bands[m] ELSE p.shown[m]
    BY <1>1, <1>2, <1>4, <1>5, KnownIs
  <2>2. HearsBands(a)
    BY <1>1, <1>4, <2>1 DEF HearsBands, Otherwise, Forgets
  <2>3. HearsOther(a)
    BY <1>1, <1>4, <2>1 DEF HearsOther, Otherwise
  <2> QED
    BY <1>1, <1>3, <2>1, <2>2, <2>3, OthersHeard DEF a
<1>6. CASE ~a.ok
  <2>1. page' \in BandsPages
    BY <1>1, <1>2, <1>4, <1>6, ScheduleRetryIs
  <2> QED
    BY <1>1, <1>2, <1>3, <1>6, <2>1, OthersHeard DEF a
<1> QED
  BY <1>5, <1>6

LEMMA BandsLockHeard ==
  ASSUME panel = "bands", BandsType, LockAnswered
  PROVE  BandsKept
<1> DEFINE a == Head(answers)
           f == Forgotten(page, a.key)
           p == [f EXCEPT !.countdown = @ \union {a.key}]
<1>0. page \in BandsPages
  BY DEF BandsType, Typed
<1>1. /\ answers # <<>> /\ Done(<<>>) /\ a.kind \in {"lock", "lock_guarded"}
      /\ UNCHANGED <<panel, server, failures>>
  BY DEF LockAnswered, Reply, Page, bounds
<1>2. a.ok \in BOOLEAN /\ a.key \in Keys /\ (NothingFailed => a.ok)
  BY <1>1, BandsHeadIs
<1>3. \/ ~a.ok /\ page' = page
      \/ a.ok /\ a.kind = "lock" /\ page' = p
      \/ a.ok /\ a.kind = "lock_guarded" /\ page' = [p EXCEPT !.polls = @ + 1]
      \/ a.ok /\ a.kind = "lock_guarded" /\ page.polls > 0 /\ page' = p
  <2>1. CASE ~a.ok
    BY <2>1 DEF LockAnswered
  <2>2. CASE a.ok /\ a.kind = "lock"
    BY <2>2 DEF LockAnswered
  <2>3. CASE a.ok /\ a.kind = "lock_guarded"
    BY <2>3 DEF LockAnswered
  <2> QED
    BY <1>1, <1>2, <2>1, <2>2, <2>3
<1>4. <<>> \in Seq(Fresh)
  OBVIOUS
<1>5. /\ f \in BandsPages /\ Otherwise(page, f)
      /\ \A m \in Modes : f.shown[m] = IF a.key \in {m, All} THEN Unknown ELSE page.shown[m]
  BY <1>0, <1>2, ForgottenIs
<1> HIDE DEF a, f
<1>6. /\ p \in BandsPages /\ p.shown = f.shown /\ p.polls = page.polls
      /\ p.setting = page.setting /\ p.settingsCall = page.settingsCall
      /\ p.modelCall = page.modelCall /\ page.countdown \subseteq p.countdown
  BY <1>2, <1>5 DEF BandsPages, Otherwise
<1> HIDE DEF p
<1>7. ASSUME page' = p \/ page' = [p EXCEPT !.polls = @ + 1],
             a.kind = "lock" \/ page.polls > 0 \/ page' = [p EXCEPT !.polls = @ + 1]
      PROVE  BandsKept
  <2>1. /\ page' \in BandsPages /\ page'.shown = p.shown /\ page'.setting = p.setting
        /\ page'.settingsCall = p.settingsCall /\ page'.modelCall = p.modelCall
        /\ page'.countdown = p.countdown
        /\ page'.polls = p.polls \/ page'.polls > 0
    BY <1>6, <1>7 DEF BandsPages
  <2>2. a.kind = "lock" \/ page'.polls > 0
    BY <1>6, <1>7, <2>1 DEF BandsPages
  <2>3. HearsBands(a)
    BY <1>1, <1>5, <1>6, <2>1, <2>2 DEF HearsBands, Forgets
  <2>4. HearsOther(a)
    BY <1>1, <1>6, <2>1 DEF HearsOther
  <2> QED
    BY <1>1, <1>4, <2>1, <2>3, <2>4, OthersHeard DEF a
<1>8. CASE ~a.ok /\ page' = page
  BY <1>0, <1>1, <1>2, <1>4, <1>8, OthersHeard DEF a
<1> QED
  BY <1>3, <1>7, <1>8

LEMMA BandsResetHeard ==
  ASSUME panel = "bands", BandsType, ResetAnswered
  PROVE  BandsKept
<1> DEFINE f == Forgotten(page, All)
<1>0. page \in BandsPages /\ All \in Keys
  BY DEF BandsType, Typed, Keys
<1>1. /\ answers # <<>> /\ Done(<<>>) /\ Head(answers).kind = "reset"
      /\ UNCHANGED <<panel, server, failures>> /\ page' = [f EXCEPT !.countdown = @ \union {All}]
  BY DEF ResetAnswered, Reply, Page, bounds
<1>2. f \in BandsPages /\ Otherwise(page, f) /\ \A m \in Modes : f.shown[m] = Unknown
  BY <1>0, ForgottenIs
<1> HIDE DEF f
<1>3. /\ page' \in BandsPages /\ page'.shown = f.shown /\ page'.polls = page.polls
      /\ page'.setting = page.setting /\ page'.settingsCall = page.settingsCall
      /\ page'.modelCall = page.modelCall /\ page.countdown \subseteq page'.countdown
  BY <1>0, <1>1, <1>2 DEF BandsPages, Otherwise
<1>4. HearsBands(Head(answers)) /\ HearsOther(Head(answers))
  BY <1>1, <1>2, <1>3 DEF HearsBands, HearsOther
<1>5. <<>> \in Seq(Fresh)
  OBVIOUS
<1> QED
  BY <1>1, <1>3, <1>4, <1>5, OthersHeard

LEMMA BandsSaveHeard ==
  ASSUME panel = "bands", BandsType, SaveAnswered
  PROVE  BandsKept
<1>0. page \in BandsPages
  BY DEF BandsType, Typed
<1>1. /\ answers # <<>> /\ Done(<<>>) /\ Head(answers).kind = "save"
      /\ UNCHANGED <<panel, server, failures>> /\ page' = [page EXCEPT !.countdown = @ \union {"save"}]
  BY DEF SaveAnswered, Reply, Page, bounds
<1>2. /\ page' \in BandsPages /\ page'.shown = page.shown /\ page'.polls = page.polls
      /\ page'.setting = page.setting /\ page'.settingsCall = page.settingsCall
      /\ page'.modelCall = page.modelCall /\ page'.countdown = page.countdown \union {"save"}
  BY <1>0, <1>1 DEF BandsPages
<1>3. HearsBands(Head(answers)) /\ HearsOther(Head(answers))
  BY <1>1, <1>2 DEF HearsBands, HearsOther, Forgets
<1>4. <<>> \in Seq(Fresh)
  OBVIOUS
<1> QED
  BY <1>1, <1>2, <1>3, <1>4, OthersHeard

LEMMA BandsVerdictHeard ==
  ASSUME panel = "bands", BandsType, GuardAnswered
  PROVE  BandsKept
<1> DEFINE a == Head(answers)
           phase == a.snap.phase
<1>0. page \in BandsPages /\ All \in Keys
  BY DEF BandsType, Typed, Keys
<1>1. /\ answers # <<>> /\ a.kind = "band_guard" /\ UNCHANGED <<panel, server, failures>>
      /\ \/ phase = "checking" /\ page' = [page EXCEPT !.polls = @ + 1] /\ Done(<<>>)
         \/ /\ phase \in {"reverted", "failed"} /\ page' = VerdictForgets(page)
            /\ Done(<<>>) \/ Done(BandQuery(page, All))
         \/ phase \notin {"checking", "reverted", "failed"} /\ page' = page /\ Done(<<>>)
  BY DEF GuardAnswered, Reply, Page, bounds
<1> DEFINE none == <<>>
           query == BandQuery(page, All)
<1>2. none \in Seq(Fresh) /\ query \in Seq(Fresh)
  BY <1>0, QueriesAre
<1>3. Done(none) \/ Done(query)
  BY <1>1
<1> HIDE DEF none, query, a
<1>4. ASSUME page' \in BandsPages, HearsBands(a), HearsOther(a) PROVE BandsKept
  BY <1>1, <1>2, <1>3, <1>4, OthersHeard DEF a
<1>5. CASE phase = "checking" /\ page' = [page EXCEPT !.polls = @ + 1]
  <2>1. /\ page' \in BandsPages /\ page'.shown = page.shown /\ page'.polls > 0
        /\ page'.setting = page.setting /\ page'.settingsCall = page.settingsCall
        /\ page'.modelCall = page.modelCall /\ page'.countdown = page.countdown
    BY <1>0, <1>5 DEF BandsPages
  <2>2. HearsBands(a) /\ HearsOther(a)
    BY <1>1, <1>5, <2>1 DEF HearsBands, HearsOther, Forgets
  <2> QED
    BY <1>4, <2>1, <2>2
<1>6. CASE phase \in {"reverted", "failed"} /\ page' = VerdictForgets(page)
  <2>1. /\ page' \in BandsPages /\ Otherwise(page, page')
        /\ \A m \in Modes : page'.shown[m] = Unknown
    BY <1>0, <1>6, VerdictForgetsIs
  <2>2. HearsBands(a) /\ HearsOther(a)
    BY <1>1, <1>6, <2>1 DEF HearsBands, HearsOther, Otherwise
  <2> QED
    BY <1>4, <2>1, <2>2
<1>7. CASE phase \notin {"checking", "reverted", "failed"} /\ page' = page
  <2>1. HearsBands(a) /\ HearsOther(a)
    BY <1>1, <1>7 DEF HearsBands, HearsOther, Forgets
  <2> QED
    BY <1>0, <1>4, <1>7, <2>1
<1> QED
  BY <1>1, <1>5, <1>6, <1>7

\* A reply about the settings, or about the model that init() waits for.
LEMMA SettingsHeard ==
  ASSUME BandsType, page' \in BandsPages, server' = server, UNCHANGED <<panel, failures>>,
         NEW new \in Seq(Fresh), answers # <<>>, Done(new), Head(answers).kind \in {"model", "settings"},
         page'.shown = page.shown, page'.polls = page.polls,
         BandsInv => HearsSetting /\ WaitsForCalls'
  PROVE  BandsKept
<1>1. /\ BandsType' /\ (NothingFailed => NothingFailed')
      /\ \A kinds : UnderWay(kinds) => UnderWay(kinds)'
  BY BandsQueues
<1>2. Shift /\ 1 \in DOMAIN answers /\ Head(answers) = answers[1]
  <2>1. answers \in Seq(AnswersOf(BandsCalls, BandsModules))
    BY DEF BandsType, Typed
  <2> QED
    BY <2>1, DoneShifts
<1>3. HearsBands(answers[1])
  BY <1>2 DEF HearsBands, Forgets
<1> QED
  BY <1>1, <1>2, <1>3, BandsHeard DEF BandsKept

LEMMA BandsSettingHeard ==
  ASSUME panel = "bands", BandsType, SettingsAnswered
  PROVE  BandsKept
<1> DEFINE a == Head(answers)
           setting == a.snap.setting
           new == <<>>
<1>0. page \in BandsPages /\ answers \in Seq(AnswersOf(BandsCalls, BandsModules))
  BY DEF BandsType, Typed
<1>1. /\ answers # <<>> /\ Done(new) /\ a.kind = "settings" /\ UNCHANGED <<panel, server, failures>>
      /\ page' = [page EXCEPT !.setting = setting, !.settingsCall = FALSE]
  BY DEF SettingsAnswered, Reply, Page, bounds
<1>2. setting \in Values
  BY <1>1, BandsHeadIs
<1>3. new \in Seq(Fresh)
  OBVIOUS
<1>4. Shift /\ 1 \in DOMAIN answers /\ a = answers[1]
  BY <1>0, <1>1, DoneShifts
<1> HIDE DEF setting, new
<1>5. /\ page' \in BandsPages /\ page'.shown = page.shown /\ page'.polls = page.polls
      /\ page'.setting = setting /\ ~page'.settingsCall /\ page'.modelCall = page.modelCall
  BY <1>0, <1>1, <1>2 DEF BandsPages, Shows
<1>6. ASSUME BandsInv PROVE HearsSetting /\ WaitsForCalls'
  <2>1. setting = server.setting \/ \E j \in DOMAIN answers : 1 < j /\ answers[j].kind = "save"
    BY <1>1, <1>4, <1>6 DEF BandsInv, SettingAgrees, setting
  <2>2. setting = server.setting \/ Told({"save"})'
    BY <1>1, <1>4, <2>1, RepliesShift
  <2>3. Told({"save"})' => Told({"model", "settings", "save"})'
    BY DEF Told
  <2>4. HearsSetting
    BY <1>1, <1>5, <2>2, <2>3 DEF HearsSetting
  <2>5. Told({"model"}) => Told({"model"})'
    BY <1>1, <1>4, RepliesShift
  <2>6. \A kinds : UnderWay(kinds) => UnderWay(kinds)'
    BY <1>1, <1>3, <1>5, BandsQueues
  <2>7. WaitsForCalls'
    BY <1>5, <1>6, <2>5, <2>6 DEF BandsInv, WaitsForCalls
  <2> QED
    BY <2>4, <2>7
<1> QED
  BY <1>1, <1>3, <1>5, <1>6, SettingsHeard

LEMMA BandsModelHeard ==
  ASSUME panel = "bands", BandsType, ModelAnswered
  PROVE  BandsKept
<1>0. page \in BandsPages /\ answers \in Seq(AnswersOf(BandsCalls, BandsModules)) /\ All \in Keys
  BY DEF BandsType, Typed, Keys
<1> DEFINE p == [page EXCEPT !.model = TRUE]
           q == [page EXCEPT !.attempt = @ + 1]
           c == Ask("model", All, Unknown)
           queries == Queries(page, All)
           again == <<c>>
<1>1. /\ answers # <<>> /\ Head(answers).kind = "model" /\ UNCHANGED <<panel, server, failures>>
      /\ \/ (page' = InitGoesOn(p) \/ page' = InitGoesOn(page)) /\ Done(queries)
         \/ page' = q /\ Done(again)
  BY DEF ModelAnswered, Reply, Page, bounds
<1>2. \E new : Done(new)
  BY <1>1
<1>3. Shift /\ 1 \in DOMAIN answers /\ Head(answers) = answers[1]
  BY <1>0, <1>1, <1>2, DoneShifts
<1>4. Told({"settings"}) => Told({"settings"})'
  BY <1>1, <1>3, RepliesShift
<1>m. /\ \A k \in {"model", "settings"} : UnderWay({k})' => UnderWay({"model", "settings"})'
      /\ Told({"settings"})' => Told({"model", "settings", "save"})'
  BY DEF UnderWay, Told
<1>5. /\ p \in BandsPages /\ p.shown = page.shown /\ p.polls = page.polls
      /\ q \in BandsPages /\ q.shown = page.shown /\ q.polls = page.polls
      /\ q.settingsCall = page.settingsCall /\ q.modelCall = page.modelCall
  <2>1. p \in BandsPages /\ p.shown = page.shown /\ p.polls = page.polls
    BY <1>0 DEF BandsPages
  <2> DEFINE n == page.attempt + 1
             r == [page EXCEPT !.attempt = n]
  <2>2. n \in Nat /\ q = r
    BY <1>0 DEF BandsPages
  <2> HIDE DEF n, q
  <2>3. /\ r \in BandsPages /\ r.shown = page.shown /\ r.polls = page.polls
        /\ r.settingsCall = page.settingsCall /\ r.modelCall = page.modelCall
    BY <1>0, <2>2 DEF BandsPages
  <2> QED
    BY <2>1, <2>2, <2>3
<1>6. queries \in Seq(Fresh) /\ (page.settingsCall \/ \E j \in DOMAIN queries : queries[j].kind = "settings")
  BY <1>0, QueriesAre
<1>7. again \in Seq(Fresh) /\ DOMAIN again = {1} /\ again[1].kind = "model"
  BY DEF Ask, Fresh, BandsCalls, CallsOf, Keys
<1> HIDE DEF p, q, queries, again
<1>8. CASE (page' = InitGoesOn(p) \/ page' = InitGoesOn(page)) /\ Done(queries)
  <2>1. /\ page' \in BandsPages /\ page'.shown = page.shown /\ page'.polls = page.polls
        /\ page'.settingsCall /\ page'.modelCall = "none"
    BY <1>0, <1>5, <1>8, InitGoesOnIs DEF AsShown
  <2>2. /\ \A kinds : UnderWay(kinds) => UnderWay(kinds)'
        /\ \A kinds : \A j \in DOMAIN queries : queries[j].kind \in kinds => UnderWay(kinds)'
    BY <1>1, <1>6, <1>8, <2>1, BandsQueues
  <2>3. ASSUME BandsInv PROVE HearsSetting /\ WaitsForCalls'
    <3>1. UnderWay({"settings"})' \/ Told({"settings"})'
      <4>1. CASE page.settingsCall
        BY <1>4, <2>2, <2>3, <4>1 DEF BandsInv, WaitsForCalls
      <4>2. CASE \E j \in DOMAIN queries : queries[j].kind = "settings"
        BY <2>2, <4>2
      <4> QED
        BY <1>6, <4>1, <4>2
    <3>2. HearsSetting
      BY <1>m, <3>1 DEF HearsSetting
    <3>3. WaitsForCalls'
      BY <2>1, <3>1 DEF WaitsForCalls
    <3> QED
      BY <3>2, <3>3
  <2> QED
    BY <1>1, <1>6, <1>8, <2>1, <2>3, SettingsHeard
<1>9. CASE page' = q /\ Done(again)
  <2>1. /\ page' \in BandsPages /\ page'.shown = page.shown /\ page'.polls = page.polls
        /\ page'.settingsCall = page.settingsCall
    BY <1>5, <1>9
  <2>2. /\ \A kinds : UnderWay(kinds) => UnderWay(kinds)'
        /\ UnderWay({"model"})'
    BY <1>1, <1>7, <1>9, <2>1, BandsQueues
  <2>3. ASSUME BandsInv PROVE HearsSetting /\ WaitsForCalls'
    <3>1. HearsSetting
      BY <1>m, <2>2 DEF HearsSetting
    <3>2. page'.modelCall # "rejected"
      BY <1>5, <1>9, <2>3 DEF BandsInv, WaitsForCalls
    <3>3. WaitsForCalls'
      BY <1>4, <2>1, <2>2, <2>3, <3>2 DEF BandsInv, WaitsForCalls
    <3> QED
      BY <3>1, <3>3
  <2> QED
    BY <1>1, <1>7, <1>9, <2>1, <2>3, SettingsHeard
<1> QED
  BY <1>1, <1>8, <1>9

\* The guard decides: when it puts the earlier list back, the verdict that tells
\* the page is still to come.
LEMMA BandsDecides ==
  ASSUME panel = "bands", BandsType, GuardDecides
  PROVE  /\ BandsType' /\ UNCHANGED <<panel, failures>>
         /\ NothingFailed => NothingFailed'
         /\ BandsInv => BandsInv'
         /\ server'.overtaken = server.overtaken
<1>0. server \in BandsModules
  BY DEF BandsType, Typed
<1>1. UNCHANGED <<panel, page, flights, answers, failures>> /\ server.phase = "checking"
  BY DEF GuardDecides, calls, bounds
<1> DEFINE back == [server.bands EXCEPT ![server.mode] = server.previous]
           r == [server EXCEPT !.bands = back, !.untold = TRUE]
<1>2. PICK phase \in Decided : server' = [(IF phase # "reverted" THEN server ELSE r) EXCEPT !.phase = phase]
  BY DEF GuardDecides, Decided
<1>3. back \in [Modes -> Values]
  BY <1>0 DEF BandsModules
<1> HIDE DEF back
<1>4. /\ r \in BandsModules /\ r.overtaken = server.overtaken /\ r.setting = server.setting /\ r.untold
  BY <1>0, <1>3 DEF BandsModules
<1> HIDE DEF r
<1>5. CASE phase # "reverted"
  <2>1. server' = [server EXCEPT !.phase = phase]
    BY <1>2, <1>5
  <2>2. /\ server' \in BandsModules /\ server'.overtaken = server.overtaken
        /\ server'.bands = server.bands /\ server'.setting = server.setting
        /\ server'.untold = server.untold /\ server'.phase = phase
    BY <1>0, <2>1 DEF BandsModules, Decided, GuardPhases
  <2>3. ASSUME BandsInv PROVE BandsInv'
    <3>1. BandsAgree'
      BY <1>1, <2>2, <2>3 DEF BandsInv, BandsAgree, Forgets
    <3>2. GuardIsFollowed'
      BY <1>1, <2>2, <2>3 DEF BandsInv, GuardIsFollowed, Decided
    <3>3. SettingAgrees' /\ WaitsForCalls'
      BY <1>1, <2>2, <2>3 DEF BandsInv, SettingAgrees, WaitsForCalls, UnderWay, Told
    <3> QED
      BY <3>1, <3>2, <3>3 DEF BandsInv
  <2> QED
    BY <1>1, <2>2, <2>3 DEF BandsType, Typed, NothingFailed
<1>6. CASE phase = "reverted"
  <2>1. server' = [r EXCEPT !.phase = "reverted"]
    BY <1>2, <1>6
  <2>2. /\ server' \in BandsModules /\ server'.overtaken = server.overtaken
        /\ server'.setting = server.setting /\ server'.untold /\ server'.phase = "reverted"
    BY <1>4, <2>1 DEF BandsModules, GuardPhases
  <2>3. ASSUME BandsInv PROVE BandsInv'
    <3>1. BandsAgree'
      BY <2>2 DEF BandsAgree
    <3>2. VerdictComes'
      <4>1. VerdictComes
        BY <1>1, <2>3 DEF BandsInv, GuardIsFollowed
      <4> QED
        BY <1>1, <4>1 DEF VerdictComes, UnderWay, Told
    <3>3. GuardIsFollowed'
      BY <2>2, <3>2 DEF GuardIsFollowed
    <3>4. SettingAgrees' /\ WaitsForCalls'
      BY <1>1, <2>2, <2>3 DEF BandsInv, SettingAgrees, WaitsForCalls, UnderWay, Told
    <3> QED
      BY <3>1, <3>3, <3>4 DEF BandsInv
  <2> QED
    BY <1>1, <2>2, <2>3 DEF BandsType, Typed, NothingFailed
<1> QED
  BY <1>5, <1>6

LEMMA BandsTypesServed ==
  ASSUME TypeOK, panel = "bands", NEW i \in DOMAIN flights, ServerHandles(i) \/ CallFails(i)
  PROVE  BandsType' /\ (ServerHandles(i) /\ server.overtaken => server'.overtaken)
<1> DEFINE c == flights[i]
<1>0. /\ Typed(BandsPages, BandsModules, BandsCalls) /\ c \in BandsCalls
      /\ page \in BandsPages /\ server \in BandsModules
  BY DEF TypeOK, Typed
<1>1. CASE ServerHandles(i)
  <2>1. PICK ok \in BOOLEAN : Reacts(i, ok)
    BY <1>1, HandledIs, Zenon
  <2>2. server' = BandsHandled(c, ok)
    BY <2>1 DEF Reacts, HandledBy, Lists
  <2>3. server' \in BandsModules /\ (server.overtaken => server'.overtaken)
    <3> HIDE DEF c
    <3>k. c.key \in Keys /\ (c.kind \in {"lock", "lock_guarded", "reset", "save"} => c.val \in Values)
      BY <1>0 DEF BandsCalls, CallsOf, Keys
    <3>u. Unguarded \in GuardPhases
      BY <1>0 DEF Unguarded, GuardPhases, BandsModules
    <3> DEFINE one == [server.bands EXCEPT ![c.key] = c.val]
               each == [m \in Modes |-> IF ok THEN c.val ELSE server.bands[m]]
    <3>1. CASE c.kind \in {"lock", "lock_guarded"} /\ ~ok
      <4>1. server' = [server EXCEPT !.phase = Unguarded]
        BY <2>2, <3>1 DEF BandsHandled
      <4> QED
        BY <1>0, <3>u, <4>1 DEF BandsModules
    <3>2. CASE c.kind = "lock" /\ ok
      <4>1. server' = [server EXCEPT !.bands = one, !.phase = Unguarded]
        BY <2>2, <3>2 DEF BandsHandled
      <4>2. one \in [Modes -> Values]
        BY <1>0, <3>k, <3>2 DEF BandsModules
      <4> HIDE DEF one
      <4> QED
        BY <1>0, <3>u, <4>1, <4>2 DEF BandsModules
    <3>3. CASE c.kind = "lock_guarded" /\ ok
      <4> DEFINE over == server.overtaken \/ server.untold
                 earlier == IF c.key \in Modes THEN server.bands[c.key] ELSE server.previous
      <4>0. c.key \in Modes
        BY <1>0, <3>3 DEF BandsCalls, CallsOf
      <4>1. server' = [server EXCEPT !.bands = one, !.mode = c.key, !.phase = "checking",
                                     !.previous = earlier, !.overtaken = over]
        BY <2>2, <3>3, <4>0 DEF BandsHandled
      <4>2. one \in [Modes -> Values] /\ earlier \in Values
        BY <1>0, <3>k, <3>3, <4>0 DEF BandsModules
      <4>3. over \in BOOLEAN /\ (server.overtaken => over)
        BY <1>0 DEF BandsModules
      <4> HIDE DEF one, over, earlier
      <4> QED
        BY <1>0, <3>k, <4>1, <4>2, <4>3 DEF BandsModules, GuardPhases
    <3>4. CASE c.kind = "reset"
      <4>1. server' = [server EXCEPT !.bands = each, !.phase = Unguarded]
        BY <2>2, <3>4 DEF BandsHandled
      <4>2. each \in [Modes -> Values]
        BY <1>0, <3>k, <3>4 DEF BandsModules
      <4> HIDE DEF each
      <4> QED
        BY <1>0, <3>u, <4>1, <4>2 DEF BandsModules
    <3>5. CASE c.kind = "save" /\ ok
      <4>1. server' = [server EXCEPT !.setting = c.val]
        BY <2>2, <3>5 DEF BandsHandled
      <4> QED
        BY <1>0, <3>k, <3>5, <4>1 DEF BandsModules
    <3>6. CASE c.kind = "band_guard"
      <4>1. server' = [server EXCEPT !.untold = FALSE]
        BY <2>2, <3>6 DEF BandsHandled
      <4> QED
        BY <1>0, <4>1 DEF BandsModules
    <3>7. CASE /\ c.kind \notin {"lock", "lock_guarded", "reset", "band_guard"}
               /\ ~(c.kind = "save" /\ ok)
      <4>1. server' = server
        BY <2>2, <3>7 DEF BandsHandled
      <4> QED
        BY <1>0, <4>1
    <3> QED
      BY <3>1, <3>2, <3>3, <3>4, <3>5, <3>6, <3>7
  <2>4. flights' \in Seq(BandsCalls) /\ answers' \in Seq(AnswersOf(BandsCalls, BandsModules))
    BY <1>0, <1>1, <2>1, <2>3, HandledIs, HandledTypes DEF Typed
  <2> QED
    BY <1>0, <1>1, <2>3, <2>4, HandledIs DEF BandsType, Typed
<1>2. CASE CallFails(i)
  <2>1. AfterFailure(c) \in Seq(BandsCalls)
    BY DEF AfterFailure, Lists
  <2>2. [c EXCEPT !.orphan = TRUE] \in BandsCalls
    BY <1>0 DEF BandsCalls, CallsOf
  <2>3. flights' \in Seq(BandsCalls)
    BY <1>0, <1>2, <2>1, <2>2, FailedTypes DEF Typed, CallFails, GiveUp, Mishap
  <2>4. page' = BandsFailed(c) /\ UNCHANGED <<server, answers>>
    BY <1>2 DEF CallFails, GiveUp, Mishap, FailedBy, Lists
  <2> HIDE DEF c
  <2>5. page' \in BandsPages
    <3>1. CASE c.kind = "model"
      BY <1>0, <2>4, <3>1 DEF BandsFailed, BandsPages
    <3>2. CASE c.kind = "bands"
      BY <1>0, <2>4, <3>2 DEF BandsFailed, BandsPages
    <3>3. CASE c.kind = "settings"
      BY <1>0, <2>4, <3>3 DEF BandsFailed, BandsPages
    <3>4. CASE c.kind \notin {"model", "bands", "settings"}
      BY <1>0, <2>4, <3>4 DEF BandsFailed
    <3> QED
      BY <3>1, <3>2, <3>3, <3>4
  <2>6. BandsType'
    BY <1>0, <2>3, <2>4, <2>5 DEF BandsType, Typed
  <2> QED
    BY <2>4, <2>6
<1> QED
  BY <1>1, <1>2

\* A call the server takes while nothing failed: the reply to a change of a list
\* has the page forget it, and the reply about a guard that put its list back
\* has it forget them all.
LEMMA BandsServed ==
  ASSUME TypeOK, panel = "bands", NEW i \in DOMAIN flights, ServerHandles(i),
         failures = 0, failures' = 0, NothingFailed, BandsInv, ~server'.overtaken
  PROVE  NothingFailed' /\ BandsInv'
<1> DEFINE c == flights[i]
<1>0. /\ flights \in Seq(BandsCalls) /\ answers \in Seq(AnswersOf(BandsCalls, BandsModules))
      /\ page \in BandsPages /\ server \in BandsModules /\ c \in BandsCalls
  BY DEF TypeOK, Typed
<1>1. /\ c.kind \in {"model", "bands", "settings", "band_guard", "lock", "lock_guarded", "reset", "save"}
      /\ c.kind \in {"lock", "lock_guarded"} => c.key \in Modes
      /\ c.kind = "reset" => c.key = All
  BY <1>0 DEF BandsCalls, CallsOf
<1> HIDE DEF c
<1>2. /\ server' = HandledBy(c, TRUE) /\ Grow(c) /\ NothingFailed'
      /\ \A kinds : UnderWay(kinds) => UnderWay(kinds)' \/ c.kind \in kinds
  <2>1. flights[i].kind # "scan_start"
    BY <1>1 DEF c
  <2> QED
    BY <1>0, <2>1, ObeyedGrows DEF c
<1>3. UNCHANGED <<panel, page>>
  BY HandledIs
<1>4. server' = BandsHandled(c, TRUE)
  BY <1>2 DEF HandledBy, Lists
<1>5. PICK last \in Nat :
        /\ DOMAIN answers' = DOMAIN answers \union {last}
        /\ answers'[last].kind = c.kind /\ answers'[last].key = c.key /\ answers'[last].snap = server'
        /\ \A k \in DOMAIN answers : k \in Nat /\ k < last /\ answers'[k] = answers[k]
  BY <1>2 DEF Grow
<1>6. \A kinds : Told(kinds) \/ c.kind \in kinds => Told(kinds)'
  BY <1>5 DEF Told
<1>7. WaitsForCalls'
  BY <1>2, <1>3, <1>6 DEF BandsInv, WaitsForCalls
<1>8. VerdictComes /\ c.kind # "band_guard" => VerdictComes'
  BY <1>2, <1>3, <1>5, <1>6 DEF VerdictComes
<1>9. \A m : ToldToForget(m) \/ Forgets(answers'[last], m) => ToldToForget(m)'
  BY <1>5 DEF ToldToForget, Forgets
<1>u. Unguarded # "checking" /\ (server.phase = "reverted" => Unguarded = "reverted")
  BY DEF Unguarded
\* The settings.
<1>10. ASSUME server'.setting = server.setting PROVE SettingAgrees'
  <2>1. \A k \in DOMAIN answers' : answers'[k].kind = "settings" =>
          \/ answers'[k].snap.setting = server'.setting
          \/ \E j \in DOMAIN answers' : k < j /\ answers'[j].kind = "save"
    BY <1>5, <1>10 DEF BandsInv, SettingAgrees
  <2>2. \/ page'.setting \in {Unknown, server'.setting} \/ "save" \in page'.countdown
        \/ UnderWay({"model", "settings"}) \/ Told({"model", "settings", "save"})
    BY <1>3, <1>10 DEF BandsInv, SettingAgrees
  <2>3. Told({"model", "settings", "save"}) => Told({"model", "settings", "save"})'
    BY <1>6
  <2>4. UnderWay({"model", "settings"}) => UnderWay({"model", "settings"})' \/ Told({"model", "settings", "save"})'
    BY <1>2, <1>6
  <2> QED
    BY <2>1, <2>2, <2>3, <2>4 DEF SettingAgrees
<1>11. ASSUME c.kind = "save" PROVE SettingAgrees'
  <2>1. \A k \in DOMAIN answers' : answers'[k].kind = "settings" =>
          k < last /\ last \in DOMAIN answers' /\ answers'[last].kind = "save"
    BY <1>5, <1>11
  <2>2. Told({"model", "settings", "save"})'
    BY <1>6, <1>11
  <2> QED
    BY <2>1, <2>2 DEF SettingAgrees
\* The lists.
<1>12. ASSUME NEW m \in Modes, ~server.untold, server'.bands[m] = server.bands[m]
       PROVE  SaysBands(m)' /\ (page'.shown[m] \in {Unknown, server'.bands[m]} \/ ToldToForget(m)')
  <2>1. SaysBands(m) /\ (page.shown[m] \in {Unknown, server.bands[m]} \/ ToldToForget(m))
    BY <1>12 DEF BandsInv, BandsAgree, SaysBands, ToldToForget
  <2>2. SaysBands(m)'
    <3> SUFFICES ASSUME NEW k \in DOMAIN answers', answers'[k].kind = "bands", answers'[k].key \in {m, All},
                        answers'[k].snap.bands[m] # server'.bands[m]
                 PROVE  \E j \in DOMAIN answers' : k < j /\ Forgets(answers'[j], m)
      BY DEF SaysBands, Forgets
    <3>1. k \in DOMAIN answers /\ answers'[k] = answers[k]
      BY <1>5
    <3>2. PICK j \in DOMAIN answers : k < j /\ Forgets(answers[j], m)
      BY <1>12, <2>1, <3>1 DEF SaysBands
    <3>3. j \in DOMAIN answers' /\ answers'[j] = answers[j]
      BY <1>5
    <3> QED
      BY <3>2, <3>3
  <2> QED
    BY <1>3, <1>9, <1>12, <2>1, <2>2
<1>13. ASSUME NEW m \in Modes, c.kind # "bands", Forgets(answers'[last], m)
       PROVE  SaysBands(m)' /\ ToldToForget(m)'
  <2>1. \A k \in DOMAIN answers' : answers'[k].kind = "bands" => k < last /\ last \in DOMAIN answers'
    BY <1>5, <1>13
  <2>2. SaysBands(m)'
    BY <1>13, <2>1 DEF SaysBands, Forgets
  <2> QED
    BY <1>9, <1>13, <2>2
<1>14. ASSUME \A m \in Modes : ~server'.untold =>
                SaysBands(m)' /\ (page'.shown[m] \in {Unknown, server'.bands[m]} \/ ToldToForget(m)')
       PROVE  BandsAgree'
  BY <1>14 DEF BandsAgree, SaysBands, ToldToForget, Forgets
<1>15. CASE c.kind \in {"model", "bands", "settings"}
  <2>1. server' = server
    BY <1>4, <1>15 DEF BandsHandled
  <2>2. BandsAgree'
    BY <1>12, <1>14, <2>1
  <2>3. GuardIsFollowed'
    BY <1>8, <1>15, <2>1 DEF BandsInv, GuardIsFollowed
  <2> QED
    BY <1>2, <1>7, <1>10, <2>1, <2>2, <2>3 DEF BandsInv
<1>16. CASE c.kind = "save"
  <2>1. server' = [server EXCEPT !.setting = c.val]
    BY <1>4, <1>16 DEF BandsHandled
  <2>2. server'.bands = server.bands /\ server'.untold = server.untold /\ server'.phase = server.phase
    BY <1>0, <2>1 DEF BandsModules
  <2>3. BandsAgree'
    BY <1>12, <1>14, <2>2
  <2>4. GuardIsFollowed'
    BY <1>8, <1>16, <2>2 DEF BandsInv, GuardIsFollowed
  <2> QED
    BY <1>2, <1>7, <1>11, <1>16, <2>3, <2>4 DEF BandsInv
<1>17. CASE c.kind = "band_guard"
  <2>1. server' = [server EXCEPT !.untold = FALSE]
    BY <1>4, <1>17 DEF BandsHandled
  <2>2. /\ server'.bands = server.bands /\ ~server'.untold /\ server'.phase = server.phase
        /\ server'.setting = server.setting
    BY <1>0, <2>1 DEF BandsModules
  <2>3. BandsAgree'
    <3>1. CASE ~server.untold
      BY <1>12, <1>14, <2>2, <3>1
    <3>2. CASE server.untold
      <4>1. server'.phase = "reverted"
        BY <2>2, <3>2 DEF BandsInv, GuardIsFollowed
      <4>2. \A m \in Modes : Forgets(answers'[last], m)
        BY <1>5, <1>17, <4>1 DEF Forgets
      <4> QED
        BY <1>13, <1>14, <1>17, <4>2
    <3> QED
      BY <3>1, <3>2
  <2>4. server'.phase = "checking" => VerdictComes'
    BY <1>5, <1>17 DEF VerdictComes
  <2>5. GuardIsFollowed'
    BY <2>2, <2>4 DEF GuardIsFollowed
  <2> QED
    BY <1>2, <1>7, <1>10, <2>2, <2>3, <2>5 DEF BandsInv
<1>18. CASE c.kind = "lock"
  <2> DEFINE one == [server.bands EXCEPT ![c.key] = c.val]
  <2>1. server' = [server EXCEPT !.bands = one, !.phase = Unguarded]
    BY <1>4, <1>18 DEF BandsHandled
  <2>2. \A m \in Modes : m # c.key => one[m] = server.bands[m]
    BY <1>0 DEF BandsModules
  <2> HIDE DEF one
  <2>3. /\ server'.bands = one /\ server'.untold = server.untold /\ server'.phase = Unguarded
        /\ server'.setting = server.setting
    BY <1>0, <2>1 DEF BandsModules
  <2>4. Forgets(answers'[last], c.key)
    BY <1>5, <1>18 DEF Forgets
  <2>5. BandsAgree'
    BY <1>12, <1>13, <1>14, <1>18, <2>2, <2>3, <2>4
  <2>6. GuardIsFollowed'
    BY <1>8, <1>18, <1>u, <2>3 DEF BandsInv, GuardIsFollowed
  <2> QED
    BY <1>2, <1>7, <1>10, <2>3, <2>5, <2>6 DEF BandsInv
<1>19. CASE c.kind = "lock_guarded"
  <2> DEFINE one == [server.bands EXCEPT ![c.key] = c.val]
             over == server.overtaken \/ server.untold
             earlier == server.bands[c.key]
  <2>1. server' = [server EXCEPT !.bands = one, !.mode = c.key, !.phase = "checking",
                                 !.previous = earlier, !.overtaken = over]
    BY <1>4, <1>19 DEF BandsHandled
  <2>2. \A m \in Modes : m # c.key => one[m] = server.bands[m]
    BY <1>0 DEF BandsModules
  <2> HIDE DEF one, over, earlier
  <2>3. /\ server'.bands = one /\ server'.untold = server.untold /\ server'.phase = "checking"
        /\ server'.setting = server.setting /\ server'.overtaken = over
    BY <1>0, <2>1 DEF BandsModules
  <2>4. ~server.untold
    BY <2>3 DEF over
  <2>5. Forgets(answers'[last], c.key)
    BY <1>5, <1>19 DEF Forgets
  <2>6. BandsAgree'
    BY <1>12, <1>13, <1>14, <1>19, <2>2, <2>3, <2>5
  <2>7. VerdictComes'
    BY <1>6, <1>19 DEF VerdictComes
  <2>8. GuardIsFollowed'
    BY <2>3, <2>4, <2>7 DEF GuardIsFollowed
  <2> QED
    BY <1>2, <1>7, <1>10, <2>3, <2>6, <2>8 DEF BandsInv
<1>20. CASE c.kind = "reset"
  <2> DEFINE each == [m \in Modes |-> IF TRUE THEN c.val ELSE server.bands[m]]
  <2>1. server' = [server EXCEPT !.bands = each, !.phase = Unguarded]
    BY <1>4, <1>20 DEF BandsHandled
  <2> HIDE DEF each
  <2>2. /\ server'.untold = server.untold /\ server'.phase = Unguarded
        /\ server'.setting = server.setting
    BY <1>0, <2>1 DEF BandsModules
  <2>3. \A m \in Modes : Forgets(answers'[last], m)
    BY <1>1, <1>5, <1>20 DEF Forgets
  <2>4. BandsAgree'
    BY <1>13, <1>14, <1>20, <2>3
  <2>5. GuardIsFollowed'
    BY <1>8, <1>20, <1>u, <2>2 DEF BandsInv, GuardIsFollowed
  <2> QED
    BY <1>2, <1>7, <1>10, <2>2, <2>4, <2>5 DEF BandsInv
<1> QED
  BY <1>1, <1>15, <1>16, <1>17, <1>18, <1>19, <1>20

\* Every step of the bands' panel keeps the types and, while nothing failed and
\* no guard took an unheard verdict's place, what the replies and the page say.
LEMMA BandsStep ==
  ASSUME TypeOK, panel = "bands", ValuesAssumption, NetworkNext,
         failures = 0 => NothingFailed /\ (~server.overtaken => BandsInv)
  PROVE  /\ panel' = panel /\ BandsType'
         /\ failures' = 0 => NothingFailed' /\ (~server'.overtaken => BandsInv')
<1>0. BandsType
  BY DEF TypeOK, BandsType
<1>1. CASE Bands \/ BandsAnswer
  <2>1. BandsKept
    BY <1>0, <1>1, BandsUser, BandsRetries, BandsCountdown, BandsListHeard, BandsLockHeard, BandsResetHeard,
       BandsSaveHeard, BandsVerdictHeard, BandsSettingHeard, BandsModelHeard
       DEF Bands, BandsAnswer
  <2> QED
    BY <2>1 DEF BandsKept
<1>2. CASE \E i \in DOMAIN flights : ServerHandles(i)
  <2>1. PICK i \in DOMAIN flights : ServerHandles(i)
    BY <1>2
  <2>2. failures' = 0 => failures = 0
    BY <2>1, ServedCounts
  <2>3. panel' = panel /\ BandsType' /\ (server.overtaken => server'.overtaken)
    BY <2>1, HandledIs, BandsTypesServed
  <2>4. ASSUME failures' = 0 PROVE NothingFailed' /\ (~server'.overtaken => BandsInv')
    <3>1. NothingFailed'
      <4>1. flights \in Seq(BandsCalls) /\ answers \in Seq(AnswersOf(BandsCalls, BandsModules))
        BY <1>0 DEF BandsType, Typed
      <4>2. flights[i].kind # "scan_start"
        BY <2>1, <4>1 DEF BandsCalls, CallsOf
      <4> QED
        BY <2>1, <2>2, <2>4, <4>1, <4>2, ObeyedGrows
    <3> QED
      BY <2>1, <2>2, <2>3, <2>4, <3>1, BandsServed
  <2> QED
    BY <2>3, <2>4
<1>3. CASE \E i \in DOMAIN flights : CallFails(i)
  <2>1. PICK i \in DOMAIN flights : CallFails(i)
    BY <1>3
  <2> QED
    BY <2>1, BandsTypesServed, FailureIsCounted DEF CallFails, GiveUp, Mishap
<1>4. CASE GuardDecides
  BY <1>0, <1>4, BandsDecides
<1>5. ~EnterNetwork /\ ~LeaveNetwork
  BY DEF EnterNetwork, LeaveNetwork
<1> QED
  BY <1>1, <1>2, <1>3, <1>4, <1>5 DEF NetworkNext, PanelStep, Deliver, Lists

-----------------------------------------------------------------------------
(* The specification of NetworkPage.                                       *)

LEMMA InitInv ==
  ASSUME ValuesAssumption, ScansAssumption, NetworkInit
  PROVE  IndInv
<1>0. panel \in Panels /\ active \in BOOLEAN /\ failures \in Nat /\ events \in Nat
  BY DEF NetworkInit
<1>a. answers = <<>> /\ DOMAIN answers = {}
  BY DEF NetworkInit
<1>1. CASE panel = "bands"
  <2>1. page = BandsPage /\ server = BandsModule /\ flights = <<Ask("model", All, Unknown)>>
    BY <1>1 DEF NetworkInit, PageOf, ModulesOf, FirstCalls, Lists
  <2>2. Ask("model", All, Unknown) \in BandsCalls
    BY DEF Ask, BandsCalls, CallsOf, Keys
  <2>3. Typed(BandsPages, BandsModules, BandsCalls)
    <3>1. page \in BandsPages
      BY <2>1 DEF BandsPage, BandsPages, Shows
    <3>2. server \in BandsModules
      BY <2>1, ValuesAssumption DEF BandsModule, BandsModules, GuardPhases, Keys
    <3>3. answers \in Seq(AnswersOf(BandsCalls, BandsModules))
      BY <1>a
    <3> QED
      BY <2>1, <2>2, <3>1, <3>2, <3>3 DEF Typed
  <2>4. DOMAIN flights = {1} /\ flights[1].kind = "model" /\ ~flights[1].orphan
    BY <2>1 DEF Ask
  <2>5. NothingFailed /\ UnderWay({"model"}) /\ UnderWay({"model", "settings"})
    BY <1>a, <2>4 DEF NothingFailed, UnderWay
  <2>6. BandsAgree /\ GuardIsFollowed
    BY <1>a, <2>1 DEF BandsAgree, GuardIsFollowed, BandsPage, BandsModule
  <2>7. SettingAgrees /\ WaitsForCalls
    BY <1>a, <2>1, <2>5 DEF SettingAgrees, WaitsForCalls, BandsPage
  <2> QED
    BY <1>0, <1>1, <2>3, <2>5, <2>6, <2>7 DEF IndInv, TypeOK, SelectionIsShown, BandsInv, Lists
<1>2. CASE panel = "cells"
  <2>1. page = CellsPage /\ server \in CellsModule
        /\ flights = <<ReadLocks, ReadScans, Ask("settings", All, Unknown)>>
    BY <1>2 DEF NetworkInit, PageOf, ModulesOf, FirstCalls, Lists
  <2>2. page \in CellsPages
    <3>1. NoResult \in Results
      BY DEF NoResult, Results, ScanModes
    <3>2. [k \in Kinds |-> NoResult] \in [Kinds -> Results]
      BY <3>1
    <3> QED
      BY <2>1, <3>2 DEF CellsPage, CellsPages, Locks, Kinds
  <2>3. server \in CellsModules
    <3>1. PICK r \in {NoResult} \union {Found(cells) : cells \in Scans} :
            server = [lock |-> {}, running |-> "none", mode |-> "all", latest |-> "neighbour",
                      results |-> [k \in Kinds |-> IF k = "neighbour" THEN r ELSE NoResult]]
      BY <2>1 DEF CellsModule
    <3>2. NoResult \in Results
      BY DEF NoResult, Results, ScanModes
    <3>3. r \in Results
      BY <3>1, <3>2, ScansAssumption DEF Found, Results, ScanModes, Cells
    <3> DEFINE results == [k \in Kinds |-> IF k = "neighbour" THEN r ELSE NoResult]
    <3>4. results \in [Kinds -> Results]
      BY <3>2, <3>3
    <3>5. server = [lock |-> {}, running |-> "none", mode |-> "all", latest |-> "neighbour", results |-> results]
      BY <3>1
    <3> HIDE DEF results
    <3> QED
      BY <3>4, <3>5 DEF CellsModules, Locks, ScanModes, Kinds
  <2>4. Typed(CellsPages, CellsModules, CellsCalls)
    <3>1. Ask("settings", All, Unknown) \in CellsCalls
      BY DEF Ask, CellsCalls, CallsOf
    <3>2. flights \in Seq(CellsCalls)
      BY <2>1, <3>1, ReadsAreCalls
    <3>3. answers \in Seq(AnswersOf(CellsCalls, CellsModules))
      BY <1>a
    <3> QED
      BY <2>2, <2>3, <3>2, <3>3 DEF Typed
  <2>5. SelectionIsShown
    BY <2>1 DEF SelectionIsShown, CellsPage
  <2> QED
    BY <1>0, <1>2, <2>4, <2>5 DEF IndInv, TypeOK, Lists
<1>3. CASE panel = "freq"
  <2>1. page = FreqPage /\ server = FreqModule /\ flights = <<ReadFreq, ReadFreq>>
    BY <1>3 DEF NetworkInit, PageOf, ModulesOf, FirstCalls, Lists
  <2>2. page \in FreqPages /\ server \in FreqModules
    BY <2>1, ValuesAssumption DEF FreqPage, FreqPages, FreqModule, FreqModules, Shows, GuardPhases
  <2>3. flights \in Seq(FreqCalls) /\ answers \in Seq(AnswersOf(FreqCalls, FreqModules))
    BY <1>a, <2>1, ReadFreqIsCall
  <2>4. DOMAIN flights = 1..2 /\ flights[1] = ReadFreq /\ \A k \in DOMAIN flights : flights[k] = ReadFreq
    BY <2>1
  <2>5. NothingFailed /\ UnderWay({"freq"})
    BY <1>a, <2>4, ReadFreqIsCall DEF NothingFailed, UnderWay
  <2>6. FreqInv
    BY <1>a, <2>1, <2>5 DEF FreqInv, FreqAgrees, VerdictHolds, FreqPage, Decided
  <2> QED
    BY <1>0, <1>3, <2>2, <2>3, <2>5, <2>6 DEF IndInv, TypeOK, Typed, SelectionIsShown, Lists
<1>4. CASE panel \in Lists
  <2>1. page = ListPage /\ server = ListModule /\ flights = <<Load("first")>>
    BY <1>4 DEF NetworkInit, PageOf, ModulesOf, FirstCalls, Lists
  <2>2. page \in ListPages /\ server \in ListModules
    BY <2>1, ValuesAssumption DEF ListPage, ListPages, ListModule, ListModules, Shows
  <2>3. flights \in Seq(ListCalls) /\ answers \in Seq(AnswersOf(ListCalls, ListModules))
    BY <1>a, <2>1, LoadIsCall
  <2>4. DOMAIN flights = {1} /\ flights[1].kind = "load" /\ ~flights[1].orphan
    BY <2>1 DEF Load, Ask
  <2>5. NothingFailed /\ UnderWay({"load"})
    BY <1>a, <2>4 DEF NothingFailed, UnderWay
  <2>6. ListInv
    BY <1>a, <2>1, <2>5 DEF ListInv, ListAgrees, RestartOffered, PdpAtOnce, ListModule
  <2>7. panel \notin {"bands", "freq", "cells"}
    BY <1>4 DEF Lists
  <2> QED
    BY <1>0, <1>4, <2>2, <2>3, <2>5, <2>6, <2>7 DEF IndInv, TypeOK, Typed, SelectionIsShown
<1> QED
  BY <1>0, <1>1, <1>2, <1>3, <1>4 DEF Panels, Lists

\* What the steps count.
LEMMA CountsAre ==
  ASSUME TypeOK, NetworkNext
  PROVE  active' \in BOOLEAN /\ failures' \in Nat /\ events' \in Nat
<1>0. /\ active \in BOOLEAN /\ failures \in Nat /\ events \in Nat
      /\ events + 1 \in Nat /\ failures + 1 \in Nat
  BY DEF TypeOK
<1>1. CASE PanelStep
  <2>1. active' = active /\ failures' = failures /\ (events' = events \/ events' = events + 1)
    BY <1>1 DEF PanelStep, Bands, LockBands, ResetBands, SaveChanges, GuardTimerFires, RetryFires, BandsCountdownEnds,
         CellsStep, LockTick, ScanTimerFires, SetScanKind, ScanModeChange, StartCellScan, ClearRows, ToggleCell,
         LockSelected, LockByHand, LockCountdownEnds, AutoUnlock, OtherBrowserScans, ScanFinishes, ResultExpires,
         Freq, FreqTimerFires, LockFreq, List, OpenForm, RunChange, RebootForMbn, User, Page, bounds
  <2> QED
    BY <1>0, <2>1
<1>2. CASE Deliver
  <2>1. UNCHANGED <<active, failures, events>>
    BY <1>2 DEF Deliver, BandsAnswer, ModelAnswered, BandsAnswered, SettingsAnswered, LockAnswered, ResetAnswered,
         SaveAnswered, GuardAnswered, CellsAnswer, LocksAnswered, ScanAnswered, CellLockAnswered, LocksRead,
         FreqAnswer, FreqAnswered, FreqSet, ListAnswer, ChangeAnswered, LoadAnswered, RebootAnswered, Page, bounds,
         TypeOK, Panels, Lists
  <2> QED
    BY <1>0, <2>1
<1>3. CASE GuardDecides \/ EnterNetwork \/ LeaveNetwork
  <2>1. active' \in BOOLEAN /\ failures' = failures /\ (events' = events \/ events' = events + 1)
    BY <1>0, <1>3 DEF GuardDecides, EnterNetwork, LeaveNetwork, bounds
  <2> QED
    BY <1>0, <2>1
<1>4. CASE \E i \in DOMAIN flights : ServerHandles(i)
  <2>1. PICK i \in DOMAIN flights : ServerHandles(i)
    BY <1>4
  <2>2. active' = active /\ failures' \in Nat
    BY <2>1, HandledIs, ServedCounts
  <2>3. events' = events \/ events' = events + 1
    BY <2>1 DEF ServerHandles, bounds
  <2> QED
    BY <1>0, <2>2, <2>3
<1>5. CASE \E i \in DOMAIN flights : CallFails(i)
  BY <1>0, <1>5 DEF CallFails, GiveUp, Mishap
<1> QED
  BY <1>1, <1>2, <1>3, <1>4, <1>5 DEF NetworkNext

LEMMA StepInv ==
  ASSUME ValuesAssumption, ScansAssumption, IndInv, [NetworkNext]_vars
  PROVE  IndInv'
<1>1. CASE UNCHANGED vars
  BY <1>1 DEF vars, calls, bounds, IndInv, TypeOK, Typed, SelectionIsShown, NothingFailed, BandsInv, BandsAgree,
       Forgets, GuardIsFollowed, VerdictComes, SettingAgrees, WaitsForCalls, UnderWay, Told, FreqInv, FreqAgrees,
       VerdictHolds, ListInv, ListAgrees, RestartOffered, PdpAtOnce
<1>2. CASE NetworkNext
  <2>0. TypeOK /\ panel \in Panels
    BY DEF IndInv, TypeOK
  <2>1. active' \in BOOLEAN /\ failures' \in Nat /\ events' \in Nat
    BY <1>2, <2>0, CountsAre
  <2>2. CASE panel = "bands"
    <3>1. failures = 0 => NothingFailed /\ (~server.overtaken => BandsInv)
      BY <2>2 DEF IndInv
    <3>2. /\ panel' = panel /\ BandsType'
          /\ failures' = 0 => NothingFailed' /\ (~server'.overtaken => BandsInv')
      BY <1>2, <2>0, <2>2, <3>1, BandsStep
    <3> QED
      BY <2>0, <2>1, <2>2, <3>2 DEF IndInv, TypeOK, BandsType, SelectionIsShown, Lists
  <2>3. CASE panel = "cells"
    <3>1. Chosen(page)
      BY <2>3 DEF IndInv, SelectionIsShown, Chosen
    <3>2. CellsType' /\ Chosen(page)' /\ panel' = panel
      BY <1>2, <2>0, <2>3, <3>1, CellsStepKeeps
    <3> QED
      BY <2>0, <2>1, <2>3, <3>2 DEF IndInv, TypeOK, CellsType, SelectionIsShown, Chosen, Lists
  <2>4. CASE panel = "freq"
    <3>1. failures = 0 => NothingFailed /\ FreqInv
      BY <2>4 DEF IndInv
    <3>2. /\ panel' = panel /\ Typed(FreqPages, FreqModules, FreqCalls)'
          /\ failures' = 0 => NothingFailed' /\ FreqInv'
      BY <1>2, <2>0, <2>4, <3>1, FreqStep
    <3> QED
      BY <2>0, <2>1, <2>4, <3>2 DEF IndInv, TypeOK, SelectionIsShown, Lists
  <2>5. CASE panel \in Lists
    <3>1. panel \notin {"bands", "cells", "freq"}
      BY <2>5 DEF Lists
    <3>2. failures = 0 => NothingFailed /\ ListInv
      BY <2>5, <3>1 DEF IndInv
    <3>3. /\ panel' = panel /\ Typed(ListPages, ListModules, ListCalls)'
          /\ failures' = 0 => NothingFailed' /\ ListInv'
      BY <1>2, <2>0, <2>5, <3>2, ListStep
    <3> QED
      BY <2>0, <2>1, <2>5, <3>1, <3>3 DEF IndInv, TypeOK, SelectionIsShown
  <2> QED
    BY <2>0, <2>2, <2>3, <2>4, <2>5 DEF Panels, Lists
<1> QED
  BY <1>1, <1>2

\* Replies come in the order the calls were handled, so what the page shows is
\* what the module holds, or a call or reply on its way, a timer or a countdown
\* will tell; the ticks are on the rows: in every state, for all modes, values
\* and cells, and any number of calls under way.
THEOREM Invariance == Spec => []IndInv
<1>1. NetworkInit => IndInv
  BY InitInv, ValuesAssumption, ScansAssumption
<1>2. IndInv /\ [NetworkNext]_vars => IndInv'
  BY StepInv, ValuesAssumption, ScansAssumption
<1> QED
  BY <1>1, <1>2, PTL DEF Spec

\* The page's object, the module and the two queues keep their types: a call has
\* a kind of its panel, and a reply the kind and key of one.
THEOREM TypeCorrect == Spec => []TypeOK
<1>1. IndInv => TypeOK
  BY DEF IndInv
<1> QED
  BY <1>1, Invariance, PTL

\* A tick is always on a cell of the table, and the ticks are several LTE cells
\* or one NR cell, whatever scans, modes and failed calls there are.
THEOREM SelectionStaysShown == Spec => []SelectionIsShown
<1>1. IndInv => SelectionIsShown
  BY DEF IndInv
<1> QED
  BY <1>1, Invariance, PTL

\* Once nothing is under way and no call failed, the page shows the module's
\* lists, settings, lock, profile and verdict, and offers the restart that is due;
\* but for the band lists where the verdict of a guard that put its list back was
\* overtaken by the next guarded lock (module.overtaken).
THEOREM ShownStaysReal == Spec => []ShownIsReal
<1>1. ASSUME IndInv, Quiet, failures = 0
      PROVE  CASE panel = "bands" -> ~server.overtaken =>
                    /\ page.setting \in {Unknown, server.setting}
                    /\ \A m \in Modes : page.shown[m] \in {Unknown, server.bands[m]}
               [] panel = "freq" -> /\ page.shown = server.lock
                                    /\ page.verdict \in {"ok", "reverted", "failed"} => page.verdict = server.phase
               [] panel \in Lists -> /\ page.shown = server.set
                                     /\ server.set # server.inForce => page.reboot
               [] OTHER -> TRUE
  <2>1. flights = <<>> /\ answers = <<>> /\ DOMAIN flights = {} /\ DOMAIN answers = {}
    BY <1>1 DEF Quiet
  <2>2. \A kinds : ~UnderWay(kinds) /\ ~Told(kinds)
    BY <2>1 DEF UnderWay, Told
  <2>3. ASSUME panel = "bands", ~server.overtaken
        PROVE  /\ page.setting \in {Unknown, server.setting}
               /\ \A m \in Modes : page.shown[m] \in {Unknown, server.bands[m]}
    <3>1. BandsInv /\ page.countdown = {} /\ page.polls = 0
      BY <1>1, <2>3 DEF IndInv, Quiet
    <3>2. ~VerdictComes
      BY <2>1, <2>2, <3>1 DEF VerdictComes
    <3>3. ~server.untold
      BY <3>1, <3>2 DEF BandsInv, GuardIsFollowed
    <3> QED
      BY <2>1, <2>2, <3>1, <3>3 DEF BandsInv, BandsAgree, SettingAgrees
  <2>4. ASSUME panel = "freq"
        PROVE  /\ page.shown = server.lock
               /\ page.verdict \in {"ok", "reverted", "failed"} => page.verdict = server.phase
    BY <1>1, <2>2, <2>4 DEF IndInv, Quiet, FreqInv, FreqAgrees, VerdictHolds, Decided
  <2>5. ASSUME panel \in Lists
        PROVE  page.shown = server.set /\ (server.set # server.inForce => page.reboot)
    BY <1>1, <2>1, <2>2, <2>5 DEF IndInv, ListInv, ListAgrees, RestartOffered, Lists
  <2> QED
    BY <2>3, <2>4, <2>5 DEF Lists
<1>2. IndInv => ShownIsReal
  BY <1>1 DEF ShownIsReal
<1> QED
  BY <1>2, Invariance, PTL

-----------------------------------------------------------------------------
(* The steps of one panel of Pages.                                        *)

\* Steps of the pages that poll start from their panels.
LEMMA PollingOnly ==
  ASSUME PagesNext, panel \notin SmallPanels
  PROVE  FALSE
BY DEF PagesNext, PageAnswer, PageTimers, Pause, ClearEvents, Changed, SaveNotify, TestChannel,
       OtherPageSaves, EditTarget, SaveTarget, Sampled, ServerChanges, EnterPage, LeavePage,
       HideOrShow, ClickLink, ShowGroup, AddressChanges, FollowAddress, RouterEvent,
       SmallPanels, Polling, Tickers, Refreshers

LEMMA NetworkOnly ==
  ASSUME Next, panel = "network"
  PROVE  \/ NetworkStep \/ NetworkAnswer \/ JobRuns
         \/ \E i \in DOMAIN flights : SettingsHandles(i) \/ SettingsFails(i)
<1>1. SettingsNext
  BY PollingOnly DEF Next, SmallPanels, Polling, Tickers, Refreshers
<1> QED
  BY <1>1 DEF SettingsNext, SettingsAnswer, OtherBrowserSaves, EnterSettings, LeaveSettings,
       InstallProceeds, ServiceStops, ServiceStarts, OthersCheck, OthersInstall, OthersSave, Others,
       OthersChecked, UpdateRuns

LEMMA WatchdogOnly ==
  ASSUME Next, panel = "watchdog"
  PROVE  \/ WatchdogStep \/ WatchdogAnswer \/ OtherBrowserSaves \/ EnterSettings \/ LeaveSettings
         \/ \E i \in DOMAIN flights : SettingsHandles(i) \/ SettingsFails(i)
<1>1. SettingsNext
  BY PollingOnly DEF Next, SmallPanels, Polling, Tickers, Refreshers
<1> QED
  BY <1>1 DEF SettingsNext, SettingsAnswer, JobRuns,
       InstallProceeds, ServiceStops, ServiceStarts, OthersCheck, OthersInstall, OthersSave, Others,
       OthersChecked, UpdateRuns

LEMMA UpdateOnly ==
  ASSUME Next, panel = "update"
  PROVE  \/ UpdateStep \/ UpdateAnswer
         \/ InstallProceeds \/ ServiceStops \/ ServiceStarts
         \/ OthersCheck \/ OthersInstall \/ OthersSave \/ OthersChecked
         \/ \E i \in DOMAIN flights : SettingsHandles(i) \/ SettingsFails(i)
<1>1. SettingsNext
  BY PollingOnly DEF Next, SmallPanels, Polling, Tickers, Refreshers
<1> QED
  BY <1>1 DEF SettingsNext, SettingsAnswer, JobRuns, OtherBrowserSaves, EnterSettings, LeaveSettings

LEMMA AccountsOnly ==
  ASSUME Next, panel = "accounts"
  PROVE  \/ AccountsStep \/ FormAnswered
         \/ \E i \in DOMAIN flights : SettingsHandles(i) \/ SettingsFails(i)
<1>1. SettingsNext
  BY PollingOnly DEF Next, SmallPanels, Polling, Tickers, Refreshers
<1> QED
  BY <1>1 DEF SettingsNext, SettingsAnswer, JobRuns, OtherBrowserSaves, EnterSettings, LeaveSettings,
       InstallProceeds, ServiceStops, ServiceStarts, OthersCheck, OthersInstall, OthersSave, Others,
       OthersChecked, UpdateRuns

\* Steps of the settings page start from its panels.
LEMMA SettingsOnly ==
  ASSUME SettingsNext, panel \notin SettingsPanels
  PROVE  FALSE
BY DEF SettingsNext, SettingsAnswer, JobRuns, OtherBrowserSaves, EnterSettings, LeaveSettings,
       InstallProceeds, ServiceStops, ServiceStarts, OthersCheck, OthersInstall, OthersSave, Others,
       OthersChecked, UpdateRuns, SettingsPanels

LEMMA SmallOnly ==
  ASSUME Next, panel \in SmallPanels
  PROVE  PagesNext
BY SettingsOnly DEF Next, SettingsPanels, SmallPanels, Polling, Tickers, Refreshers

LEMMA TickersOnly ==
  ASSUME Next, panel \in Tickers
  PROVE  \/ TickerAnswered \/ TickerTimerFires \/ ServerChanges \/ EnterPage \/ LeavePage \/ HideOrShow
         \/ \E i \in DOMAIN flights : PageHandles(i) \/ PageFails(i)
<1>1. PagesNext
  BY SmallOnly DEF SmallPanels, Polling
<1> QED
  BY <1>1 DEF PagesNext, PageAnswer, PageTimers, Pause, ClearEvents, Changed, SaveNotify, TestChannel,
       OtherPageSaves, EditTarget, SaveTarget, Sampled, ClickLink, ShowGroup, AddressChanges,
       FollowAddress, RouterEvent, Tickers, Refreshers

LEMMA RefreshersOnly ==
  ASSUME Next, panel \in Refreshers
  PROVE  \/ RefreshAnswered \/ EventsCleared \/ RefreshTimerFires \/ Pause \/ ClearEvents
         \/ ServerChanges \/ EnterPage \/ LeavePage \/ HideOrShow
         \/ \E i \in DOMAIN flights : PageHandles(i) \/ PageFails(i)
<1>1. PagesNext
  BY SmallOnly DEF SmallPanels, Polling
<1> QED
  BY <1>1 DEF PagesNext, PageAnswer, PageTimers, Changed, SaveNotify, TestChannel,
       OtherPageSaves, EditTarget, SaveTarget, Sampled, ClickLink, ShowGroup, AddressChanges,
       FollowAddress, RouterEvent, Tickers, Refreshers

NotifySteps == \/ ConfigAnswered \/ ProbeAnswered \/ CurrentAnswered \/ NotifySaved \/ ChannelTested
               \/ NotifyTimerFires \/ Changed \/ SaveNotify \/ TestChannel \/ OtherPageSaves

LEMMA NotifyOnly ==
  ASSUME Next, panel = "notify"
  PROVE  \/ NotifySteps \/ EnterPage \/ LeavePage \/ HideOrShow
         \/ \E i \in DOMAIN flights : PageHandles(i) \/ PageFails(i)
<1>1. PagesNext
  BY SmallOnly DEF SmallPanels, Polling
<1> QED
  BY <1>1 DEF NotifySteps, PagesNext, PageAnswer, PageTimers, Pause, ClearEvents,
       EditTarget, SaveTarget, Sampled, ServerChanges, ClickLink, ShowGroup, AddressChanges,
       FollowAddress, RouterEvent, Tickers, Refreshers

MonitorSteps == SamplesAnswered \/ TargetSaved \/ MonitorTimerFires \/ EditTarget \/ SaveTarget \/ Sampled

LEMMA MonitorOnly ==
  ASSUME Next, panel = "monitor"
  PROVE  \/ MonitorSteps \/ EnterPage \/ LeavePage \/ HideOrShow
         \/ \E i \in DOMAIN flights : PageHandles(i) \/ PageFails(i)
<1>1. PagesNext
  BY SmallOnly DEF SmallPanels, Polling
<1> QED
  BY <1>1 DEF MonitorSteps, PagesNext, PageAnswer, PageTimers, Pause, ClearEvents, Changed,
       SaveNotify, TestChannel, OtherPageSaves, ServerChanges, ClickLink, ShowGroup, AddressChanges,
       FollowAddress, RouterEvent, Tickers, Refreshers

LEMMA RouterOnly ==
  ASSUME Next, panel = "router"
  PROVE  \/ ClickLink \/ ShowGroup \/ AddressChanges \/ FollowAddress
         \/ \E i \in DOMAIN flights : PageHandles(i) \/ PageFails(i)
<1>1. PagesNext
  BY SmallOnly DEF SmallPanels
<1> QED
  BY <1>1 DEF PagesNext, PageAnswer, PageTimers, Pause, ClearEvents, Changed, SaveNotify, TestChannel,
       OtherPageSaves, EditTarget, SaveTarget, Sampled, ServerChanges, EnterPage, LeavePage,
       HideOrShow, Polling, Tickers, Refreshers

-----------------------------------------------------------------------------
(* Types of Pages.                                                         *)

\* A kind of call has its orphans.
Complete(C) == \A c \in C : [c EXCEPT !.orphan = TRUE] \in C

LEMMA KindsAre ==
  ASSUME NEW K, NEW V
  PROVE  /\ Complete(Kind(K, V))
         /\ \A kind \in K, val \in V : Call(kind, val) \in Kind(K, V)
         /\ \A c \in Kind(K, V) : c.kind \in K /\ c.val \in V /\ c.orphan \in BOOLEAN
BY DEF Complete, Kind, Call

\* One call more, or none.
LEMMA SeqsOf ==
  ASSUME NEW C
  PROVE  /\ <<>> \in Seq(C)
         /\ \A c \in C : <<c>> \in Seq(C)
         /\ \A c, d \in C : <<c, d>> \in Seq(C)
OBVIOUS

\* The reply at hand.
LEMMA ReplyIs ==
  ASSUME NEW P, NEW S, NEW C, Fits(P, S, C), answers # <<>>
  PROVE  /\ Head(answers).ok \in BOOLEAN /\ Head(answers).snap \in S
         /\ Head(answers).kind \in {c.kind : c \in C} /\ Head(answers).val \in {c.val : c \in C}
<1>1. Head(answers) \in RepliesTo(C, S)
  BY Taken DEF Fits
<1> QED
  BY <1>1 DEF RepliesTo

\* A step of the page, with the calls it sends.
LEMMA PageStepFits ==
  ASSUME NEW P, NEW S, NEW C, Fits(P, S, C), page' \in P, server' \in S, NEW new \in Seq(C),
         Send(new) \/ (answers # <<>> /\ Done(new))
  PROVE  Fits(P, S, C)'
<1>1. flights' \in Seq(C) /\ answers' \in Seq(RepliesTo(C, S))
  BY SentTypes DEF Fits
<1> QED
  BY <1>1 DEF Fits

LEMMA QuietStepFits ==
  ASSUME NEW P, NEW S, NEW C, Fits(P, S, C), page' \in P, server' \in S, UNCHANGED calls
  PROVE  Fits(P, S, C)'
BY DEF Fits, calls

\* The server handles a call.
LEMMA ServerStepFits ==
  ASSUME NEW P, NEW S, NEW C, Fits(P, S, C), NEW i \in DOMAIN flights, NEW ok \in BOOLEAN,
         NEW after \in S, Handle(i, ok, after)
  PROVE  /\ Fits(P, S, C)' /\ UNCHANGED <<panel, page, active>> /\ server' = after
         /\ flights' = RemoveAt(flights, i)
<1>0. flights \in Seq(C) /\ answers \in Seq(RepliesTo(C, S)) /\ page \in P
  BY DEF Fits
<1>1. flights[i] \in C
  BY <1>0
<1> DEFINE a == [kind |-> flights[i].kind, val |-> flights[i].val, ok |-> ok, snap |-> after]
<1>2. a \in RepliesTo(C, S)
  BY <1>1 DEF RepliesTo
<1>3. answers' = answers \/ answers' = Append(answers, a)
  BY DEF Handle
<1> HIDE DEF a
<1>4. answers' \in Seq(RepliesTo(C, S))
  <2>1. Append(answers, a) \in Seq(RepliesTo(C, S))
    BY <1>0, <1>2, Added
  <2> QED
    BY <1>0, <1>3, <2>1
<1>5. flights' = RemoveAt(flights, i) /\ UNCHANGED <<panel, page, active>> /\ server' = after
  BY DEF Handle
<1>6. flights' \in Seq(C)
  BY <1>0, <1>5, Removed
<1> QED
  BY <1>0, <1>4, <1>5, <1>6 DEF Fits

\* A call is given up.
LEMMA FailedStepFits ==
  ASSUME NEW P, NEW S, NEW C, Fits(P, S, C), Complete(C), NEW i \in DOMAIN flights,
         NEW may, NEW after \in P, NEW new \in Seq(C), GiveUp(i, may, after, new)
  PROVE  Fits(P, S, C)' /\ UNCHANGED <<panel, server, answers, active>>
<1>0. flights \in Seq(C)
  BY DEF Fits
<1>1. [flights[i] EXCEPT !.orphan = TRUE] \in C
  BY <1>0 DEF Complete
<1>2. \/ flights' = RemoveAt(flights, i) \o new
      \/ flights' = [flights EXCEPT ![i].orphan = TRUE] \o new
  BY DEF GiveUp
<1>3. flights' \in Seq(C)
  BY <1>0, <1>1, <1>2, FailedTypes
<1>4. UNCHANGED <<panel, server, answers, active>> /\ page' = after
  BY DEF GiveUp
<1> QED
  BY <1>3, <1>4 DEF Fits

\* What every step does with what the panels share.
Counts == /\ panel' = panel /\ active' \in BOOLEAN /\ failures' \in Nat /\ events' \in Nat
          /\ failures' >= failures /\ events' >= events

LEMMA UserCounts ==
  ASSUME PageTypeOK, \/ User
                     \/ Page
                     \/ (Mishap \/ UNCHANGED bounds) /\ UNCHANGED <<panel, active>>
  PROVE  Counts
BY DEF PageTypeOK, User, Page, Mishap, bounds, Counts

\* Calls that have someone who waits for them.
Own(C) == {c \in C : ~c.orphan}

\* A step of the page: what it becomes, and what it sends.
Sends(P, C) ==
  /\ page' \in P /\ UNCHANGED server
  /\ \/ UNCHANGED calls
     \/ \E new \in Seq(Own(C)) : Send(new) \/ (answers # <<>> /\ Done(new))

LEMMA SendsFits ==
  ASSUME NEW P, NEW S, NEW C, Fits(P, S, C), Sends(P, C)
  PROVE  Fits(P, S, C)'
<1>1. server' \in S
  BY DEF Fits, Sends
<1>2. \A new \in Seq(Own(C)) : new \in Seq(C)
  BY DEF Own
<1> QED
  BY <1>1, <1>2, PageStepFits, QuietStepFits DEF Sends

\* With a step of the page no call is lost, and its new calls are waited for.
LEMMA SendsAsk ==
  ASSUME NEW P, NEW S, NEW C, Fits(P, S, C), Sends(P, C)
  PROVE  /\ \A kinds : UnderWay(kinds) => UnderWay(kinds)'
         /\ NothingFailed => NothingFailed'
<1>0. flights \in Seq(C) /\ answers \in Seq(RepliesTo(C, S))
  BY DEF Fits
<1>1. CASE UNCHANGED calls
  BY <1>1 DEF calls, UnderWay, NothingFailed
<1>2. CASE \E new \in Seq(Own(C)) : Send(new) \/ (answers # <<>> /\ Done(new))
  <2>1. PICK new \in Seq(Own(C)) : Send(new) \/ (answers # <<>> /\ Done(new))
    BY <1>2
  <2>2. new \in Seq(C) /\ \A k \in DOMAIN new : ~new[k].orphan
    BY DEF Own
  <2> QED
    BY <1>0, <2>1, <2>2, SentAsks
<1> QED
  BY <1>1, <1>2 DEF Sends

LEMMA NetworkCallsAre ==
  ASSUME ValuesAssumption
  PROVE  /\ Complete(NetworkCalls)
         /\ \A kind \in {"status", "ttl", "reboot", "reset_at"} : Read(kind) \in Own(NetworkCalls)
         /\ \A kind \in {"change", "change_later", "manual_at", "set_imei", "set_ttl"}, v \in Values :
               Call(kind, v) \in Own(NetworkCalls)
         /\ Call("disable", Initially) \in Own(NetworkCalls)
         /\ \A c \in NetworkCalls :
              /\ c.kind \in {"change", "change_later", "manual_at", "set_imei", "set_ttl"} => c.val \in Values
              /\ c.orphan \in BOOLEAN
<1>1. Complete(NetworkCalls)
  BY DEF NetworkCalls, Kind, Complete
<1>2. \A kind \in {"status", "ttl", "reboot", "reset_at"} : Read(kind) \in Own(NetworkCalls)
  BY DEF NetworkCalls, Kind, Read, Call, Own
<1>3. \A kind \in {"change", "change_later", "manual_at", "set_imei", "set_ttl"}, v \in Values :
         Call(kind, v) \in Own(NetworkCalls)
  BY DEF NetworkCalls, Kind, Call, Own
<1>4. Call("disable", Initially) \in Own(NetworkCalls)
  BY DEF NetworkCalls, Kind, Call, Own
<1>5. \A c \in NetworkCalls :
        /\ c.kind \in {"change", "change_later", "manual_at", "set_imei", "set_ttl"} => c.val \in Values
        /\ c.orphan \in BOOLEAN
  BY DEF NetworkCalls, Kind
<1> QED
  BY <1>1, <1>2, <1>3, <1>4, <1>5

LEMMA NetworkSends ==
  ASSUME ValuesAssumption, Fits(NetworkPages, NetworkServers, NetworkCalls), NetworkStep \/ NetworkAnswer
  PROVE  Sends(NetworkPages, NetworkCalls) /\ (User \/ Page)
<1>0. page \in NetworkPages
  BY DEF Fits
<1>a. User \/ Page
  BY DEF NetworkStep, NetworkAnswer, IpPassThroughEnable, SetDMZ, OnBoardDNSProxy, UsbNetModeChanger,
         SetLANIP, RunRebootAction, RunNetworkAction, ShowRebootModal, CloseModal, RebootDevice,
         ResetATCommands, SendATCommand, UpdateIMEI, IpPassThroughDisable, SetTTL, CountdownEnds,
         SettleTimerFires, ActionAnswered, StatusAnswered, DisableAnswered, OtherAnswered, TTLSet, TTLAnswered
<1>b. UNCHANGED server
  BY <1>a DEF User, Page
<1> DEFINE C == Own(NetworkCalls)
           Fine == /\ page' \in NetworkPages
                   /\ \/ UNCHANGED calls
                      \/ \E new \in Seq(C) : Send(new) \/ (answers # <<>> /\ Done(new))
<1>s. /\ <<>> \in Seq(C)
      /\ \A c \in C : <<c>> \in Seq(C)
      /\ \A c, d \in C : <<c, d>> \in Seq(C)
  BY SeqsOf
<1>n. /\ \A kind \in {"status", "ttl", "reboot", "reset_at"} : Read(kind) \in C
      /\ \A kind \in {"change", "change_later", "manual_at", "set_imei", "set_ttl"}, v \in Values :
            Call(kind, v) \in C
      /\ Call("disable", Initially) \in C
  BY NetworkCallsAre
<1> HIDE DEF C
<1>1. ASSUME NEW kind \in {"change", "change_later"}, RunNetworkAction(kind) PROVE Fine
  BY <1>0, <1>1, <1>s, <1>n DEF RunNetworkAction, NetworkPages
<1>2. ASSUME ShowRebootModal \/ CloseModal \/ CountdownEnds PROVE Fine
  <2>1. UNCHANGED calls
    BY <1>2 DEF ShowRebootModal, CloseModal, CountdownEnds, SendNothing
  <2>2. page' \in NetworkPages
    <3>1. page.settling + 1 \in Nat
      BY <1>0 DEF NetworkPages
    <3>2. CASE ShowRebootModal \/ CloseModal
      BY <1>0, <3>2 DEF ShowRebootModal, CloseModal, NetworkPages
    <3>3. CASE CountdownEnds
      BY <1>0, <3>1, <3>3 DEF CountdownEnds, NetworkPages
    <3> QED
      BY <1>2, <3>2, <3>3
  <2> QED
    BY <2>1, <2>2
<1>3. ASSUME RebootDevice \/ ResetATCommands PROVE Fine
  BY <1>0, <1>3, <1>s, <1>n DEF RebootDevice, ResetATCommands, Countdown, NetworkPages
<1>4. ASSUME SendATCommand \/ UpdateIMEI \/ SetTTL PROVE Fine
  BY <1>0, <1>4, <1>s, <1>n DEF SendATCommand, UpdateIMEI, SetTTL, Countdown, NetworkPages
<1>5. ASSUME IpPassThroughDisable PROVE Fine
  BY <1>0, <1>5, <1>s, <1>n DEF IpPassThroughDisable, Countdown, NetworkPages
<1>6. ASSUME SettleTimerFires PROVE Fine
  <2> DEFINE q == [[page EXCEPT !.settling = @ - 1] EXCEPT !.rebooted = TRUE]
  <2>1. page' = q /\ Send(InitCalls(q)) /\ page.settling > 0
    BY <1>6 DEF SettleTimerFires, Settled
  <2>2. q \in NetworkPages /\ q.rebooted
    <3>1. page.settling - 1 \in Nat
      BY <1>0, <2>1 DEF NetworkPages
    <3> QED
      BY <1>0, <3>1 DEF NetworkPages
  <2> HIDE DEF q
  <2>3. InitCalls(q) = <<Read("status")>> \o <<Read("ttl")>>
    BY <2>2 DEF InitCalls, FetchCurrentSettings
  <2>4. <<Read("status")>> \o <<Read("ttl")>> \in Seq(C)
    BY <1>s, <1>n
  <2> QED
    BY <2>1, <2>2, <2>3, <2>4
<1>7. ASSUME ActionAnswered PROVE Fine
  <2>1. Head(answers).ok \in BOOLEAN
    BY <1>7, ReplyIs DEF ActionAnswered, Reply
  <2> QED
    BY <1>0, <1>7, <1>s, <1>n, <2>1 DEF ActionAnswered, Reply, FetchCurrentSettings, NetworkPages
<1>8. ASSUME StatusAnswered \/ TTLAnswered PROVE Fine
  <2>1. Head(answers).snap \in NetworkServers
    BY <1>8, ReplyIs DEF StatusAnswered, TTLAnswered, Reply
  <2> QED
    BY <1>0, <1>8, <1>s, <2>1 DEF StatusAnswered, TTLAnswered, Reply, NetworkPages, NetworkServers, Shows
<1>9. ASSUME DisableAnswered \/ OtherAnswered \/ TTLSet PROVE Fine
  BY <1>0, <1>9, <1>s, <1>n
     DEF DisableAnswered, OtherAnswered, TTLSet, Reply, Countdown, NetworkPages
<1> HIDE DEF Fine
<1>10. Fine
  BY <1>1, <1>2, <1>3, <1>4, <1>5, <1>6, <1>7, <1>8, <1>9
     DEF NetworkStep, NetworkAnswer, IpPassThroughEnable, SetDMZ, OnBoardDNSProxy, UsbNetModeChanger,
         SetLANIP, RunRebootAction
<1> QED
  BY <1>10, <1>a, <1>b DEF Fine, C, Sends

\* The settings panels: what the server makes of a call.
LEMMA SettingsServes ==
  ASSUME PageTypeOK, NEW i \in DOMAIN flights, SettingsHandles(i)
  PROVE  \E ok, done \in BOOLEAN : \E after \in Outcomes(flights[i], done) :
           /\ Handle(i, ok, after)
           /\ (Mishap /\ ~ok) \/ UNCHANGED bounds
           /\ UNCHANGED bounds => (ok /\ done) \/ flights[i].kind \in {"check", "install"}
<1>1. PICK ok \in BOOLEAN, done \in BOOLEAN :
       /\ IF flights[i].kind \in {"check", "install"}
          THEN (ok <=> server.phase = "idle" /\ server.login) /\ done = ok /\ UNCHANGED bounds
          ELSE \/ ok /\ done /\ UNCHANGED bounds
               \/ ~ok /\ flights[i].kind \notin Reads /\ Mishap
       /\ \E after \in Outcomes(flights[i], done) : Handle(i, ok, after)
  BY DEF SettingsHandles
<1>2. PICK after \in Outcomes(flights[i], done) : Handle(i, ok, after)
  BY <1>1
<1>3. \/ Mishap /\ ~ok
      \/ UNCHANGED bounds /\ ((ok /\ done) \/ flights[i].kind \in {"check", "install"})
  BY <1>1
<1>4. UNCHANGED bounds => (ok /\ done) \/ flights[i].kind \in {"check", "install"}
  BY <1>3 DEF Mishap, bounds, PageTypeOK
<1> QED
  BY <1>2, <1>3, <1>4

-----------------------------------------------------------------------------
(* The replies of Pages, while nothing failed.                             *)

\* One more reply is on its way, and says what the server now holds.
Grows(c) ==
  \E last \in Nat :
    /\ DOMAIN answers' = DOMAIN answers \union {last}
    /\ answers'[last].kind = c.kind /\ answers'[last].snap = server'
    /\ \A i \in DOMAIN answers : i \in Nat /\ i < last /\ answers'[i] = answers[i]

LEMMA HandledGrows ==
  ASSUME NEW P, NEW S, NEW C, Fits(P, S, C), NEW i \in DOMAIN flights, NEW after,
         Handle(i, TRUE, after), NothingFailed
  PROVE  /\ Grows(flights[i]) /\ NothingFailed'
         /\ \A kinds : UnderWay(kinds) => UnderWay(kinds)' \/ flights[i].kind \in kinds
<1>0. flights \in Seq(C) /\ answers \in Seq(RepliesTo(C, S))
  BY DEF Fits
<1> DEFINE A == RepliesTo(C, S)
           a == [kind |-> flights[i].kind, val |-> flights[i].val, ok |-> TRUE, snap |-> after]
<1>1. answers' = Append(answers, a) /\ server' = after /\ flights' = RemoveAt(flights, i)
  BY DEF Handle, NothingFailed
<1>2. a.ok = TRUE /\ a.kind = flights[i].kind /\ a.snap = after
  OBVIOUS
<1> HIDE DEF a, A
<1>3. /\ DOMAIN answers' = DOMAIN answers \union {Len(answers) + 1} /\ answers'[Len(answers) + 1] = a
      /\ \A k \in DOMAIN answers : k < Len(answers) + 1 /\ answers'[k] = answers[k]
      /\ Len(answers) + 1 \in Nat /\ DOMAIN answers \subseteq Nat
  <2> DEFINE B == A \union {a}
  <2>1. answers \in Seq(B) /\ a \in B
    BY <1>0 DEF A
  <2> HIDE DEF B
  <2> QED
    BY <1>1, <2>1, Added
<1>4. Grows(flights[i])
  BY <1>1, <1>2, <1>3 DEF Grows
<1>5. /\ \A k \in DOMAIN flights \ {i} : \E j \in DOMAIN flights' : flights'[j] = flights[k]
      /\ \A j \in DOMAIN flights' : \E k \in DOMAIN flights : flights'[j] = flights[k]
  BY <1>0, <1>1, Removed
<1>6. \A kinds : UnderWay(kinds) => UnderWay(kinds)' \/ flights[i].kind \in kinds
  BY <1>5, Zenon DEF UnderWay
<1>7. NothingFailed'
  <2>1. \A k \in DOMAIN flights' : ~flights'[k].orphan
    BY <1>5 DEF NothingFailed
  <2>2. \A k \in DOMAIN answers' : answers'[k].ok
    BY <1>2, <1>3 DEF NothingFailed
  <2> QED
    BY <2>1, <2>2 DEF NothingFailed
<1> QED
  BY <1>4, <1>6, <1>7

\* The reply at hand leaves the queue.
LEMMA TakenShifts ==
  ASSUME NEW P, NEW S, NEW C, Fits(P, S, C), answers # <<>>, NEW new, Done(new)
  PROVE  /\ Shift /\ 1 \in DOMAIN answers /\ Head(answers) = answers[1]
         /\ \A kinds : Told(kinds) /\ answers[1].kind \notin kinds => Told(kinds)'
<1>1. Shift /\ 1 \in DOMAIN answers /\ Head(answers) = answers[1]
  BY DoneShifts DEF Fits
<1>2. \A kinds : Told(kinds) /\ answers[1].kind \notin kinds => Told(kinds)'
  BY <1>1, Zenon DEF Told, Shift
<1> QED
  BY <1>1, <1>2

LEMMA SaysShifts ==
  ASSUME NEW K, NEW f, NEW v, Says(K, f, v), Shift
  PROVE  /\ Says(K, f, v)'
         /\ 1 \in DOMAIN answers /\ answers[1].kind \in K /\ answers[1].snap[f] # v => Told(K)'
<1>1. ASSUME NEW i \in DOMAIN answers', answers'[i].kind \in K, answers'[i].snap[f] # v
      PROVE  \E j \in DOMAIN answers' : i < j /\ answers'[j].kind \in K
  <2>1. i \in Nat /\ i + 1 \in DOMAIN answers /\ answers'[i] = answers[i + 1]
    BY DEF Shift
  <2>2. PICK j \in DOMAIN answers : i + 1 < j /\ answers[j].kind \in K
    BY <1>1, <2>1 DEF Says
  <2>3. j \in Nat /\ j - 1 \in DOMAIN answers' /\ answers'[j - 1] = answers[j] /\ i < j - 1
    BY <2>1, <2>2 DEF Shift
  <2> QED
    BY <2>2, <2>3
<1>2. Says(K, f, v)'
  BY <1>1 DEF Says
<1>3. ASSUME 1 \in DOMAIN answers, answers[1].kind \in K, answers[1].snap[f] # v
      PROVE  Told(K)'
  <2>1. PICK j \in DOMAIN answers : 1 < j /\ answers[j].kind \in K
    BY <1>3 DEF Says
  <2>2. j - 1 \in DOMAIN answers' /\ answers'[j - 1] = answers[j]
    BY <2>1 DEF Shift
  <2> QED
    BY <2>1, <2>2 DEF Told
<1> QED
  BY <1>2, <1>3

LEMMA SaysGrows ==
  ASSUME NEW K, NEW f, NEW v, NEW c, Grows(c),
         \/ c.kind \in K /\ server'[f] = v
         \/ c.kind \notin K /\ Says(K, f, v)
  PROVE  Says(K, f, v)'
<1>1. PICK last \in Nat :
        /\ DOMAIN answers' = DOMAIN answers \union {last}
        /\ answers'[last].kind = c.kind /\ answers'[last].snap = server'
        /\ \A i \in DOMAIN answers : i \in Nat /\ i < last /\ answers'[i] = answers[i]
  BY DEF Grows
<1>2. CASE c.kind \in K /\ server'[f] = v
  BY <1>1, <1>2 DEF Says
<1>3. CASE c.kind \notin K /\ Says(K, f, v)
  BY <1>1, <1>3 DEF Says
<1> QED
  BY <1>2, <1>3

LEMMA ToldGrows ==
  ASSUME NEW c, Grows(c)
  PROVE  \A kinds : Told(kinds) \/ c.kind \in kinds => Told(kinds)'
BY DEF Grows, Told

-----------------------------------------------------------------------------
(* Network functions.                                                      *)

LEMMA NetworkMakes ==
  ASSUME ValuesAssumption, Fits(NetworkPages, NetworkServers, NetworkCalls), NEW c \in NetworkCalls
  PROVE  /\ \A ok \in BOOLEAN : NetworkHandled(c, ok) \in NetworkServers
         /\ NetworkFailed(c) \in NetworkPages
         /\ c.kind \notin {"check", "install", "ota_save"}
<1>0. page \in NetworkPages /\ server \in NetworkServers
  BY DEF Fits
<1>1. /\ c.kind \in {"change", "change_later", "manual_at", "set_imei", "set_ttl"} => c.val \in Values
      /\ c.kind \notin {"check", "install", "ota_save"}
  BY NetworkCallsAre DEF NetworkCalls, Kind
<1>2. ASSUME NEW ok \in BOOLEAN PROVE NetworkHandled(c, ok) \in NetworkServers
  BY <1>0, <1>1 DEF NetworkHandled, NetworkServers, ValuesAssumption
<1>3. NetworkFailed(c) \in NetworkPages
  BY <1>0 DEF NetworkFailed, Countdown, NetworkPages
<1> QED
  BY <1>1, <1>2, <1>3

LEMMA NetworkServed ==
  ASSUME ValuesAssumption, PageTypeOK, panel = "network", NEW i \in DOMAIN flights,
         SettingsHandles(i) \/ SettingsFails(i)
  PROVE  /\ Fits(NetworkPages, NetworkServers, NetworkCalls)' /\ Counts
         /\ failures' = failures => Handle(i, TRUE, NetworkHandled(flights[i], TRUE))
<1>0. Fits(NetworkPages, NetworkServers, NetworkCalls) /\ flights[i] \in NetworkCalls
  BY DEF PageTypeOK, Fits
<1>1. CASE SettingsHandles(i)
  <2>1. PICK ok \in BOOLEAN, done \in BOOLEAN : \E after \in Outcomes(flights[i], done) :
           /\ Handle(i, ok, after)
           /\ (Mishap /\ ~ok) \/ UNCHANGED bounds
           /\ UNCHANGED bounds => (ok /\ done) \/ flights[i].kind \in {"check", "install"}
    BY <1>1, SettingsServes
  <2>2. PICK after \in Outcomes(flights[i], done) :
           /\ Handle(i, ok, after)
           /\ (Mishap /\ ~ok) \/ UNCHANGED bounds
           /\ UNCHANGED bounds => (ok /\ done) \/ flights[i].kind \in {"check", "install"}
    BY <2>1
  <2>3. after = NetworkHandled(flights[i], done)
    BY <1>0, <2>2, NetworkMakes DEF Outcomes, SettingsHandled
  <2>4. Fits(NetworkPages, NetworkServers, NetworkCalls)' /\ UNCHANGED <<panel, page, active>>
    BY <1>0, <2>2, <2>3, NetworkMakes, ServerStepFits
  <2>5. Counts
    BY <2>2, <2>4, UserCounts
  <2>6. failures' = failures => UNCHANGED bounds
    BY <2>2 DEF Mishap, PageTypeOK, bounds
  <2>7. UNCHANGED bounds => ok /\ done
    BY <1>0, <2>2, NetworkMakes
  <2> QED
    BY <2>2, <2>3, <2>4, <2>5, <2>6, <2>7
<1>2. CASE SettingsFails(i)
  <2> DEFINE c == flights[i]
             new == CASE c.kind = "set_ttl" -> <<Read("ttl")>> [] c.kind = "check" -> <<Read("ota")>> [] OTHER -> <<>>
  <2>1. Mishap /\ GiveUp(i, c.kind \notin Reads, NetworkFailed(c), new)
    BY <1>2 DEF SettingsFails, SettingsFailed
  <2>2. new \in Seq(NetworkCalls)
    <3>1. Read("ttl") \in NetworkCalls
      BY NetworkCallsAre DEF Own
    <3>2. <<>> \in Seq(NetworkCalls) /\ <<Read("ttl")>> \in Seq(NetworkCalls)
      BY <3>1, SeqsOf
    <3>3. c.kind # "check"
      BY <1>0, NetworkMakes
    <3> HIDE DEF c
    <3> QED
      BY <3>2, <3>3
  <2>3. Complete(NetworkCalls) /\ NetworkFailed(c) \in NetworkPages
    BY <1>0, NetworkMakes, NetworkCallsAre
  <2> HIDE DEF new
  <2>4. Fits(NetworkPages, NetworkServers, NetworkCalls)' /\ UNCHANGED <<panel, server, answers, active>>
    BY <1>0, <2>1, <2>2, <2>3, FailedStepFits
  <2>5. Counts /\ failures' # failures
    BY <2>1, <2>4, UserCounts DEF Mishap, PageTypeOK
  <2> QED
    BY <2>4, <2>5
<1> QED
  BY <1>1, <1>2

LEMMA NetworkStays ==
  ASSUME ValuesAssumption, Fits(NetworkPages, NetworkServers, NetworkCalls), NetworkInv, NetworkStep
  PROVE  NetworkInv'
<1>0. page \in NetworkPages
  BY DEF Fits
<1>1. UNCHANGED <<server, answers>>
  BY DEF NetworkStep, IpPassThroughEnable, SetDMZ, OnBoardDNSProxy, UsbNetModeChanger,
         SetLANIP, RunRebootAction, RunNetworkAction, ShowRebootModal, CloseModal, RebootDevice,
         ResetATCommands, SendATCommand, UpdateIMEI, IpPassThroughDisable, SetTTL, CountdownEnds,
         SettleTimerFires, User, Page, SendNothing, Send, calls
<1>2. \A kinds : UnderWay(kinds) => UnderWay(kinds)'
  BY NetworkSends, SendsAsk
<1>3. \A kinds : Told(kinds)' <=> Told(kinds)
  BY <1>1 DEF Told
<1>4. \A K, f, v : Says(K, f, v)' <=> Says(K, f, v)
  BY <1>1 DEF Says
<1> DEFINE Counted == /\ page'.shown = page.shown /\ page'.ttl = page.ttl
                      /\ Countdowns => Countdowns' \/ UnderWay({"status"})'
                      /\ page.rebooting /\ server.job => page'.rebooting
                      /\ ~page.rebooted \/ ~page'.rebooted => Countdowns' \/ page'.rebooted
<1>5. ASSUME NEW kind, RunNetworkAction(kind) PROVE Counted
  BY <1>0, <1>5 DEF RunNetworkAction, Countdowns, NetworkPages, NetworkInv, JobIsCovered
<1>6. ASSUME ShowRebootModal \/ CloseModal PROVE Counted
  BY <1>0, <1>6 DEF ShowRebootModal, CloseModal, Countdowns, NetworkPages, NetworkInv, JobIsCovered
<1>7. ASSUME ResetATCommands \/ SendATCommand \/ SetTTL PROVE Counted
  BY <1>0, <1>7 DEF ResetATCommands, SendATCommand, SetTTL, Countdowns, NetworkPages, NetworkInv, JobIsCovered
<1>8. ASSUME RebootDevice \/ UpdateIMEI \/ IpPassThroughDisable PROVE Counted
  BY <1>0, <1>8 DEF RebootDevice, UpdateIMEI, IpPassThroughDisable, Countdown, Countdowns, NetworkPages
<1>9. ASSUME CountdownEnds PROVE Counted
  <2>1. page.settling + 1 > 0 /\ ~server.job
    BY <1>0, <1>9 DEF CountdownEnds, NetworkPages
  <2>2. page' = [page EXCEPT !.rebooting = FALSE, !.settling = @ + 1]
    BY <1>9 DEF CountdownEnds
  <2> QED
    BY <1>0, <2>1, <2>2 DEF Countdowns, NetworkPages
<1>10. ASSUME SettleTimerFires PROVE Counted
  <2> DEFINE q == [[page EXCEPT !.settling = @ - 1] EXCEPT !.rebooted = TRUE]
  <2>1. page' = q /\ Send(InitCalls(q))
    BY <1>10 DEF SettleTimerFires, Settled
  <2>2. q.rebooted /\ q.rebooting = page.rebooting /\ q.shown = page.shown /\ q.ttl = page.ttl
    BY <1>0 DEF NetworkPages
  <2> HIDE DEF q
  <2>3. flights' = flights \o (<<Read("status")>> \o <<Read("ttl")>>)
    BY <2>1, <2>2 DEF InitCalls, FetchCurrentSettings, Send
  <2>4. flights \in Seq(NetworkCalls)
    BY DEF Fits
  <2>5. UnderWay({"status"})'
    <3>1. Read("status") \in NetworkCalls /\ Read("ttl") \in NetworkCalls /\ Read("status").kind = "status"
      BY NetworkCallsAre DEF Own, Read, Call
    <3>2. /\ Len(flights) + 1 \in DOMAIN flights'
          /\ flights'[Len(flights) + 1] = Read("status")
      BY <2>3, <2>4, <3>1
    <3> QED
      BY <3>1, <3>2 DEF UnderWay
  <2> QED
    BY <2>1, <2>2, <2>5
<1> HIDE DEF Counted
<1>11. Counted
  BY <1>5, <1>6, <1>7, <1>8, <1>9, <1>10
     DEF NetworkStep, IpPassThroughEnable, SetDMZ, OnBoardDNSProxy, UsbNetModeChanger, SetLANIP, RunRebootAction
<1>12. Rereads => Rereads'
  BY <1>1, <1>2, <1>3, <1>11 DEF Counted, Rereads
<1>13. SetAgrees'
  BY <1>1, <1>3, <1>4, <1>11, <1>12 DEF Counted, NetworkInv, SetAgrees
<1>14. TtlAgrees'
  BY <1>1, <1>2, <1>3, <1>4, <1>11 DEF Counted, NetworkInv, TtlAgrees, RereadsTtl
<1>15. JobIsCovered'
  BY <1>1, <1>3, <1>11 DEF Counted, NetworkInv, JobIsCovered
<1> QED
  BY <1>13, <1>14, <1>15 DEF NetworkInv

\* What is read again when an answer comes.
LEMMA SentIsUnderWay ==
  ASSUME NEW P, NEW S, NEW C, Fits(P, S, C), NEW c \in C, flights' = flights \o <<c>>
  PROVE  UnderWay({c.kind})'
<1>1. flights \in Seq(C)
  BY DEF Fits
<1>2. /\ Len(flights) + 1 \in DOMAIN flights'
      /\ flights'[Len(flights) + 1] = c
  BY <1>1
<1> QED
  BY <1>2 DEF UnderWay

LEMMA NetworkHears ==
  ASSUME ValuesAssumption, Fits(NetworkPages, NetworkServers, NetworkCalls), NetworkInv, NothingFailed,
         NetworkAnswer
  PROVE  NetworkInv'
<1>0. page \in NetworkPages
  BY DEF Fits
<1>a. UNCHANGED server
  BY DEF NetworkAnswer, ActionAnswered, StatusAnswered, DisableAnswered, OtherAnswered, TTLSet, TTLAnswered, Page
<1>b. answers # <<>> /\ \E new : Done(new)
  BY DEF NetworkAnswer, ActionAnswered, StatusAnswered, DisableAnswered, OtherAnswered, TTLSet, TTLAnswered, Reply
<1>c. /\ Shift /\ 1 \in DOMAIN answers /\ Head(answers) = answers[1]
      /\ \A kinds : Told(kinds) /\ answers[1].kind \notin kinds => Told(kinds)'
  BY <1>b, TakenShifts
<1>d. answers[1].ok
  BY <1>c DEF NothingFailed
<1>e. \A kinds : UnderWay(kinds) => UnderWay(kinds)'
  BY NetworkSends, SendsAsk
<1>f. \A v : /\ Says({"status"}, "set", v) => Says({"status"}, "set", v)'
             /\ Says({"ttl"}, "ttl", v) => Says({"ttl"}, "ttl", v)'
  BY <1>c, SaysShifts
<1>1. CASE ActionAnswered
  <2>1. answers[1].kind \in {"change", "change_later"}
    BY <1>1, <1>c DEF ActionAnswered, Reply
  <2>2. /\ page'.rebooting = page.rebooting /\ page'.settling = page.settling
        /\ page'.rebooted = page.rebooted /\ page'.ttl = page.ttl
    BY <1>0, <1>1 DEF ActionAnswered, NetworkPages
  <2>3. Rereads'
    <3>1. CASE page.rebooted
      <4>1. flights' = flights \o <<Read("status")>>
        BY <1>1, <1>c, <1>d, <3>1 DEF ActionAnswered, FetchCurrentSettings, Done
      <4>2. Read("status") \in NetworkCalls /\ Read("status").kind = "status"
        BY NetworkCallsAre DEF Own, Read, Call
      <4> QED
        BY <4>1, <4>2, SentIsUnderWay DEF Rereads
    <3>2. CASE ~page.rebooted
      BY <2>2, <3>2 DEF NetworkInv, JobIsCovered, Countdowns, Rereads
    <3> QED
      BY <3>1, <3>2
  <2>4. TtlAgrees'
    BY <1>a, <1>c, <1>e, <1>f, <2>1, <2>2 DEF NetworkInv, TtlAgrees, RereadsTtl
  <2>5. JobIsCovered'
    BY <1>a, <1>c, <2>1, <2>2 DEF NetworkInv, JobIsCovered, Countdowns
  <2> QED
    BY <2>3, <2>4, <2>5 DEF NetworkInv, SetAgrees
<1>2. CASE StatusAnswered
  <2>1. answers[1].kind = "status"
    BY <1>2, <1>c DEF StatusAnswered, Reply
  <2>2. /\ page'.rebooting = page.rebooting /\ page'.settling = page.settling
        /\ page'.rebooted = page.rebooted /\ page'.ttl = page.ttl
        /\ page'.shown = answers[1].snap.set
    BY <1>0, <1>2, <1>c DEF StatusAnswered, NetworkPages
  <2>3. Rereads => Rereads'
    BY <1>a, <1>c, <1>e, <2>1, <2>2 DEF Rereads, Countdowns
  <2>4. ASSUME Says({"status"}, "set", server.set)
        PROVE  page'.shown = server.set \/ Told({"status"})'
    BY <1>c, <2>1, <2>2, <2>4, SaysShifts
  <2>5. SetAgrees'
    BY <1>a, <1>f, <2>3, <2>4 DEF NetworkInv, SetAgrees
  <2>6. TtlAgrees'
    BY <1>a, <1>c, <1>e, <1>f, <2>1, <2>2 DEF NetworkInv, TtlAgrees, RereadsTtl
  <2>7. JobIsCovered'
    BY <1>a, <1>c, <2>1, <2>2 DEF NetworkInv, JobIsCovered, Countdowns
  <2> QED
    BY <2>5, <2>6, <2>7 DEF NetworkInv
<1>3. CASE DisableAnswered
  <2>1. answers[1].kind = "disable"
    BY <1>3, <1>c DEF DisableAnswered, Reply
  <2>2. page'.rebooting /\ page'.ttl = page.ttl
    BY <1>0, <1>3, <1>c, <1>d DEF DisableAnswered, Countdown, NetworkPages
  <2>3. TtlAgrees'
    BY <1>a, <1>c, <1>e, <1>f, <2>1, <2>2 DEF NetworkInv, TtlAgrees, RereadsTtl
  <2> QED
    BY <2>2, <2>3 DEF NetworkInv, SetAgrees, Rereads, Countdowns, JobIsCovered
<1>4. CASE OtherAnswered
  <2>1. answers[1].kind \in {"reboot", "reset_at", "manual_at", "set_imei"}
    BY <1>4, <1>c DEF OtherAnswered, Reply
  <2>2. /\ page'.rebooting = page.rebooting /\ page'.settling = page.settling
        /\ page'.rebooted = page.rebooted /\ page'.ttl = page.ttl /\ page'.shown = page.shown
    BY <1>0, <1>4 DEF OtherAnswered, NetworkPages
  <2>3. Rereads => Rereads'
    BY <1>a, <1>c, <1>e, <2>1, <2>2 DEF Rereads, Countdowns
  <2>5. SetAgrees'
    BY <1>a, <1>c, <1>f, <2>1, <2>2, <2>3 DEF NetworkInv, SetAgrees
  <2>6. TtlAgrees'
    BY <1>a, <1>c, <1>e, <1>f, <2>1, <2>2 DEF NetworkInv, TtlAgrees, RereadsTtl
  <2>7. JobIsCovered'
    BY <1>a, <1>c, <2>1, <2>2 DEF NetworkInv, JobIsCovered, Countdowns
  <2> QED
    BY <2>5, <2>6, <2>7 DEF NetworkInv
<1>5. CASE TTLSet
  <2>1. answers[1].kind = "set_ttl"
    BY <1>5, <1>c DEF TTLSet, Reply
  <2>2. /\ page'.rebooting = page.rebooting /\ page'.settling = page.settling
        /\ page'.rebooted = page.rebooted /\ page'.shown = page.shown
    BY <1>0, <1>5 DEF TTLSet, NetworkPages
  <2>3. Rereads => Rereads'
    BY <1>a, <1>c, <1>e, <2>1, <2>2 DEF Rereads, Countdowns
  <2>5. SetAgrees'
    BY <1>a, <1>c, <1>f, <2>1, <2>2, <2>3 DEF NetworkInv, SetAgrees
  <2>6. TtlAgrees'
    <3>1. flights' = flights \o <<Read("ttl")>>
      BY <1>5 DEF TTLSet, Done
    <3>2. Read("ttl") \in NetworkCalls /\ Read("ttl").kind = "ttl"
      BY NetworkCallsAre DEF Own, Read, Call
    <3> QED
      BY <3>1, <3>2, SentIsUnderWay DEF TtlAgrees, RereadsTtl
  <2>7. JobIsCovered'
    BY <1>a, <1>c, <2>1, <2>2 DEF NetworkInv, JobIsCovered, Countdowns
  <2> QED
    BY <2>5, <2>6, <2>7 DEF NetworkInv
<1>6. CASE TTLAnswered
  <2>1. answers[1].kind = "ttl"
    BY <1>6, <1>c DEF TTLAnswered, Reply
  <2>2. /\ page'.rebooting = page.rebooting /\ page'.settling = page.settling
        /\ page'.rebooted = page.rebooted /\ page'.shown = page.shown
        /\ page'.ttl = answers[1].snap.ttl
    BY <1>0, <1>6, <1>c DEF TTLAnswered, NetworkPages
  <2>3. Rereads => Rereads'
    BY <1>a, <1>c, <1>e, <2>1, <2>2 DEF Rereads, Countdowns
  <2>4. ASSUME Says({"ttl"}, "ttl", server.ttl)
        PROVE  page'.ttl = server.ttl \/ Told({"ttl"})'
    BY <1>c, <2>1, <2>2, <2>4, SaysShifts
  <2>5. SetAgrees'
    BY <1>a, <1>c, <1>f, <2>1, <2>2, <2>3 DEF NetworkInv, SetAgrees
  <2>6. TtlAgrees'
    BY <1>a, <1>c, <1>e, <1>f, <2>1, <2>4 DEF NetworkInv, TtlAgrees, RereadsTtl
  <2>7. JobIsCovered'
    BY <1>a, <1>c, <2>1, <2>2 DEF NetworkInv, JobIsCovered, Countdowns
  <2> QED
    BY <2>5, <2>6, <2>7 DEF NetworkInv
<1> QED
  BY <1>1, <1>2, <1>3, <1>4, <1>5, <1>6 DEF NetworkAnswer

LEMMA NetworkObeyed ==
  ASSUME ValuesAssumption, Fits(NetworkPages, NetworkServers, NetworkCalls), NetworkInv, NothingFailed,
         NEW i \in DOMAIN flights, Handle(i, TRUE, NetworkHandled(flights[i], TRUE))
  PROVE  NetworkInv' /\ NothingFailed'
<1> DEFINE c == flights[i]
<1>0. page \in NetworkPages /\ server \in NetworkServers /\ c \in NetworkCalls
  BY DEF Fits
<1>a. UNCHANGED page /\ server' = NetworkHandled(c, TRUE)
  BY DEF Handle
<1>b. /\ Grows(c) /\ NothingFailed'
      /\ \A kinds : UnderWay(kinds) => UnderWay(kinds)' \/ c.kind \in kinds
  BY HandledGrows
<1>c. \A kinds : Told(kinds) \/ c.kind \in kinds => Told(kinds)'
  BY <1>b, ToldGrows
<1>d. \A K, f, v : \/ c.kind \in K /\ server'[f] = v
                   \/ c.kind \notin K /\ Says(K, f, v)
                   => Says(K, f, v)'
  BY <1>b, SaysGrows
<1>k. c.kind \in {"status", "ttl", "reboot", "reset_at", "change", "change_later", "manual_at",
                  "set_imei", "set_ttl", "disable"}
  BY <1>0 DEF NetworkCalls, Kind
<1> HIDE DEF c
<1> USE <1>a DEF Countdowns
<1>1. CASE c.kind = "status"
  <2>1. /\ server'.set = server.set /\ server'.ttl = server.ttl /\ server'.job = server.job
    BY <1>0, <1>1 DEF NetworkHandled, NetworkServers
  <2>2. SetAgrees'
    BY <1>1, <1>c, <1>d DEF SetAgrees
  <2>3. TtlAgrees'
    BY <1>1, <1>b, <1>c, <1>d, <2>1 DEF NetworkInv, TtlAgrees, RereadsTtl
  <2>4. JobIsCovered'
    BY <1>c, <2>1 DEF NetworkInv, JobIsCovered
  <2> QED
    BY <1>b, <2>2, <2>3, <2>4 DEF NetworkInv
<1>2. CASE c.kind \in {"change", "change_later", "set_imei", "manual_at", "reset_at", "disable"}
  <2>1. /\ server'.ttl = server.ttl
        /\ c.kind # "disable" => server'.job = server.job
        /\ c.kind \in {"manual_at", "reset_at"} => server'.unread
        /\ c.kind = "set_imei" => server'.unread \/ Countdowns
    BY <1>0, <1>2 DEF NetworkHandled, NetworkServers
  <2>2. Rereads'
    BY <1>2, <1>c, <2>1 DEF Rereads
  <2>3. TtlAgrees'
    BY <1>2, <1>b, <1>c, <1>d, <2>1 DEF NetworkInv, TtlAgrees, RereadsTtl
  <2>4. JobIsCovered'
    BY <1>2, <1>c, <2>1 DEF NetworkInv, JobIsCovered
  <2> QED
    BY <1>b, <2>2, <2>3, <2>4 DEF NetworkInv, SetAgrees
<1>3. CASE c.kind \in {"set_ttl", "ttl", "reboot"}
  <2>1. /\ server'.set = server.set /\ server'.unread = server.unread /\ server'.job = server.job
        /\ c.kind # "set_ttl" => server'.ttl = server.ttl
    BY <1>0, <1>3 DEF NetworkHandled, NetworkServers
  <2>2. Rereads => Rereads'
    BY <1>3, <1>b, <1>c, <2>1 DEF Rereads
  <2>3. SetAgrees'
    BY <1>3, <1>c, <1>d, <2>1, <2>2 DEF NetworkInv, SetAgrees
  <2>4. TtlAgrees'
    <3>1. CASE c.kind = "set_ttl"
      BY <1>c, <3>1 DEF TtlAgrees, RereadsTtl
    <3>2. CASE c.kind = "ttl"
      BY <1>c, <1>d, <3>2 DEF TtlAgrees
    <3>3. CASE c.kind = "reboot"
      BY <1>b, <1>c, <1>d, <2>1, <3>3 DEF NetworkInv, TtlAgrees, RereadsTtl
    <3> QED
      BY <1>3, <3>1, <3>2, <3>3
  <2>5. JobIsCovered'
    BY <1>c, <2>1 DEF NetworkInv, JobIsCovered
  <2> QED
    BY <1>b, <2>3, <2>4, <2>5 DEF NetworkInv
<1> QED
  BY <1>1, <1>2, <1>3, <1>k

\* What follows ip_passthrough: the page reads again after its countdown.
LEMMA NetworkJob ==
  ASSUME Fits(NetworkPages, NetworkServers, NetworkCalls), JobRuns
  PROVE  /\ Fits(NetworkPages, NetworkServers, NetworkCalls)' /\ UNCHANGED <<panel, active, bounds>>
         /\ ValuesAssumption /\ NetworkInv /\ NothingFailed => NetworkInv' /\ NothingFailed'
<1>0. page \in NetworkPages /\ server \in NetworkServers
  BY DEF Fits
<1>1. /\ UNCHANGED <<panel, page, calls, active, bounds>> /\ server.job
  BY DEF JobRuns
<1>2. PICK set \in {server.set, Initially} : server' = [server EXCEPT !.job = FALSE, !.set = set]
  BY DEF JobRuns
<1>3. /\ set \in {server.set, Initially}
      /\ server'.ttl = server.ttl /\ server'.unread = server.unread /\ ~server'.job
  BY <1>0, <1>2 DEF NetworkServers
<1>4. /\ \A kinds : (UnderWay(kinds)' <=> UnderWay(kinds)) /\ (Told(kinds)' <=> Told(kinds))
      /\ \A v : Says({"ttl"}, "ttl", v)' <=> Says({"ttl"}, "ttl", v)
      /\ NothingFailed' <=> NothingFailed
  BY <1>1 DEF calls, UnderWay, Told, Says, NothingFailed
<1>5. ASSUME ValuesAssumption
      PROVE  Fits(NetworkPages, NetworkServers, NetworkCalls)'
  <2>1. server' \in NetworkServers
    BY <1>0, <1>2, <1>5 DEF NetworkServers, ValuesAssumption
  <2> QED
    BY <1>0, <1>1, <2>1, QuietStepFits
<1>6. ASSUME NetworkInv
      PROVE  NetworkInv'
  <2>1. Rereads'
    <3>1. Told({"disable"}) => Told({"change", "change_later", "disable"})
      BY DEF Told
    <3> QED
      BY <1>1, <1>3, <1>4, <1>6, <3>1 DEF NetworkInv, JobIsCovered, Rereads, Countdowns
  <2>2. TtlAgrees'
    BY <1>1, <1>3, <1>4, <1>6 DEF NetworkInv, TtlAgrees, RereadsTtl
  <2>3. JobIsCovered'
    BY <1>1, <1>3, <1>6 DEF NetworkInv, JobIsCovered, Countdowns
  <2> QED
    BY <2>1, <2>2, <2>3 DEF NetworkInv, SetAgrees
<1> QED
  BY <1>1, <1>4, <1>5, <1>6, ValuesAssumption

LEMMA NetworkStepKeeps ==
  ASSUME PageTypeOK, panel = "network", Next
  PROVE  /\ Fits(NetworkPages, NetworkServers, NetworkCalls)' /\ Counts
         /\ NetworkInv /\ NothingFailed /\ failures' = failures => NetworkInv' /\ NothingFailed'
<1> USE ValuesAssumption
<1>0. Fits(NetworkPages, NetworkServers, NetworkCalls)
  BY DEF PageTypeOK
<1>1. CASE NetworkStep \/ NetworkAnswer
  <2>1. Sends(NetworkPages, NetworkCalls) /\ (User \/ Page)
    BY <1>0, <1>1, NetworkSends
  <2>2. Fits(NetworkPages, NetworkServers, NetworkCalls)' /\ (NothingFailed => NothingFailed')
    BY <1>0, <2>1, SendsFits, SendsAsk
  <2>3. Counts
    <3>1. User \/ Page
      BY <2>1
    <3> QED
      BY <3>1, UserCounts
  <2>4. NetworkInv /\ NothingFailed => NetworkInv'
    BY <1>0, <1>1, NetworkStays, NetworkHears
  <2> QED
    BY <2>2, <2>3, <2>4
<1>2. CASE JobRuns
  BY <1>0, <1>2, NetworkJob, UserCounts
<1>3. CASE \E i \in DOMAIN flights : SettingsHandles(i) \/ SettingsFails(i)
  BY <1>0, <1>3, NetworkServed, NetworkObeyed
<1> QED
  BY <1>1, <1>2, <1>3, NetworkOnly

-----------------------------------------------------------------------------
(* The watchdog's form.                                                    *)

LEMMA WatchdogCallsAre ==
  /\ Complete(WatchdogCalls)
  /\ Read("watchdog") \in Own(WatchdogCalls)
  /\ \A v \in Values : Call("watchdog_save", v) \in Own(WatchdogCalls)
  /\ \A c \in WatchdogCalls : /\ c.kind \in {"watchdog", "watchdog_save"}
                              /\ c.kind = "watchdog_save" => c.val \in Values
<1>1. Complete(WatchdogCalls)
  BY DEF WatchdogCalls, Kind, Complete
<1>2. /\ Read("watchdog") \in Own(WatchdogCalls)
      /\ \A v \in Values : Call("watchdog_save", v) \in Own(WatchdogCalls)
  BY DEF WatchdogCalls, Kind, Read, Call, Own
<1>3. \A c \in WatchdogCalls : /\ c.kind \in {"watchdog", "watchdog_save"}
                               /\ c.kind = "watchdog_save" => c.val \in Values
  BY DEF WatchdogCalls, Kind
<1> QED
  BY <1>1, <1>2, <1>3

\* A form that is loaded or followed keeps its edit.
LEMMA WatchdogForms ==
  ASSUME active \in BOOLEAN, NEW p \in WatchdogPages
  PROVE  /\ FollowOn(p) \in WatchdogPages /\ FollowOn(p).form = p.form /\ FollowOn(p).dirty = p.dirty
         /\ WatchdogLoad(p) \in WatchdogPages
         /\ WatchdogLoad(p).form = p.form /\ WatchdogLoad(p).dirty = p.dirty
         /\ \A v \in Values : FormLoaded(p, v) \in WatchdogPages
<1>1. p.strays + 1 \in Nat
  BY DEF WatchdogPages
<1>2. /\ FollowOn(p) \in WatchdogPages /\ FollowOn(p).form = p.form /\ FollowOn(p).dirty = p.dirty
  BY <1>1 DEF FollowOn, WatchdogPages
<1>3. /\ WatchdogLoad(p) \in WatchdogPages
      /\ WatchdogLoad(p).form = p.form /\ WatchdogLoad(p).dirty = p.dirty
  BY DEF WatchdogLoad, WatchdogPages
<1>4. \A v \in Values : FormLoaded(p, v) \in WatchdogPages
  BY DEF FormLoaded, WatchdogPages, Shows
<1> QED
  BY <1>2, <1>3, <1>4

LEMMA WatchdogSends ==
  ASSUME PageTypeOK, Fits(WatchdogPages, WatchdogServers, WatchdogCalls),
         WatchdogStep \/ WatchdogAnswer \/ EnterSettings
  PROVE  Sends(WatchdogPages, WatchdogCalls) /\ Counts
<1>0. page \in WatchdogPages /\ active \in BOOLEAN
  BY DEF Fits, PageTypeOK
<1> DEFINE C == Own(WatchdogCalls)
           Fine == /\ page' \in WatchdogPages /\ UNCHANGED server
                   /\ \/ UNCHANGED calls
                      \/ \E new \in Seq(C) : Send(new) \/ (answers # <<>> /\ Done(new))
<1>s. <<>> \in Seq(C) /\ \A c \in C : <<c>> \in Seq(C)
  BY SeqsOf
<1>n. Read("watchdog") \in C /\ \A v \in Values : Call("watchdog_save", v) \in C
  BY WatchdogCallsAre
<1> HIDE DEF C
<1>r. answers # <<>> => Head(answers).snap.settings \in Values
  <2>1. answers # <<>> => Head(answers).snap \in WatchdogServers
    BY ReplyIs
  <2> QED
    BY <2>1 DEF WatchdogServers
<1>1. ASSUME WatchdogTimerFires PROVE Fine /\ Page
  <2>1. Send(<<Read("watchdog")>>) /\ Page
    BY <1>1 DEF WatchdogTimerFires
  <2>2. page' \in WatchdogPages
    <3>1. CASE page' = WatchdogLoad(page)
      BY <1>0, <3>1, WatchdogForms
    <3>2. CASE page.strays > 0 /\ page' = WatchdogLoad([page EXCEPT !.strays = @ - 1])
      <4>1. page.strays - 1 \in Nat
        BY <1>0, <3>2 DEF WatchdogPages
      <4>2. [page EXCEPT !.strays = @ - 1] \in WatchdogPages
        BY <1>0, <4>1 DEF WatchdogPages
      <4> QED
        BY <1>0, <3>2, <4>2, WatchdogForms
    <3> QED
      BY <1>1, <3>1, <3>2 DEF WatchdogTimerFires
  <2> QED
    BY <1>s, <1>n, <2>1, <2>2 DEF Page
<1>2. ASSUME WatchdogEdit \/ TabSwitched PROVE Fine /\ User
  BY <1>0, <1>2 DEF WatchdogEdit, TabSwitched, User, SendNothing, WatchdogPages, Shows
<1>3. ASSUME WatchdogSave PROVE Fine /\ User
  <2>1. page.form \in Values
    BY <1>0, <1>3 DEF WatchdogSave, WatchdogPages, Shows
  <2>2. /\ page' = [page EXCEPT !.saving = TRUE] /\ Send(<<Call("watchdog_save", page.form)>>) /\ User
    BY <1>3 DEF WatchdogSave
  <2> QED
    BY <1>0, <1>s, <1>n, <2>1, <2>2 DEF User, WatchdogPages
<1>4. ASSUME WatchdogLoaded PROVE Fine /\ Page
  <2>1. Head(answers).snap.settings \in Values
    BY <1>4, <1>r DEF WatchdogLoaded, Reply
  <2>2. page' \in WatchdogPages
    BY <1>0, <1>4, <2>1, WatchdogForms DEF WatchdogLoaded
  <2> QED
    BY <1>4, <1>s, <2>2 DEF WatchdogLoaded, Reply, Page
<1>5. ASSUME WatchdogSaved PROVE Fine /\ Page
  <2>1. Head(answers).snap.settings \in Values
    BY <1>5, <1>r DEF WatchdogSaved, Reply
  <2>2. page' \in WatchdogPages
    BY <1>0, <1>5, <2>1 DEF WatchdogSaved, FormSaved, WatchdogPages, Shows
  <2> QED
    BY <1>5, <1>s, <2>2 DEF WatchdogSaved, Reply, Page
<1>6. ASSUME EnterSettings PROVE Fine /\ Counts
  <2>1. events \in Nat /\ failures \in Nat
    BY DEF PageTypeOK
  <2>2. Counts
    BY <1>6, <2>1 DEF EnterSettings, Counts
  <2>3. page' \in WatchdogPages
    BY <1>0, <1>6, WatchdogForms DEF EnterSettings
  <2> QED
    BY <1>6, <1>s, <1>n, <2>2, <2>3 DEF EnterSettings
<1> HIDE DEF Fine
<1>7. Fine /\ Counts
  BY <1>1, <1>2, <1>3, <1>4, <1>5, <1>6, UserCounts DEF WatchdogStep, WatchdogAnswer
<1> QED
  BY <1>7 DEF Fine, C, Sends

\* The user's steps and the timers: an edit, or the form as it was.
LEMMA WatchdogStays ==
  ASSUME PageTypeOK, Fits(WatchdogPages, WatchdogServers, WatchdogCalls), WatchdogInv,
         WatchdogStep \/ EnterSettings
  PROVE  WatchdogInv'
<1>0. page \in WatchdogPages /\ active \in BOOLEAN
  BY DEF Fits, PageTypeOK
<1>1. UNCHANGED <<server, answers>>
  BY DEF WatchdogStep, EnterSettings, WatchdogTimerFires, WatchdogEdit, WatchdogSave, TabSwitched,
         User, Page, Send, SendNothing, calls
<1>2. \A kinds : UnderWay(kinds) => UnderWay(kinds)'
  BY WatchdogSends, SendsAsk
<1>3. /\ \A kinds : Told(kinds)' <=> Told(kinds)
      /\ \A K, f, v : Says(K, f, v)' <=> Says(K, f, v)
  BY <1>1 DEF Told, Says
<1>4. page'.dirty \/ (page'.form = page.form /\ page'.dirty = page.dirty)
  <2>1. CASE WatchdogEdit \/ WatchdogSave \/ TabSwitched
    BY <1>0, <2>1 DEF WatchdogEdit, WatchdogSave, TabSwitched, WatchdogPages
  <2>2. CASE EnterSettings \/ (WatchdogTimerFires /\ page' = WatchdogLoad(page))
    BY <1>0, <2>2, WatchdogForms DEF EnterSettings
  <2>3. CASE page' = WatchdogLoad([page EXCEPT !.strays = @ - 1])
    BY <1>0, <2>3 DEF WatchdogLoad, WatchdogPages
  <2> QED
    BY <2>1, <2>2, <2>3 DEF WatchdogStep, WatchdogTimerFires
<1> QED
  BY <1>1, <1>2, <1>3, <1>4 DEF WatchdogInv

LEMMA WatchdogHears ==
  ASSUME PageTypeOK, Fits(WatchdogPages, WatchdogServers, WatchdogCalls), WatchdogInv, NothingFailed,
         WatchdogAnswer
  PROVE  WatchdogInv'
<1>0. page \in WatchdogPages /\ active \in BOOLEAN
  BY DEF Fits, PageTypeOK
<1>1. UNCHANGED server /\ answers # <<>> /\ \E new : Done(new)
  BY DEF WatchdogAnswer, WatchdogLoaded, WatchdogSaved, Reply, Page
<1>2. Shift /\ 1 \in DOMAIN answers /\ Head(answers) = answers[1]
  BY <1>1, TakenShifts
<1>3. answers[1].ok /\ answers[1].snap.settings \in Values
  <2>1. answers[1].snap \in WatchdogServers
    BY <1>1, <1>2, ReplyIs
  <2> QED
    BY <1>2, <2>1 DEF NothingFailed, WatchdogServers
<1>4. answers[1].kind \in {"watchdog", "watchdog_save"}
  BY <1>2 DEF WatchdogAnswer, WatchdogLoaded, WatchdogSaved, Reply
<1>5. page'.dirty \/ page'.form = answers[1].snap.settings
  <2>1. CASE WatchdogLoaded
    <3>1. FormLoaded(page, answers[1].snap.settings) \in WatchdogPages
      BY <1>0, <1>3, WatchdogForms
    <3>2. page' = FollowOn(FormLoaded(page, answers[1].snap.settings))
      BY <1>2, <2>1 DEF WatchdogLoaded
    <3>3. \/ FormLoaded(page, answers[1].snap.settings).dirty
          \/ FormLoaded(page, answers[1].snap.settings).form = answers[1].snap.settings
      BY <1>0 DEF FormLoaded, WatchdogPages
    <3> QED
      BY <1>0, <3>1, <3>2, <3>3, WatchdogForms
  <2>2. CASE WatchdogSaved
    BY <1>0, <1>2, <1>3, <2>2 DEF WatchdogSaved, FormSaved, WatchdogPages
  <2> QED
    BY <2>1, <2>2 DEF WatchdogAnswer
<1>6. \A v : Says({"watchdog", "watchdog_save"}, "settings", v) =>
        /\ Says({"watchdog", "watchdog_save"}, "settings", v)'
        /\ answers[1].snap.settings = v \/ Told({"watchdog", "watchdog_save"})'
  BY <1>2, <1>4, SaysShifts
<1> QED
  BY <1>1, <1>5, <1>6 DEF WatchdogInv

LEMMA WatchdogServed ==
  ASSUME PageTypeOK, panel = "watchdog", NEW i \in DOMAIN flights,
         SettingsHandles(i) \/ SettingsFails(i)
  PROVE  /\ Fits(WatchdogPages, WatchdogServers, WatchdogCalls)' /\ Counts
         /\ failures' = failures => Handle(i, TRUE, WatchdogHandled(flights[i], TRUE))
<1>0. /\ Fits(WatchdogPages, WatchdogServers, WatchdogCalls) /\ flights[i] \in WatchdogCalls
      /\ page \in WatchdogPages /\ server \in WatchdogServers /\ active \in BOOLEAN
  BY DEF PageTypeOK, Fits
<1>k. /\ flights[i].kind \in {"watchdog", "watchdog_save"}
      /\ flights[i].kind = "watchdog_save" => flights[i].val \in Values
  BY <1>0, WatchdogCallsAre
<1>1. CASE SettingsHandles(i)
  <2>1. PICK ok \in BOOLEAN, done \in BOOLEAN : \E after \in Outcomes(flights[i], done) :
           /\ Handle(i, ok, after)
           /\ (Mishap /\ ~ok) \/ UNCHANGED bounds
           /\ UNCHANGED bounds => (ok /\ done) \/ flights[i].kind \in {"check", "install"}
    BY <1>1, SettingsServes
  <2>2. PICK after \in Outcomes(flights[i], done) :
           /\ Handle(i, ok, after)
           /\ (Mishap /\ ~ok) \/ UNCHANGED bounds
           /\ UNCHANGED bounds => (ok /\ done) \/ flights[i].kind \in {"check", "install"}
    BY <2>1
  <2>3. after = WatchdogHandled(flights[i], done)
    BY <1>k, <2>2 DEF Outcomes, SettingsHandled
  <2>4. after \in WatchdogServers
    BY <1>0, <1>k, <2>3 DEF WatchdogHandled, WatchdogServers
  <2>5. Fits(WatchdogPages, WatchdogServers, WatchdogCalls)' /\ UNCHANGED <<panel, page, active>>
    BY <1>0, <2>2, <2>4, ServerStepFits
  <2>6. Counts
    BY <2>2, <2>5, UserCounts
  <2>7. failures' = failures => UNCHANGED bounds
    BY <2>2 DEF Mishap, PageTypeOK, bounds
  <2> QED
    BY <1>k, <2>2, <2>3, <2>5, <2>6, <2>7
<1>2. CASE SettingsFails(i)
  <2>1. Mishap /\ GiveUp(i, flights[i].kind \notin Reads, WatchdogFailed(flights[i]), <<>>)
    BY <1>2, <1>k DEF SettingsFails, SettingsFailed
  <2>2. WatchdogFailed(flights[i]) \in WatchdogPages
    <3>1. FollowOn(page) \in WatchdogPages
      BY <1>0, WatchdogForms
    <3>2. [page EXCEPT !.saving = FALSE] \in WatchdogPages
      BY <1>0 DEF WatchdogPages
    <3> QED
      BY <3>1, <3>2 DEF WatchdogFailed
  <2>3. Complete(WatchdogCalls) /\ <<>> \in Seq(WatchdogCalls)
    BY WatchdogCallsAre, SeqsOf
  <2>4. /\ Fits(WatchdogPages, WatchdogServers, WatchdogCalls)'
        /\ UNCHANGED <<panel, server, answers, active>>
    BY <1>0, <2>1, <2>2, <2>3, FailedStepFits
  <2>5. Counts /\ failures' # failures
    BY <2>1, <2>4, UserCounts DEF Mishap, PageTypeOK
  <2> QED
    BY <2>4, <2>5
<1> QED
  BY <1>1, <1>2

LEMMA WatchdogObeyed ==
  ASSUME Fits(WatchdogPages, WatchdogServers, WatchdogCalls), WatchdogInv, NothingFailed,
         NEW i \in DOMAIN flights, Handle(i, TRUE, WatchdogHandled(flights[i], TRUE))
  PROVE  WatchdogInv' /\ NothingFailed'
<1> DEFINE c == flights[i]
           K == {"watchdog", "watchdog_save"}
<1>0. server \in WatchdogServers /\ c \in WatchdogCalls
  BY DEF Fits
<1>1. c.kind \in K
  BY <1>0, WatchdogCallsAre
<1>2. UNCHANGED page /\ server' = WatchdogHandled(c, TRUE)
  BY DEF Handle
<1>3. Grows(c) /\ NothingFailed'
  BY HandledGrows
<1> HIDE DEF c, K
<1>4. Told(K)' /\ \A v : server'.settings = v => Says(K, "settings", v)'
  BY <1>1, <1>3, ToldGrows, SaysGrows
<1> QED
  BY <1>2, <1>3, <1>4 DEF WatchdogInv, K

LEMMA WatchdogStepKeeps ==
  ASSUME PageTypeOK, panel = "watchdog", Next
  PROVE  /\ Fits(WatchdogPages, WatchdogServers, WatchdogCalls)' /\ Counts
         /\ WatchdogInv /\ NothingFailed /\ failures' = failures => WatchdogInv' /\ NothingFailed'
<1>0. Fits(WatchdogPages, WatchdogServers, WatchdogCalls)
  BY DEF PageTypeOK
<1>1. CASE WatchdogStep \/ WatchdogAnswer \/ EnterSettings
  <2>1. Sends(WatchdogPages, WatchdogCalls) /\ Counts
    BY <1>0, <1>1, WatchdogSends
  <2>2. Fits(WatchdogPages, WatchdogServers, WatchdogCalls)' /\ (NothingFailed => NothingFailed')
    BY <1>0, <2>1, SendsFits, SendsAsk
  <2>3. WatchdogInv /\ NothingFailed => WatchdogInv'
    BY <1>0, <1>1, WatchdogStays, WatchdogHears
  <2> QED
    BY <2>1, <2>2, <2>3
<1>2. CASE OtherBrowserSaves
  <2>1. PICK v \in Values : server' = [settings |-> v, unread |-> TRUE]
    BY <1>2 DEF OtherBrowserSaves
  <2>2. UNCHANGED <<panel, page, calls, active, failures>> /\ events' = events + 1
    BY <1>2 DEF OtherBrowserSaves, Elsewhere
  <2>3. Fits(WatchdogPages, WatchdogServers, WatchdogCalls)'
    BY <1>0, <2>1, <2>2, QuietStepFits DEF WatchdogServers, Fits
  <2>4. Counts
    BY <2>2 DEF PageTypeOK, Counts
  <2> QED
    BY <2>1, <2>2, <2>3, <2>4 DEF WatchdogInv, NothingFailed, calls
<1>3. CASE LeaveSettings
  <2>1. /\ UNCHANGED <<panel, page, server, calls, failures>> /\ active' \in BOOLEAN
        /\ events' = events + 1
    BY <1>3 DEF LeaveSettings
  <2>2. Fits(WatchdogPages, WatchdogServers, WatchdogCalls)'
    BY <1>0, <2>1, QuietStepFits DEF Fits
  <2>3. Counts
    BY <2>1 DEF PageTypeOK, Counts
  <2>4. UNCHANGED <<page, server, flights, answers>>
    BY <2>1 DEF calls
  <2> QED
    BY <2>2, <2>3, <2>4 DEF WatchdogInv, NothingFailed, Says, UnderWay, Told
<1>4. CASE \E i \in DOMAIN flights : SettingsHandles(i) \/ SettingsFails(i)
  BY <1>0, <1>4, WatchdogServed, WatchdogObeyed
<1> QED
  BY <1>1, <1>2, <1>3, <1>4, WatchdogOnly

-----------------------------------------------------------------------------
(* The online update and the account forms: their types.                   *)

\* The login page takes the place of this one.
LEMMA GoneFits ==
  ASSUME NEW P, NEW S, NEW C, page' \in P, server' \in S, flights' = <<>>, answers' = <<>>
  PROVE  Fits(P, S, C)'
BY DEF Fits

LEMMA UpdateCallsAre ==
  /\ Complete(UpdateCalls)
  /\ \A kind \in {"ota", "check", "install", "poll", "ota_save"} : Read(kind) \in UpdateCalls
  /\ \A c \in UpdateCalls : c.kind \in {"ota", "check", "install", "poll", "ota_save"}
<1>1. Complete(UpdateCalls)
  BY DEF UpdateCalls, Kind, Complete
<1>2. \A kind \in {"ota", "check", "install", "poll", "ota_save"} : Read(kind) \in UpdateCalls
  BY DEF UpdateCalls, Kind, Read, Call
<1>3. \A c \in UpdateCalls : c.kind \in {"ota", "check", "install", "poll", "ota_save"}
  BY DEF UpdateCalls, Kind
<1> QED
  BY <1>1, <1>2, <1>3

LEMMA UpdatePagesAre ==
  ASSUME NEW p \in UpdatePages, NEW snap \in UpdateServers
  PROVE  OtaPoll(p) \in UpdatePages /\ OtaApply(p, snap) \in UpdatePages /\ IdleSeen(p, snap) \in UpdatePages
BY DEF OtaPoll, OtaApply, IdleSeen, UpdatePages, UpdateServers, Phases

LEMMA UpdateSends ==
  ASSUME PageTypeOK, Fits(UpdatePages, UpdateServers, UpdateCalls), UpdateStep \/ UpdateAnswer
  PROVE  Fits(UpdatePages, UpdateServers, UpdateCalls)' /\ Counts
<1>0. page \in UpdatePages /\ server \in UpdateServers
  BY DEF Fits
<1>a. User \/ Page
  BY DEF UpdateStep, UpdateAnswer, OtaCheck, OtaInstall, OtaSave, OtaTimerFires, OtaRefreshed,
         OtaChecked, OtaInstalled, OtaSaved, OtaPolled, ToLogin, Heard
<1>b. Counts
  BY <1>a, UserCounts
<1>c. server' \in UpdateServers
  BY <1>0, <1>a DEF User, Page
<1> DEFINE C == UpdateCalls
           Fine == \/ /\ page' \in UpdatePages
                      /\ \E new \in Seq(C) : Send(new) \/ (answers # <<>> /\ Done(new))
                   \/ page' \in UpdatePages /\ flights' = <<>> /\ answers' = <<>>
<1>s. <<>> \in Seq(C) /\ \A c \in C : <<c>> \in Seq(C)
  BY SeqsOf
<1>n. \A kind \in {"ota", "check", "install", "poll", "ota_save"} : Read(kind) \in C
  BY UpdateCallsAre
<1>r. answers # <<>> => Head(answers).snap \in UpdateServers
  BY ReplyIs
<1>h. ASSUME NEW kind, Heard(kind) PROVE answers # <<>> /\ Head(answers).snap \in UpdateServers
  BY <1>h, <1>r DEF Heard, Reply
<1>g. ToLogin => Fine
  BY <1>0 DEF ToLogin, UpdatePages
<1> HIDE DEF C
<1>1. ASSUME OtaCheck PROVE Fine
  BY <1>0, <1>1, <1>s, <1>n DEF OtaCheck, UpdatePages, Phases
<1>2. ASSUME OtaInstall PROVE Fine
  BY <1>0, <1>2, <1>s, <1>n DEF OtaInstall, UpdatePages
<1>3. ASSUME OtaTimerFires PROVE Fine
  BY <1>0, <1>3, <1>s, <1>n DEF OtaTimerFires, UpdatePages
<1>4. ASSUME OtaRefreshed PROVE Fine
  <2> DEFINE snap == Head(answers).snap
             p == OtaApply(page, snap)
  <2>1. snap \in UpdateServers /\ answers # <<>>
    BY <1>4, <1>h DEF OtaRefreshed
  <2>2. p \in UpdatePages /\ OtaPoll(p) \in UpdatePages
    <3> HIDE DEF snap
    <3> QED
      BY <1>0, <2>1, UpdatePagesAre
  <2>3. page' \in {p, OtaPoll(p)} /\ Done(<<>>)
    BY <1>4 DEF OtaRefreshed
  <2> HIDE DEF p
  <2> QED
    BY <1>s, <2>1, <2>2, <2>3
<1>5. ASSUME OtaChecked PROVE Fine
  <2>1. Head(answers).snap \in UpdateServers /\ answers # <<>>
    BY <1>5, <1>h DEF OtaChecked
  <2>2. OtaApply(page, Head(answers).snap) \in UpdatePages
    BY <1>0, <2>1, UpdatePagesAre
  <2> QED
    BY <1>0, <1>5, <1>s, <1>n, <2>1, <2>2 DEF OtaChecked
<1>6. ASSUME OtaInstalled PROVE Fine
  <2>1. Head(answers).snap \in UpdateServers /\ answers # <<>>
    BY <1>6, <1>h DEF OtaInstalled
  <2>2. OtaPoll(OtaApply(page, Head(answers).snap)) \in UpdatePages
    <3>1. OtaApply(page, Head(answers).snap) \in UpdatePages
      BY <1>0, <2>1, UpdatePagesAre
    <3> QED
      BY <2>1, <3>1, UpdatePagesAre
  <2>3. [page EXCEPT !.following = FALSE] \in UpdatePages
    BY <1>0 DEF UpdatePages
  <2> QED
    BY <1>6, <1>s, <2>1, <2>2, <2>3 DEF OtaInstalled
<1>7. ASSUME OtaPolled PROVE Fine
  <2> DEFINE snap == Head(answers).snap
             p == OtaApply(page, snap)
  <2>1. snap \in UpdateServers /\ answers # <<>>
    BY <1>7, <1>h DEF OtaPolled
  <2>2. p \in UpdatePages /\ OtaPoll(p) \in UpdatePages /\ IdleSeen(p, snap) \in UpdatePages
    <3> HIDE DEF snap
    <3>1. p \in UpdatePages
      BY <1>0, <2>1, UpdatePagesAre
    <3> HIDE DEF p
    <3> QED
      BY <2>1, <3>1, UpdatePagesAre
  <2>3. page' \in {IdleSeen(p, snap), OtaPoll(p)} /\ Done(<<>>)
    BY <1>7, <2>1 DEF OtaPolled
  <2> HIDE DEF p, snap
  <2> QED
    BY <1>s, <2>1, <2>2, <2>3
<1>8. ASSUME OtaSave PROVE Fine
  <2>1. page' = [page EXCEPT !.saving = TRUE] /\ Send(<<Read("ota_save")>>)
    BY <1>8 DEF OtaSave
  <2>2. page' \in UpdatePages
    BY <1>0, <2>1 DEF UpdatePages
  <2>3. <<Read("ota_save")>> \in Seq(C)
    BY <1>s, <1>n
  <2> QED
    BY <2>1, <2>2, <2>3
<1>9. ASSUME OtaSaved PROVE Fine
  <2> DEFINE snap == Head(answers).snap
             p == [page EXCEPT !.saving = FALSE]
  <2>1. snap \in UpdateServers /\ answers # <<>>
    BY <1>9, <1>h DEF OtaSaved
  <2>2. p \in UpdatePages
    BY <1>0 DEF UpdatePages
  <2>3. page' \in {p, OtaApply(p, snap)} /\ Done(<<>>)
    BY <1>9 DEF OtaSaved
  <2> HIDE DEF p, snap
  <2>4. OtaApply(p, snap) \in UpdatePages
    BY <2>1, <2>2, UpdatePagesAre
  <2> QED
    BY <1>s, <2>1, <2>2, <2>3, <2>4
<1> HIDE DEF Fine
<1>10. Fine
  BY <1>1, <1>2, <1>3, <1>4, <1>5, <1>6, <1>7, <1>8, <1>9, <1>g DEF UpdateStep, UpdateAnswer
<1> QED
  BY <1>10, <1>b, <1>c, PageStepFits, GoneFits DEF Fine, C

\* What begins or is saved at the service.
LEMMA ServiceGoesOn ==
  ASSUME page \in UpdatePages, server \in UpdateServers
  PROVE  /\ ErrorCleared \in UpdateServers /\ Install \in UpdateServers
         /\ \A phase \in Phases : Begin(phase) \in UpdateServers
         /\ \A e \in BOOLEAN : [ErrorCleared EXCEPT !.error = e] \in UpdateServers
<1>1. ErrorCleared \in UpdateServers
  BY DEF ErrorCleared, UpdateServers, UpdatePages
<1>2. ASSUME NEW phase \in Phases PROVE Begin(phase) \in UpdateServers
  BY <1>1, <1>2 DEF Begin, UpdateServers
<1>3. Begin("checking") \in UpdateServers
  BY <1>2 DEF Phases
<1>4. Install \in UpdateServers
  BY <1>3 DEF Install, UpdateServers
<1>5. ASSUME NEW e \in BOOLEAN PROVE [ErrorCleared EXCEPT !.error = e] \in UpdateServers
  BY <1>1, <1>5 DEF UpdateServers
<1> QED
  BY <1>1, <1>2, <1>4, <1>5

\* The service: installations, restarts, and what others do.
LEMMA ServiceFits ==
  ASSUME PageTypeOK, Fits(UpdatePages, UpdateServers, UpdateCalls),
         \/ InstallProceeds \/ ServiceStops \/ ServiceStarts
         \/ OthersCheck \/ OthersInstall \/ OthersSave \/ OthersChecked
  PROVE  Fits(UpdatePages, UpdateServers, UpdateCalls)' /\ Counts
<1>0. page \in UpdatePages /\ server \in UpdateServers
  BY DEF Fits
<1>1. /\ UNCHANGED <<panel, page, calls, active, failures>>
      /\ events' = events \/ events' = events + 1
  BY DEF InstallProceeds, ServiceStops, ServiceStarts, OthersCheck, OthersInstall, OthersSave, Others,
         OthersChecked, UpdateRuns, bounds
<1>2. server' \in UpdateServers
  <2>1. ASSUME ServiceStops \/ ServiceStarts \/ OthersChecked PROVE server' \in UpdateServers
    BY <1>0, <2>1 DEF ServiceStops, ServiceStarts, OthersChecked, UpdateServers, Phases
  <2>2. ASSUME OthersCheck \/ OthersInstall \/ OthersSave PROVE server' \in UpdateServers
    BY <2>2, ServiceGoesOn, <1>0 DEF OthersCheck, OthersInstall, OthersSave, Phases
  <2>3. ASSUME InstallProceeds PROVE server' \in UpdateServers
    <3>1. /\ [server EXCEPT !.phase = "idle", !.error = TRUE] \in UpdateServers
          /\ [server EXCEPT !.phase = "idle", !.silent = TRUE] \in UpdateServers
      BY <1>0 DEF UpdateServers, Phases
    <3> QED
      BY <1>0, <2>3, <3>1, ServiceGoesOn DEF InstallProceeds, Phases
  <2> QED
    BY <2>1, <2>2, <2>3
<1>3. Fits(UpdatePages, UpdateServers, UpdateCalls)'
  BY <1>0, <1>1, <1>2, QuietStepFits
<1> QED
  BY <1>1, <1>3 DEF Counts, PageTypeOK

LEMMA UpdateServed ==
  ASSUME PageTypeOK, panel = "update", NEW i \in DOMAIN flights, SettingsHandles(i) \/ SettingsFails(i)
  PROVE  Fits(UpdatePages, UpdateServers, UpdateCalls)' /\ Counts
<1>0. /\ Fits(UpdatePages, UpdateServers, UpdateCalls) /\ flights[i] \in UpdateCalls
      /\ page \in UpdatePages /\ server \in UpdateServers
  BY DEF PageTypeOK, Fits
<1>k. flights[i].kind \in {"ota", "check", "install", "poll", "ota_save"}
  BY <1>0, UpdateCallsAre
<1>1. CASE SettingsHandles(i)
  <2>1. PICK ok \in BOOLEAN, done \in BOOLEAN : \E after \in Outcomes(flights[i], done) :
           /\ Handle(i, ok, after)
           /\ (Mishap /\ ~ok) \/ UNCHANGED bounds
           /\ UNCHANGED bounds => (ok /\ done) \/ flights[i].kind \in {"check", "install"}
    BY <1>1, SettingsServes
  <2>2. PICK after \in Outcomes(flights[i], done) :
           /\ Handle(i, ok, after)
           /\ (Mishap /\ ~ok) \/ UNCHANGED bounds
           /\ UNCHANGED bounds => (ok /\ done) \/ flights[i].kind \in {"check", "install"}
    BY <2>1
  <2>3. UpdateHandled(flights[i], done) \in UpdateServers
    BY <1>0, ServiceGoesOn DEF UpdateHandled
  <2>4. /\ \A e \in BOOLEAN : [ErrorCleared EXCEPT !.error = e] \in UpdateServers
        /\ ErrorCleared \in UpdateServers
    BY <1>0, ServiceGoesOn
  <2>5. after \in UpdateServers
    BY <1>0, <2>2, <2>3, <2>4 DEF Outcomes, SettingsHandled
  <2>6. Fits(UpdatePages, UpdateServers, UpdateCalls)' /\ UNCHANGED <<panel, page, active>>
    BY <1>0, <2>2, <2>5, ServerStepFits
  <2>7. Counts
    BY <2>2, <2>6, UserCounts
  <2> QED
    BY <2>6, <2>7
<1>2. CASE SettingsFails(i)
  <2> DEFINE new == CASE flights[i].kind = "set_ttl" -> <<Read("ttl")>>
                      [] flights[i].kind = "check" -> <<Read("ota")>> [] OTHER -> <<>>
  <2>1. /\ Mishap \/ UNCHANGED bounds
        /\ GiveUp(i, flights[i].kind \notin Reads, UpdateFailed(flights[i]), new)
    BY <1>2 DEF SettingsFails, SettingsFailed
  <2>2. UpdateFailed(flights[i]) \in UpdatePages
    BY <1>0 DEF UpdateFailed, OtaPoll, UpdatePages
  <2>3. Complete(UpdateCalls)
    BY UpdateCallsAre
  <2>4. new \in Seq(UpdateCalls)
    <3>1. <<>> \in Seq(UpdateCalls) /\ <<Read("ota")>> \in Seq(UpdateCalls)
      BY SeqsOf, UpdateCallsAre
    <3> QED
      BY <1>k, <3>1
  <2> HIDE DEF new
  <2>5. Fits(UpdatePages, UpdateServers, UpdateCalls)' /\ UNCHANGED <<panel, server, answers, active>>
    BY <1>0, <2>1, <2>2, <2>3, <2>4, FailedStepFits
  <2>6. Counts
    BY <2>1, <2>5, UserCounts
  <2> QED
    BY <2>5, <2>6
<1> QED
  BY <1>1, <1>2

LEMMA UpdateStepKeeps ==
  ASSUME PageTypeOK, panel = "update", Next
  PROVE  Fits(UpdatePages, UpdateServers, UpdateCalls)' /\ Counts
<1>1. Fits(UpdatePages, UpdateServers, UpdateCalls)
  BY DEF PageTypeOK
<1> QED
  BY <1>1, UpdateOnly, UpdateSends, ServiceFits, UpdateServed

LEMMA AccountsCallsAre ==
  /\ Complete(AccountsCalls)
  /\ \A f \in Forms : Call("form", f) \in AccountsCalls
  /\ \A c \in AccountsCalls : c.kind = "form" /\ c.val \in Forms
<1>1. Complete(AccountsCalls)
  BY DEF AccountsCalls, Kind, Complete
<1>2. \A f \in Forms : Call("form", f) \in AccountsCalls
  BY DEF AccountsCalls, Kind, Call
<1>3. \A c \in AccountsCalls : c.kind = "form" /\ c.val \in Forms
  BY DEF AccountsCalls, Kind
<1> QED
  BY <1>1, <1>2, <1>3

LEMMA AccountsStepKeeps ==
  ASSUME PageTypeOK, panel = "accounts", Next
  PROVE  Fits(AccountsPages, AccountsServers, AccountsCalls)' /\ Counts
<1>0. /\ Fits(AccountsPages, AccountsServers, AccountsCalls)
      /\ page \in AccountsPages /\ server \in AccountsServers
  BY DEF PageTypeOK, Fits
<1>s. <<>> \in Seq(AccountsCalls) /\ \A c \in AccountsCalls : <<c>> \in Seq(AccountsCalls)
  BY SeqsOf
<1>n. Complete(AccountsCalls) /\ (\A f \in Forms : Call("form", f) \in AccountsCalls) /\ \A c \in AccountsCalls : c.kind = "form" /\ c.val \in Forms
  BY AccountsCallsAre
<1>f. \A f : FormDone(page, f) \in AccountsPages
  BY <1>0 DEF FormDone, AccountsPages
<1>1. ASSUME NEW f \in Forms, SaveForm(f) PROVE Fits(AccountsPages, AccountsServers, AccountsCalls)' /\ Counts
  <2>1. page' \in AccountsPages /\ UNCHANGED server /\ User
    BY <1>0, <1>1 DEF SaveForm, User, AccountsPages
  <2>2. Send(<<Call("form", f)>>) /\ <<Call("form", f)>> \in Seq(AccountsCalls)
    BY <1>1, <1>s, <1>n DEF SaveForm
  <2> QED
    BY <1>0, <2>1, <2>2, PageStepFits, UserCounts
<1>2. CASE FormAnswered
  <2>0. Page
    BY <1>2 DEF FormAnswered
  <2>1. server' \in AccountsServers /\ Counts
    BY <1>0, <2>0, UserCounts DEF Page
  <2>2. CASE page' = [page EXCEPT !.busy = {}, !.gone = TRUE] /\ flights' = <<>> /\ answers' = <<>>
    <3>1. page' \in AccountsPages /\ flights' = <<>> /\ answers' = <<>>
      BY <1>0, <2>2 DEF AccountsPages
    <3> QED
      BY <2>1, <3>1, GoneFits
  <2>3. CASE page' = FormDone(page, Head(answers).val) /\ Done(<<>>)
    <3>1. answers # <<>>
      BY <1>2 DEF FormAnswered, Reply
    <3>2. page' \in AccountsPages
      BY <1>f, <2>3
    <3>3. \E new \in Seq(AccountsCalls) : Send(new) \/ (answers # <<>> /\ Done(new))
      BY <1>s, <2>3, <3>1
    <3>5. Fits(AccountsPages, AccountsServers, AccountsCalls) /\ page' \in AccountsPages /\ server' \in AccountsServers
      BY <1>0, <2>1, <3>2
    <3>4. Fits(AccountsPages, AccountsServers, AccountsCalls)'
      BY <3>5, <3>3, PageStepFits
    <3> QED
      BY <2>1, <3>4
  <2> QED
    BY <1>2, <2>2, <2>3 DEF FormAnswered
<1>3. ASSUME NEW i \in DOMAIN flights, SettingsHandles(i)
      PROVE  Fits(AccountsPages, AccountsServers, AccountsCalls)' /\ Counts
  <2>0. flights[i] \in AccountsCalls
    BY <1>0 DEF Fits
  <2>1. PICK ok \in BOOLEAN, done \in BOOLEAN : \E after \in Outcomes(flights[i], done) :
           /\ Handle(i, ok, after)
           /\ (Mishap /\ ~ok) \/ UNCHANGED bounds
           /\ UNCHANGED bounds => (ok /\ done) \/ flights[i].kind \in {"check", "install"}
    BY <1>3, SettingsServes
  <2>2. PICK after \in Outcomes(flights[i], done) :
           /\ Handle(i, ok, after)
           /\ (Mishap /\ ~ok) \/ UNCHANGED bounds
           /\ UNCHANGED bounds => (ok /\ done) \/ flights[i].kind \in {"check", "install"}
    BY <2>1
  <2>3. after \in AccountsServers
    <3>1. after = [server EXCEPT !.saved = IF done THEN @ \union {flights[i].val} ELSE @]
      BY <1>n, <2>0, <2>2 DEF Outcomes, SettingsHandled
    <3> QED
      BY <1>0, <1>n, <2>0, <3>1 DEF AccountsServers
  <2>4. Fits(AccountsPages, AccountsServers, AccountsCalls)' /\ UNCHANGED <<panel, page, active>>
    BY <1>0, <1>3, <2>2, <2>3, ServerStepFits
  <2>5. Counts
    BY <2>2, <2>4, UserCounts
  <2> QED
    BY <2>4, <2>5
<1>4. ASSUME NEW i \in DOMAIN flights, SettingsFails(i)
      PROVE  Fits(AccountsPages, AccountsServers, AccountsCalls)' /\ Counts
  <2>0. flights[i] \in AccountsCalls
    BY <1>0 DEF Fits
  <2>1. Mishap /\ GiveUp(i, flights[i].kind \notin Reads, FormDone(page, flights[i].val), <<>>)
    BY <1>4, <1>n, <2>0 DEF SettingsFails, SettingsFailed
  <2>3. Fits(AccountsPages, AccountsServers, AccountsCalls)' /\ UNCHANGED <<panel, server, answers, active>>
    BY <1>0, <1>4, <1>f, <1>s, <1>n, <2>1, FailedStepFits
  <2> QED
    BY <2>1, <2>3, UserCounts
<1> QED
  BY <1>1, <1>2, <1>3, <1>4, AccountsOnly
     DEF Forms, AccountsStep, SaveLanguageSetting, ChangeRootPassword, SaveWebuiPort, ChangeLoginPassword

-----------------------------------------------------------------------------
(* The polls under way.                                                    *)

PollsAt(s) == {i \in DOMAIN s : s[i].kind \in PollKinds}
NoPolls(new) == \A k \in DOMAIN new : new[k].kind \notin PollKinds

LEMMA PollsFinite ==
  ASSUME NEW C, NEW s \in Seq(C)
  PROVE  IsFiniteSet(PollsAt(s)) /\ Cardinality(PollsAt(s)) \in Nat
<1>1. DOMAIN s = 1..Len(s) /\ 1 \in Int /\ Len(s) \in Int
  OBVIOUS
<1>2. IsFiniteSet(1..Len(s))
  BY <1>1, FS_Interval
<1>3. PollsAt(s) \in SUBSET (1..Len(s))
  BY <1>1 DEF PollsAt
<1>4. IsFiniteSet(PollsAt(s))
  BY <1>2, <1>3, FS_Subset
<1> QED
  BY <1>4, FS_CardinalityType

LEMMA RemovedPolls ==
  ASSUME NEW C, NEW s \in Seq(C), NEW i \in DOMAIN s
  PROVE  Cardinality(PollsAt(RemoveAt(s, i))) <= Cardinality(PollsAt(s))
<1> DEFINE r == RemoveAt(s, i)
           f == [j \in PollsAt(r) |-> IF j < i THEN j ELSE j + 1]
<1>1. Len(s) \in Nat /\ i \in 1..Len(s) /\ DOMAIN s = 1..Len(s)
  OBVIOUS
<1>2. DOMAIN r = 1..(Len(s) - 1) /\ \A j \in DOMAIN r : r[j] = IF j < i THEN s[j] ELSE s[j+1]
  BY RemovedIs
<1> HIDE DEF r
<1>3. PollsAt(r) \subseteq 1..(Len(s) - 1)
  BY <1>2 DEF PollsAt
<1>4. ASSUME NEW j \in PollsAt(r) PROVE f[j] \in PollsAt(s)
  BY <1>1, <1>2, <1>3 DEF PollsAt
<1>5. ASSUME NEW j \in PollsAt(r), NEW k \in PollsAt(r), f[j] = f[k] PROVE j = k
  BY <1>1, <1>3, <1>5
<1>6. f \in Injection(PollsAt(r), PollsAt(s))
  <2>1. f \in [PollsAt(r) -> PollsAt(s)]
    BY <1>4
  <2> HIDE DEF f
  <2> QED
    BY <1>5, <2>1 DEF Injection, IsInjective
<1> HIDE DEF f
<1>7. IsFiniteSet(PollsAt(s))
  BY PollsFinite
<1>8. Cardinality(PollsAt(r)) <= Cardinality(PollsAt(s))
  BY <1>6, <1>7, FS_Injection
<1> QED
  BY <1>8 DEF r

LEMMA QuietPolls ==
  ASSUME NEW C, NEW s \in Seq(C), NEW new \in Seq(C), NoPolls(new)
  PROVE  PollsAt(s \o new) = PollsAt(s)
<1>1. /\ DOMAIN s = 1..Len(s) /\ DOMAIN new = 1..Len(new) /\ Len(s) \in Nat /\ Len(new) \in Nat
      /\ DOMAIN (s \o new) = 1..(Len(s) + Len(new))
  OBVIOUS
<1>2. /\ \A j \in 1..Len(s) : (s \o new)[j] = s[j]
      /\ \A j \in 1..(Len(s) + Len(new)) : j > Len(s) => (s \o new)[j] = new[j - Len(s)]
  OBVIOUS
<1> DEFINE t == s \o new
<1> HIDE DEF t
<1>3. \A j \in DOMAIN t : j > Len(s) => t[j].kind \notin PollKinds
  <2> SUFFICES ASSUME NEW j \in DOMAIN t, j > Len(s) PROVE t[j].kind \notin PollKinds
    OBVIOUS
  <2>1. j - Len(s) \in DOMAIN new /\ t[j] = new[j - Len(s)]
    BY <1>1, <1>2 DEF t
  <2> QED
    BY <2>1 DEF NoPolls
<1>4. ASSUME NEW j PROVE j \in PollsAt(t) <=> j \in PollsAt(s)
  BY <1>1, <1>2, <1>3 DEF PollsAt, t
<1> QED
  BY <1>4 DEF t

LEMMA OrphanPolls ==
  ASSUME NEW C, NEW s \in Seq(C), NEW i \in DOMAIN s, Complete(C)
  PROVE  /\ [s EXCEPT ![i].orphan = TRUE] \in Seq(C)
         /\ PollsAt([s EXCEPT ![i].orphan = TRUE]) = PollsAt(s)
<1> DEFINE t == [s EXCEPT ![i].orphan = TRUE]
<1>1. DOMAIN t = DOMAIN s /\ \A j \in DOMAIN s : t[j] = IF j = i THEN [s[i] EXCEPT !.orphan = TRUE] ELSE s[j]
  OBVIOUS
<1>2. s[i] \in C /\ [s[i] EXCEPT !.orphan = TRUE] \in C
  BY DEF Complete
<1>3. t \in Seq(C)
  BY <1>2
<1>4. [s[i] EXCEPT !.orphan = TRUE].kind = s[i].kind
  OBVIOUS
<1> HIDE DEF t
<1>5. PollsAt(t) = PollsAt(s)
  BY <1>1, <1>4 DEF PollsAt
<1> QED
  BY <1>3, <1>5 DEF t

\* Without the poll that a page gives up.
LEMMA KeptIs ==
  ASSUME NEW C, NEW s \in Seq(C)
  PROVE  Kept(s) \in Seq(C) /\ Cardinality(PollsAt(Kept(s))) <= Cardinality(PollsAt(s))
<1>1. CASE \E i \in DOMAIN s : s[i].kind = "telemetry"
  <2>1. PICK i \in DOMAIN s : Kept(s) = RemoveAt(s, i)
    BY <1>1 DEF Kept
  <2> QED
    BY <2>1, RemovedIs, RemovedPolls
<1>2. CASE ~\E i \in DOMAIN s : s[i].kind = "telemetry"
  BY <1>2, PollsFinite DEF Kept
<1> QED
  BY <1>1, <1>2

\* The page as the step leaves it is not looked at.
Away == ~active' \/ (page'.hidden /\ panel # "deviceinfo")

\* A step of a page that polls: of the calls under way some may be given up,
\* and no poll is added to them when the page is away then.
Polled(P, C) ==
  /\ page' \in P
  /\ \E base \in Seq(C), new \in Seq(C) :
       /\ flights' = base \o new
       /\ Cardinality(PollsAt(base)) <= Cardinality(PollsAt(flights))
       /\ Away => NoPolls(new)

LEMMA PolledIsQuiet ==
  ASSUME NEW P, NEW C, flights \in Seq(C), Polled(P, C)
  PROVE  flights' \in Seq(C) /\ (Polls' > Polls => ~Away)
<1>1. PICK base \in Seq(C), new \in Seq(C) :
        /\ flights' = base \o new
        /\ Cardinality(PollsAt(base)) <= Cardinality(PollsAt(flights))
        /\ Away => NoPolls(new)
  BY DEF Polled
<1>2. flights' \in Seq(C)
  BY <1>1
<1>3. Polls = Cardinality(PollsAt(flights)) /\ Polls' = Cardinality(PollsAt(flights'))
  BY DEF Polls, PollsAt
<1>4. Away => PollsAt(flights') = PollsAt(base)
  BY <1>1, QuietPolls
<1>5. Cardinality(PollsAt(base)) \in Nat /\ Cardinality(PollsAt(flights)) \in Nat
  BY PollsFinite
<1> QED
  BY <1>1, <1>2, <1>3, <1>4, <1>5

LEMMA NoneIsQuiet == NoPolls(<<>>)
BY DEF NoPolls

\* A step of the page, with what it sends.
LEMMA PageMoves ==
  ASSUME NEW P, NEW S, NEW C, Fits(P, S, C), page' \in P, server' \in S, NEW new \in Seq(C),
         Send(new) \/ (answers # <<>> /\ Done(new)), Away => NoPolls(new)
  PROVE  Fits(P, S, C)' /\ Polled(P, C)
<1>1. Fits(P, S, C)'
  BY PageStepFits
<1>2. flights' = flights \o new /\ flights \in Seq(C)
  BY DEF Send, Done, Fits
<1>3. Cardinality(PollsAt(flights)) <= Cardinality(PollsAt(flights))
  BY <1>2, PollsFinite
<1> QED
  BY <1>1, <1>2, <1>3 DEF Polled

LEMMA PageRests ==
  ASSUME NEW P, NEW S, NEW C, Fits(P, S, C), page' \in P, server' \in S, UNCHANGED calls
  PROVE  Fits(P, S, C)' /\ Polled(P, C)
<1>1. flights \o <<>> = flights /\ <<>> \in Seq(C)
  BY DEF Fits
<1>2. Send(<<>>)
  BY <1>1 DEF calls, Send
<1> QED
  BY <1>1, <1>2, NoneIsQuiet, PageMoves

\* The server's side of a page that polls.
LEMMA PageServed ==
  ASSUME PageTypeOK, NEW P, NEW S, NEW C, Fits(P, S, C), NEW i \in DOMAIN flights, PageHandles(i),
         \A ok \in BOOLEAN : PageHandled(flights[i], ok) \in S
  PROVE  Fits(P, S, C)' /\ Counts /\ Polled(P, C) /\ UNCHANGED <<page, active>>
<1>0. flights \in Seq(C) /\ page \in P
  BY DEF Fits
<1>1. PICK ok \in BOOLEAN, done \in BOOLEAN :
        /\ \/ ok /\ done /\ UNCHANGED bounds
           \/ ~ok /\ flights[i].kind \in {"save", "test", "target", "schedule"} /\ Mishap
        /\ Handle(i, ok, PageHandled(flights[i], done))
  BY DEF PageHandles
<1>2. /\ Fits(P, S, C)' /\ UNCHANGED <<panel, page, active>>
      /\ flights' = RemoveAt(flights, i)
  BY <1>1, ServerStepFits
<1>3. Mishap \/ UNCHANGED bounds
  BY <1>1
<1>4. Counts
  BY <1>2, <1>3, UserCounts
<1>5. /\ RemoveAt(flights, i) \in Seq(C) /\ <<>> \in Seq(C)
      /\ Cardinality(PollsAt(RemoveAt(flights, i))) <= Cardinality(PollsAt(flights))
  BY <1>0, RemovedIs, RemovedPolls
<1>6. flights' = RemoveAt(flights, i) \o <<>> /\ page' \in P
  BY <1>0, <1>2, <1>5
<1> QED
  BY <1>2, <1>4, <1>5, <1>6, NoneIsQuiet DEF Polled

LEMMA PageGivenUp ==
  ASSUME PageTypeOK, NEW P, NEW S, NEW C, Fits(P, S, C), Complete(C), NEW i \in DOMAIN flights, Mishap,
         NEW may, NEW after \in P, NEW new \in Seq(C), GiveUp(i, may, after, new), Away => NoPolls(new)
  PROVE  Fits(P, S, C)' /\ Counts /\ Polled(P, C)
<1>0. flights \in Seq(C)
  BY DEF Fits
<1>1. Fits(P, S, C)' /\ UNCHANGED <<panel, server, answers, active>>
  BY FailedStepFits
<1>2. Counts
  BY <1>1, UserCounts
<1>3. /\ page' = after
      /\ \/ flights' = RemoveAt(flights, i) \o new
         \/ flights' = [flights EXCEPT ![i].orphan = TRUE] \o new
  BY DEF GiveUp
<1>4. /\ RemoveAt(flights, i) \in Seq(C)
      /\ Cardinality(PollsAt(RemoveAt(flights, i))) <= Cardinality(PollsAt(flights))
  BY <1>0, RemovedIs, RemovedPolls
<1>5. /\ [flights EXCEPT ![i].orphan = TRUE] \in Seq(C)
      /\ Cardinality(PollsAt([flights EXCEPT ![i].orphan = TRUE])) <= Cardinality(PollsAt(flights))
  <2>1. /\ [flights EXCEPT ![i].orphan = TRUE] \in Seq(C)
        /\ PollsAt([flights EXCEPT ![i].orphan = TRUE]) = PollsAt(flights)
    BY <1>0, OrphanPolls
  <2> QED
    BY <1>0, <2>1, PollsFinite
<1>6. Polled(P, C)
  BY <1>3, <1>4, <1>5 DEF Polled
<1> QED
  BY <1>1, <1>2, <1>6

-----------------------------------------------------------------------------
(* The dashboard and the device information.                               *)

LEMMA TickerCallsAre ==
  Complete(TickerCalls) /\ Read("fetch") \in TickerCalls /\ \A c \in TickerCalls : c.kind = "fetch"
BY DEF TickerCalls, Kind, Complete, Read, Call

LEMMA FetchIs ==
  ASSUME panel \in Tickers, NEW p \in TickerPages
  PROVE  /\ Fetched(p) \in TickerPages /\ Fetched(p).hidden = p.hidden
         /\ FetchCalls(p) \in Seq(TickerCalls)
         /\ p.hidden /\ panel # "deviceinfo" => NoPolls(FetchCalls(p))
<1>1. Fetched(p) \in TickerPages /\ Fetched(p).hidden = p.hidden
  BY DEF Fetched, TickerPages
<1>2. <<>> \in Seq(TickerCalls) /\ <<Read("fetch")>> \in Seq(TickerCalls)
  BY SeqsOf, TickerCallsAre
<1>3. FetchCalls(p) \in Seq(TickerCalls)
  BY <1>2 DEF FetchCalls
<1>4. p.hidden /\ panel # "deviceinfo" => FetchCalls(p) = <<>>
  BY DEF FetchCalls, Fetches, FetchNetworkInfo, Tickers
<1> QED
  BY <1>1, <1>3, <1>4, NoneIsQuiet

LEMMA TickingIs ==
  ASSUME panel \in Tickers, active \in BOOLEAN, page \in TickerPages
  PROVE  /\ StartTicking(page).next \in TickerPages /\ StartTicking(page).next.hidden = page.hidden
         /\ StartTicking(page).calls \in Seq(TickerCalls)
         /\ page.hidden /\ panel # "deviceinfo" => NoPolls(StartTicking(page).calls)
         /\ TickerHidden(page).next \in TickerPages
         /\ TickerHidden(page).calls \in Seq(TickerCalls)
         /\ ~active \/ (TickerHidden(page).next.hidden /\ panel # "deviceinfo")
              => NoPolls(TickerHidden(page).calls)
<1> DEFINE stopped == [page EXCEPT !.timer = FALSE]
           turned == [page EXCEPT !.hidden = ~@]
<1>1. stopped \in TickerPages /\ stopped.hidden = page.hidden
  BY DEF TickerPages
<1>2. turned \in TickerPages
  BY DEF TickerPages
<1>3. <<>> \in Seq(TickerCalls)
  BY SeqsOf
<1>4. \A p \in TickerPages : [p EXCEPT !.timer = TRUE] \in TickerPages /\ [p EXCEPT !.timer = TRUE].hidden = p.hidden
  BY DEF TickerPages
<1>5. panel = "dashboard" /\ active =>
        /\ StartTicking(page).next = [page EXCEPT !.timer = TRUE]
        /\ StartTicking(page).calls = <<>>
  BY DEF StartTicking
<1>a. panel = "dashboard" /\ ~active =>
        /\ StartTicking(page).next = [Fetched(page) EXCEPT !.timer = TRUE]
        /\ StartTicking(page).calls = FetchCalls(page)
  BY DEF StartTicking
<1>b. panel # "dashboard" =>
        /\ StartTicking(page).next = Fetched(stopped)
        /\ StartTicking(page).calls = FetchCalls(stopped)
  BY DEF StartTicking
<1>6. TickerHidden(page) = IF panel = "dashboard" /\ active
                           THEN [next |-> Fetched(turned), calls |-> FetchCalls(turned)]
                           ELSE [next |-> turned, calls |-> <<>>]
  BY DEF TickerHidden
<1> HIDE DEF stopped, turned
<1>7. \A p \in {page, stopped, turned} :
        /\ Fetched(p) \in TickerPages /\ Fetched(p).hidden = p.hidden
        /\ FetchCalls(p) \in Seq(TickerCalls)
        /\ p.hidden /\ panel # "deviceinfo" => NoPolls(FetchCalls(p))
  BY <1>1, <1>2, FetchIs
<1>8. /\ StartTicking(page).next \in TickerPages /\ StartTicking(page).next.hidden = page.hidden
      /\ StartTicking(page).calls \in Seq(TickerCalls)
      /\ page.hidden /\ panel # "deviceinfo" => NoPolls(StartTicking(page).calls)
  <2>1. CASE panel = "dashboard" /\ active
    BY <1>3, <1>4, <1>5, <2>1, NoneIsQuiet
  <2>2. CASE panel = "dashboard" /\ ~active
    BY <1>4, <1>a, <1>7, <2>2
  <2>3. CASE panel # "dashboard"
    BY <1>1, <1>b, <1>7, <2>3
  <2> QED
    BY <2>1, <2>2, <2>3
<1>9. /\ TickerHidden(page).next \in TickerPages
      /\ TickerHidden(page).calls \in Seq(TickerCalls)
      /\ ~active \/ (TickerHidden(page).next.hidden /\ panel # "deviceinfo")
           => NoPolls(TickerHidden(page).calls)
  BY <1>2, <1>3, <1>6, <1>7, NoneIsQuiet
<1> QED
  BY <1>8, <1>9

LEMMA TickersStepKeeps ==
  ASSUME PageTypeOK, panel \in Tickers, Next
  PROVE  Fits(TickerPages, PageServers, TickerCalls)' /\ Counts /\ Polled(TickerPages, TickerCalls)
<1>0. /\ Fits(TickerPages, PageServers, TickerCalls) /\ page \in TickerPages /\ server \in PageServers
      /\ active \in BOOLEAN /\ failures \in Nat /\ events \in Nat
  BY DEF PageTypeOK, Fits
<1>p. panel \notin Refreshers /\ panel # "notify" /\ panel # "monitor"
  BY DEF Tickers, Refreshers
<1>s. <<>> \in Seq(TickerCalls)
  BY SeqsOf
<1> DEFINE Keeps == Fits(TickerPages, PageServers, TickerCalls)' /\ Counts /\ Polled(TickerPages, TickerCalls)
<1>1. ASSUME TickerTimerFires PROVE Keeps
  <2>1. /\ page' = [Fetched(page) EXCEPT !.timer = panel = "dashboard"] /\ Send(FetchCalls(page)) /\ Page /\ active
    BY <1>1 DEF TickerTimerFires
  <2>2. page' \in TickerPages /\ page'.hidden = page.hidden
    <3>1. Fetched(page) \in TickerPages /\ Fetched(page).hidden = page.hidden
      BY <1>0, FetchIs
    <3> QED
      BY <2>1, <3>1 DEF TickerPages
  <2>3. server' \in PageServers /\ active' /\ Counts
    BY <1>0, <2>1, UserCounts DEF Page
  <2>4. FetchCalls(page) \in Seq(TickerCalls) /\ (Away => NoPolls(FetchCalls(page)))
    BY <1>0, <2>2, <2>3, FetchIs DEF Away
  <2> QED
    BY <1>0, <2>1, <2>2, <2>3, <2>4, PageMoves
<1>2. ASSUME TickerAnswered PROVE Keeps
  <2>1. answers # <<>> /\ Done(<<>>) /\ Page
    BY <1>2 DEF TickerAnswered, Reply
  <2>2. Head(answers).snap \in PageServers
    BY <1>0, <2>1, ReplyIs
  <2>3. page' \in TickerPages
    BY <1>0, <1>2, <2>2 DEF TickerAnswered, Finished, TickerPages, PageServers, Shows
  <2>4. server' \in PageServers /\ Counts
    BY <1>0, <2>1, UserCounts DEF Page
  <2> QED
    BY <1>0, <1>s, <2>1, <2>3, <2>4, NoneIsQuiet, PageMoves
<1>3. ASSUME ServerChanges PROVE Keeps
  <2>1. server' \in PageServers /\ page' \in TickerPages /\ UNCHANGED calls
    BY <1>0, <1>3 DEF ServerChanges, Elsewhere, PageServers
  <2>2. Counts
    BY <1>0, <1>3 DEF ServerChanges, Elsewhere, Counts
  <2> QED
    BY <1>0, <2>1, <2>2, PageRests
<1>4. ASSUME EnterPage PROVE Keeps
  <2>1. /\ page' = StartTicking(page).next /\ Send(StartTicking(page).calls)
        /\ active' = TRUE /\ events' = events + 1 /\ UNCHANGED <<panel, server, failures>>
    BY <1>4, <1>p DEF EnterPage
  <2>2. Counts
    BY <1>0, <2>1 DEF Counts
  <2>3. page' \in TickerPages /\ (Away => NoPolls(StartTicking(page).calls))
    BY <1>0, <2>1, TickingIs DEF Away
  <2> QED
    BY <1>0, <2>1, <2>2, <2>3, TickingIs, PageMoves
<1>5. ASSUME LeavePage PROVE Keeps
  <2>1. /\ page' = Stopped(page) /\ UNCHANGED calls
        /\ active' \in BOOLEAN /\ events' = events + 1 /\ UNCHANGED <<panel, server, failures>>
    BY <1>5, <1>p DEF LeavePage, SendNothing
  <2>2. Counts
    BY <1>0, <2>1 DEF Counts
  <2>3. page' \in TickerPages
    BY <1>0, <2>1 DEF Stopped, TickerPages
  <2> QED
    BY <1>0, <2>1, <2>2, <2>3, PageRests
<1>6. ASSUME HideOrShow PROVE Keeps
  <2>1. page' = TickerHidden(page).next /\ Send(TickerHidden(page).calls) /\ User
    BY <1>6, <1>p DEF HideOrShow
  <2>2. server' \in PageServers /\ active' = active /\ Counts
    BY <1>0, <2>1, UserCounts DEF User
  <2>3. page' \in TickerPages /\ (Away => NoPolls(TickerHidden(page).calls))
    BY <1>0, <2>1, <2>2, TickingIs DEF Away
  <2> QED
    BY <1>0, <2>1, <2>2, <2>3, TickingIs, PageMoves
<1>7. ASSUME NEW i \in DOMAIN flights, PageHandles(i) PROVE Keeps
  <2>1. \A ok \in BOOLEAN : PageHandled(flights[i], ok) \in PageServers
    BY <1>0, <1>p DEF PageHandled
  <2> QED
    BY <1>0, <1>7, <2>1, PageServed
<1>8. ASSUME NEW i \in DOMAIN flights, PageFails(i) PROVE Keeps
  <2>1. GiveUp(i, FALSE, Finished(page), <<>>) /\ Mishap
    BY <1>8, <1>p DEF PageFails
  <2>2. Finished(page) \in TickerPages
    BY <1>0 DEF Finished, TickerPages
  <2> QED
    BY <1>0, <1>s, <1>8, <2>1, <2>2, NoneIsQuiet, TickerCallsAre, PageGivenUp
<1> HIDE DEF Keeps
<1>9. Keeps
  BY <1>1, <1>2, <1>3, <1>4, <1>5, <1>6, <1>7, <1>8, TickersOnly
<1> QED
  BY <1>9 DEF Keeps

-----------------------------------------------------------------------------
(* Events and AT queue.                                                    *)

LEMMA RefresherCallsAre ==
  /\ Complete(RefresherCalls)
  /\ \A kind \in {"events", "at_queue", "events_clear"} : Read(kind) \in RefresherCalls
<1>1. Complete(RefresherCalls)
  BY DEF RefresherCalls, Kind, Complete
<1>2. \A kind \in {"events", "at_queue", "events_clear"} : Read(kind) \in RefresherCalls
  BY DEF RefresherCalls, Kind, Read, Call
<1> QED
  BY <1>1, <1>2

LEMMA RefreshIs ==
  ASSUME NEW p \in RefresherPages, NEW shown
  PROVE  /\ EventsRefresh(p, shown) \in Seq(RefresherCalls)
         /\ QueueRefresh(p, shown) \in Seq(RefresherCalls)
         /\ RefreshCalls(p, shown) \in Seq(RefresherCalls)
         /\ ~shown \/ p.hidden => /\ NoPolls(EventsRefresh(p, shown))
                                  /\ NoPolls(QueueRefresh(p, shown))
                                  /\ NoPolls(RefreshCalls(p, shown))
         /\ Refreshed(p) \in RefresherPages /\ Refreshed(p).hidden = p.hidden
<1>1. /\ <<>> \in Seq(RefresherCalls)
      /\ <<Read("events")>> \in Seq(RefresherCalls) /\ <<Read("at_queue")>> \in Seq(RefresherCalls)
  BY SeqsOf, RefresherCallsAre
<1>2. EventsRefresh(p, shown) \in Seq(RefresherCalls) /\ QueueRefresh(p, shown) \in Seq(RefresherCalls)
  BY <1>1 DEF EventsRefresh, QueueRefresh
<1>3. ~shown \/ p.hidden => EventsRefresh(p, shown) = <<>> /\ QueueRefresh(p, shown) = <<>>
  BY DEF EventsRefresh, QueueRefresh
<1>4. Refreshed(p) \in RefresherPages /\ Refreshed(p).hidden = p.hidden
  BY DEF Refreshed, RefresherPages
<1> QED
  BY <1>2, <1>3, <1>4, NoneIsQuiet DEF RefreshCalls

LEMMA AgainIs ==
  ASSUME NEW p \in RefresherPages
  PROVE  EventsAgain(p) \in RefresherPages
<1>1. p.strays + 1 \in Nat
  BY DEF RefresherPages
<1> QED
  BY <1>1 DEF EventsAgain, RefresherPages

LEMMA RefreshersStepKeeps ==
  ASSUME PageTypeOK, panel \in Refreshers, Next
  PROVE  /\ Fits(RefresherPages, PageServers, RefresherCalls)' /\ Counts
         /\ Polled(RefresherPages, RefresherCalls)
<1>0. /\ Fits(RefresherPages, PageServers, RefresherCalls)
      /\ page \in RefresherPages /\ server \in PageServers
      /\ active \in BOOLEAN /\ failures \in Nat /\ events \in Nat
  BY DEF PageTypeOK, Fits, Tickers, Refreshers
<1>p. panel \notin Tickers /\ panel # "notify" /\ panel # "monitor"
  BY DEF Tickers, Refreshers
<1>s. <<>> \in Seq(RefresherCalls) /\ <<Read("events_clear")>> \in Seq(RefresherCalls)
  BY SeqsOf, RefresherCallsAre
<1>q. [page EXCEPT !.paused = ~@] \in RefresherPages /\ [page EXCEPT !.hidden = ~@] \in RefresherPages
  BY <1>0 DEF RefresherPages
<1>h. [page EXCEPT !.paused = ~@].hidden = page.hidden
  BY <1>0 DEF RefresherPages
<1> DEFINE Keeps == /\ Fits(RefresherPages, PageServers, RefresherCalls)' /\ Counts
                    /\ Polled(RefresherPages, RefresherCalls)
<1>1. ASSUME RefreshAnswered PROVE Keeps
  <2>1. answers # <<>> /\ Done(<<>>) /\ Page
    BY <1>1 DEF RefreshAnswered, Reply
  <2>2. Head(answers).snap \in PageServers
    BY <1>0, <2>1, ReplyIs
  <2>3. [page EXCEPT !.shown = Head(answers).snap.now] \in RefresherPages
    BY <1>0, <2>2 DEF RefresherPages, PageServers, Shows
  <2>4. page' \in RefresherPages
    BY <1>1, <2>3, AgainIs DEF RefreshAnswered
  <2>5. server' \in PageServers /\ Counts
    BY <1>0, <2>1, UserCounts DEF Page
  <2> QED
    BY <1>0, <1>s, <2>1, <2>4, <2>5, NoneIsQuiet, PageMoves
<1>2. ASSUME EventsCleared PROVE Keeps
  <2>1. answers # <<>> /\ Done(EventsRefresh(page, active)) /\ Page /\ page' = Refreshed(page)
    BY <1>2 DEF EventsCleared, Reply
  <2>2. server' \in PageServers /\ active' = active /\ Counts
    BY <1>0, <2>1, UserCounts DEF Page
  <2>3. page' \in RefresherPages /\ (Away => NoPolls(EventsRefresh(page, active)))
    BY <1>0, <2>1, <2>2, RefreshIs DEF Away
  <2> QED
    BY <1>0, <2>1, <2>2, <2>3, RefreshIs, PageMoves
<1>3. ASSUME RefreshTimerFires PROVE Keeps
  <2>1. Send(RefreshCalls(page, active)) /\ Page
    BY <1>3 DEF RefreshTimerFires
  <2>2. server' \in PageServers /\ active' = active /\ Counts
    BY <1>0, <2>1, UserCounts DEF Page
  <2>3. page' \in RefresherPages /\ page'.hidden = page.hidden
    <3>1. CASE page' = Refreshed(page)
      BY <1>0, <3>1, RefreshIs
    <3>2. CASE page.strays > 0 /\ page' = Refreshed([page EXCEPT !.strays = @ - 1])
      <4>1. page.strays - 1 \in Nat
        BY <1>0, <3>2 DEF RefresherPages
      <4>2. /\ [page EXCEPT !.strays = @ - 1] \in RefresherPages
            /\ [page EXCEPT !.strays = @ - 1].hidden = page.hidden
        BY <1>0, <4>1 DEF RefresherPages
      <4> QED
        BY <3>2, <4>2, RefreshIs
    <3> QED
      BY <1>3, <3>1, <3>2 DEF RefreshTimerFires
  <2>4. Away => NoPolls(RefreshCalls(page, active))
    BY <1>0, <1>p, <2>2, <2>3, RefreshIs DEF Away
  <2> QED
    BY <1>0, <2>1, <2>2, <2>3, <2>4, RefreshIs, PageMoves
<1>4. ASSUME Pause PROVE Keeps
  <2> DEFINE q == [page EXCEPT !.paused = ~@]
  <2>1. /\ User
        /\ \/ page' = q /\ UNCHANGED calls
           \/ page' = Refreshed(q) /\ Send(QueueRefresh(q, active))
    BY <1>4 DEF Pause, SendNothing
  <2>2. server' \in PageServers /\ active' = active /\ Counts
    BY <1>0, <2>1, UserCounts DEF User
  <2>3. q \in RefresherPages
    BY <1>q
  <2> HIDE DEF q
  <2>4. CASE page' = q /\ UNCHANGED calls
    BY <1>0, <2>2, <2>3, <2>4, PageRests
  <2>5. CASE page' = Refreshed(q) /\ Send(QueueRefresh(q, active))
    <3>1. page' \in RefresherPages /\ (Away => NoPolls(QueueRefresh(q, active)))
      BY <2>2, <2>3, <2>5, RefreshIs DEF Away
    <3>2. QueueRefresh(q, active) \in Seq(RefresherCalls)
      BY <2>3, RefreshIs
    <3> QED
      BY <1>0, <2>2, <2>5, <3>1, <3>2, PageMoves
  <2> QED
    BY <2>1, <2>4, <2>5
<1>5. ASSUME ClearEvents PROVE Keeps
  <2>1. User /\ UNCHANGED page /\ Send(<<Read("events_clear")>>)
    BY <1>5 DEF ClearEvents
  <2>2. server' \in PageServers /\ page' \in RefresherPages /\ Counts
    BY <1>0, <2>1, UserCounts DEF User
  <2>3. NoPolls(<<Read("events_clear")>>)
    BY DEF NoPolls, PollKinds, Read, Call
  <2> QED
    BY <1>0, <1>s, <2>1, <2>2, <2>3, PageMoves
<1>6. ASSUME ServerChanges PROVE Keeps
  <2>1. server' \in PageServers /\ page' \in RefresherPages /\ UNCHANGED calls
    BY <1>0, <1>6 DEF ServerChanges, Elsewhere, PageServers
  <2>2. Counts
    BY <1>0, <1>6 DEF ServerChanges, Elsewhere, Counts
  <2> QED
    BY <1>0, <2>1, <2>2, PageRests
<1>7. ASSUME EnterPage PROVE Keeps
  <2>1. /\ page' = Refreshed(page) /\ Send(RefreshCalls(page, TRUE))
        /\ active' = TRUE /\ events' = events + 1 /\ UNCHANGED <<panel, server, failures>>
    BY <1>7, <1>p DEF EnterPage
  <2>2. Counts
    BY <1>0, <2>1 DEF Counts
  <2>3. page' \in RefresherPages /\ (Away => NoPolls(RefreshCalls(page, TRUE)))
    BY <1>0, <2>1, RefreshIs DEF Away
  <2>4. RefreshCalls(page, TRUE) \in Seq(RefresherCalls)
    BY <1>0, RefreshIs
  <2> QED
    BY <1>0, <2>1, <2>2, <2>3, <2>4, PageMoves
<1>8. ASSUME LeavePage PROVE Keeps
  <2>1. /\ page' = Stopped(page) /\ UNCHANGED calls
        /\ active' \in BOOLEAN /\ events' = events + 1 /\ UNCHANGED <<panel, server, failures>>
    BY <1>8, <1>p DEF LeavePage, SendNothing
  <2>2. Counts
    BY <1>0, <2>1 DEF Counts
  <2>3. page' \in RefresherPages
    BY <1>0, <2>1 DEF Stopped, RefresherPages
  <2> QED
    BY <1>0, <2>1, <2>2, <2>3, PageRests
<1>9. ASSUME HideOrShow PROVE Keeps
  <2> DEFINE q == [page EXCEPT !.hidden = ~@]
  <2>1. page' = Refreshed(q) /\ Send(RefreshCalls(q, active)) /\ User
    BY <1>9, <1>p DEF HideOrShow
  <2>2. server' \in PageServers /\ active' = active /\ Counts
    BY <1>0, <2>1, UserCounts DEF User
  <2>3. q \in RefresherPages
    BY <1>q
  <2> HIDE DEF q
  <2>4. page' \in RefresherPages /\ (Away => NoPolls(RefreshCalls(q, active)))
    BY <1>p, <2>1, <2>2, <2>3, RefreshIs DEF Away
  <2>5. RefreshCalls(q, active) \in Seq(RefresherCalls)
    BY <2>3, RefreshIs
  <2> QED
    BY <1>0, <2>1, <2>2, <2>4, <2>5, PageMoves
<1>10. ASSUME NEW i \in DOMAIN flights, PageHandles(i) PROVE Keeps
  <2>1. \A ok \in BOOLEAN : PageHandled(flights[i], ok) \in PageServers
    BY <1>0, <1>p DEF PageHandled
  <2> QED
    BY <1>0, <1>10, <2>1, PageServed
<1>11. ASSUME NEW i \in DOMAIN flights, PageFails(i) PROVE Keeps
  <2>1. /\ Mishap
        /\ \/ GiveUp(i, FALSE, Refreshed(page), EventsRefresh(page, active))
           \/ GiveUp(i, FALSE, EventsAgain(page), <<>>)
    BY <1>11, <1>p DEF PageFails
  <2>2. EventsAgain(page) \in RefresherPages /\ Refreshed(page) \in RefresherPages
    BY <1>0, AgainIs, RefreshIs
  <2>3. CASE GiveUp(i, FALSE, Refreshed(page), EventsRefresh(page, active))
    <3>1. Away => NoPolls(EventsRefresh(page, active))
      BY <1>0, <2>3, RefreshIs DEF Away, GiveUp
    <3>2. EventsRefresh(page, active) \in Seq(RefresherCalls)
      BY <1>0, RefreshIs
    <3> QED
      BY <1>0, <1>11, <2>1, <2>2, <2>3, <3>1, <3>2, RefresherCallsAre, PageGivenUp
  <2>4. CASE GiveUp(i, FALSE, EventsAgain(page), <<>>)
    BY <1>0, <1>s, <1>11, <2>1, <2>2, <2>4, NoneIsQuiet, RefresherCallsAre, PageGivenUp
  <2> QED
    BY <2>1, <2>3, <2>4
<1> HIDE DEF Keeps
<1>12. Keeps
  BY <1>1, <1>2, <1>3, <1>4, <1>5, <1>6, <1>7, <1>8, <1>9, <1>10, <1>11, RefreshersOnly
<1> QED
  BY <1>12 DEF Keeps

-----------------------------------------------------------------------------
(* Notifications.                                                          *)

LEMMA NotifyCallsAre ==
  /\ Complete(NotifyCalls)
  /\ \A kind \in {"config", "probe", "current", "test"} : Read(kind) \in NotifyCalls
  /\ \A form \in Shows, flag \in Values : Call("save", <<form, flag>>) \in NotifyCalls
  /\ \A c \in NotifyCalls : /\ c.kind \in {"config", "probe", "current", "test", "save"}
                            /\ c.kind = "save" => c.val[1] \in Shows /\ c.val[2] \in Values
<1>1. Complete(NotifyCalls)
  BY DEF NotifyCalls, Kind, Complete
<1>2. /\ \A kind \in {"config", "probe", "current", "test"} : Read(kind) \in NotifyCalls
      /\ \A form \in Shows, flag \in Values : Call("save", <<form, flag>>) \in NotifyCalls
  BY DEF NotifyCalls, Kind, Read, Call
<1>3. \A c \in NotifyCalls : /\ c.kind \in {"config", "probe", "current", "test", "save"}
                             /\ c.kind = "save" => c.val[1] \in Shows /\ c.val[2] \in Values
  BY DEF NotifyCalls, Kind
<1> QED
  BY <1>1, <1>2, <1>3

\* What is made of the form: a form with changes was loaded, and keeps them.
Still(p, q) == q \in NotifyPages /\ q.form = p.form /\ q.dirty = p.dirty /\ q.loaded = p.loaded

LEMMA NotifyPagesAre ==
  ASSUME NEW p \in NotifyPages
  PROVE  /\ Still(p, NotifyAsked(p)) /\ Still(p, Tested(p)) /\ Still(p, Stopped(p))
         /\ \A b \in BOOLEAN : /\ Still(p, [p EXCEPT !.loading = b]) /\ Still(p, [p EXCEPT !.busy = b])
                               /\ Still(p, [p EXCEPT !.testing = b]) /\ Still(p, [p EXCEPT !.timer = b])
                               /\ Still(p, [p EXCEPT !.hidden = b])
         /\ \A flag \in Values : Still(p, [p EXCEPT !.flag = flag])
<1>1. \A b \in BOOLEAN : /\ Still(p, [p EXCEPT !.loading = b]) /\ Still(p, [p EXCEPT !.busy = b])
                         /\ Still(p, [p EXCEPT !.testing = b]) /\ Still(p, [p EXCEPT !.timer = b])
                         /\ Still(p, [p EXCEPT !.hidden = b])
  BY DEF Still, NotifyPages
<1>2. \A flag \in Values : Still(p, [p EXCEPT !.flag = flag])
  BY DEF Still, NotifyPages, Shows
<1>3. Still(p, NotifyAsked(p)) /\ Still(p, Tested(p)) /\ Still(p, Stopped(p))
  BY DEF Still, NotifyPages, NotifyAsked, Tested, Stopped
<1> QED
  BY <1>1, <1>2, <1>3

LEMMA ApplyIs ==
  ASSUME NEW p \in NotifyPages, NEW snap \in NotifyServers
  PROVE  /\ Apply(p, snap, TRUE) \in NotifyPages /\ Apply(p, snap, TRUE).loaded
         /\ Still(p, Apply(p, snap, FALSE))
BY DEF Apply, Still, NotifyPages, NotifyServers, Shows

LEMMA RefreshNotifyIs ==
  ASSUME NEW p
  PROVE  NotifyRefresh(p) \in Seq(NotifyCalls)
<1>1. <<>> \in Seq(NotifyCalls) /\ <<Read("config")>> \in Seq(NotifyCalls)
  BY SeqsOf, NotifyCallsAre
<1> QED
  BY <1>1 DEF NotifyRefresh

\* What a step makes of the form; only the user and a save change one with edits.
NotifyForm == /\ page'.dirty => page'.loaded
              /\ page.dirty => \/ page'.form = page.form
                               \/ events' > events
                               \/ Reply("save")

LEMMA NotifyStepKeeps ==
  ASSUME PageTypeOK, panel = "notify", ChangedWasLoaded, Next
  PROVE  Fits(NotifyPages, NotifyServers, NotifyCalls)' /\ Counts /\ NotifyForm
<1>0. /\ Fits(NotifyPages, NotifyServers, NotifyCalls)
      /\ page \in NotifyPages /\ server \in NotifyServers /\ (page.dirty => page.loaded)
      /\ active \in BOOLEAN /\ failures \in Nat /\ events \in Nat
      /\ page.loaded \in BOOLEAN /\ page.dirty \in BOOLEAN /\ page.hidden \in BOOLEAN
  BY DEF PageTypeOK, Fits, ChangedWasLoaded, NotifyPages
<1>p. panel \notin Tickers /\ panel \notin Refreshers
  BY DEF Tickers, Refreshers
<1>s. /\ <<>> \in Seq(NotifyCalls)
      /\ \A kind \in {"config", "probe", "current", "test"} : <<Read(kind)>> \in Seq(NotifyCalls)
      /\ \A form \in Shows, flag \in Values : <<Call("save", <<form, flag>>)>> \in Seq(NotifyCalls)
  BY SeqsOf, NotifyCallsAre
<1>k. \A q : Still(page, q) /\ page' = q => page' \in NotifyPages /\ NotifyForm
  BY <1>0 DEF Still, NotifyForm
<1>r. answers # <<>> => /\ Head(answers).snap \in NotifyServers /\ Head(answers).snap.flag \in Values
                        /\ Head(answers).ok \in BOOLEAN
  <2>1. answers # <<>> => Head(answers).snap \in NotifyServers /\ Head(answers).ok \in BOOLEAN
    BY <1>0, ReplyIs
  <2> QED
    BY <2>1 DEF NotifyServers
<1>u. User \/ Page => server' \in NotifyServers /\ Counts
  BY <1>0, UserCounts DEF User, Page
<1> DEFINE Keeps == Fits(NotifyPages, NotifyServers, NotifyCalls)' /\ Counts /\ NotifyForm
<1>1. ASSUME ConfigAnswered PROVE Keeps
  <2>1. answers # <<>> /\ Done(<<Read("probe")>>) /\ Page
    BY <1>1 DEF ConfigAnswered, Reply
  <2> DEFINE q == Apply(page, Head(answers).snap, ~page.loaded)
  <2>2. q \in NotifyPages /\ (page.loaded => Still(page, q)) /\ (~page.loaded => q.loaded)
    <3>1. CASE page.loaded
      <4>1. Still(page, Apply(page, Head(answers).snap, FALSE))
        BY <1>0, <1>r, <2>1, ApplyIs
      <4>2. q = Apply(page, Head(answers).snap, FALSE)
        BY <1>0, <3>1
      <4> QED
        BY <3>1, <4>1, <4>2 DEF Still
    <3>2. CASE ~page.loaded
      <4>1. q = Apply(page, Head(answers).snap, TRUE)
        BY <1>0, <3>2
      <4> QED
        BY <1>0, <1>r, <2>1, <3>2, <4>1, ApplyIs
    <3> QED
      BY <3>1, <3>2
  <2>3. page' = [q EXCEPT !.loading = FALSE]
    BY <1>1 DEF ConfigAnswered
  <2> HIDE DEF q
  <2>4. Still(q, page')
    BY <2>2, <2>3, NotifyPagesAre
  <2>5. page' \in NotifyPages /\ NotifyForm
    BY <1>0, <2>2, <2>4 DEF Still, NotifyForm
  <2> QED
    BY <1>0, <1>s, <1>u, <2>1, <2>5, PageStepFits
<1>2. ASSUME ProbeAnswered PROVE Keeps
  <2>1. answers # <<>> /\ Done(<<>>) /\ Page /\ page' = page
    BY <1>2 DEF ProbeAnswered, Reply
  <2>2. page' \in NotifyPages /\ NotifyForm
    BY <1>0, <2>1 DEF NotifyForm
  <2> QED
    BY <1>0, <1>s, <1>u, <2>1, <2>2, PageStepFits
<1>3. ASSUME CurrentAnswered PROVE Keeps
  <2>1. /\ answers # <<>> /\ Done(<<Call("save", <<page.form, Head(answers).snap.flag>>)>>) /\ Page
        /\ page' = [page EXCEPT !.flag = Head(answers).snap.flag]
    BY <1>3 DEF CurrentAnswered, Reply
  <2>2. page' \in NotifyPages /\ NotifyForm
    BY <1>0, <1>k, <1>r, <2>1, NotifyPagesAre
  <2>3. <<Call("save", <<page.form, Head(answers).snap.flag>>)>> \in Seq(NotifyCalls)
    <3>1. page.form \in Shows
      BY <1>0 DEF NotifyPages
    <3> QED
      BY <1>r, <1>s, <2>1, <3>1
  <2> QED
    BY <1>0, <1>u, <2>1, <2>2, <2>3, PageStepFits
<1>4. ASSUME NotifySaved PROVE Keeps
  <2> DEFINE q == IF Head(answers).ok THEN Apply(page, Head(answers).snap, TRUE) ELSE page
  <2>1. answers # <<>> /\ Done(<<>>) /\ Page /\ Reply("save") /\ page' = [q EXCEPT !.busy = FALSE]
    BY <1>4 DEF NotifySaved, Reply
  <2>2. q \in NotifyPages /\ (q.dirty => q.loaded)
    BY <1>0, <1>r, <2>1, ApplyIs
  <2> HIDE DEF q
  <2>3. Still(q, page')
    BY <2>1, <2>2, NotifyPagesAre
  <2>4. page' \in NotifyPages /\ NotifyForm
    BY <2>1, <2>2, <2>3 DEF Still, NotifyForm
  <2> QED
    BY <1>0, <1>s, <1>u, <2>1, <2>4, PageStepFits
<1>5. ASSUME ChannelTested PROVE Keeps
  <2>1. answers # <<>> /\ Done(NotifyRefresh(page)) /\ Page /\ page' = Tested(page)
    BY <1>5 DEF ChannelTested, Reply
  <2>2. page' \in NotifyPages /\ NotifyForm /\ NotifyRefresh(page) \in Seq(NotifyCalls)
    BY <1>0, <1>k, <2>1, NotifyPagesAre, RefreshNotifyIs
  <2> QED
    BY <1>0, <1>u, <2>1, <2>2, PageStepFits
<1>6. ASSUME NotifyTimerFires PROVE Keeps
  <2>1. Send(NotifyRefresh(page)) /\ Page /\ page' = NotifyAsked(page)
    BY <1>6 DEF NotifyTimerFires
  <2>2. page' \in NotifyPages /\ NotifyForm /\ NotifyRefresh(page) \in Seq(NotifyCalls)
    BY <1>0, <1>k, <2>1, NotifyPagesAre, RefreshNotifyIs
  <2> QED
    BY <1>0, <1>u, <2>1, <2>2, PageStepFits
<1>7. ASSUME Changed PROVE Keeps
  <2>1. /\ User /\ page.loaded /\ UNCHANGED calls
        /\ \E v \in Values : page' = [page EXCEPT !.form = v, !.dirty = TRUE]
    BY <1>7 DEF Changed, SendNothing
  <2>2. page' \in NotifyPages /\ (page'.dirty => page'.loaded)
    BY <1>0, <2>1 DEF NotifyPages, Shows
  <2>3. events' > events
    BY <1>0, <2>1 DEF User
  <2> QED
    BY <1>0, <1>u, <2>1, <2>2, <2>3, QuietStepFits DEF NotifyForm
<1>8. ASSUME SaveNotify PROVE Keeps
  <2>1. User /\ page' = [page EXCEPT !.busy = TRUE] /\ Send(<<Read("current")>>)
    BY <1>8 DEF SaveNotify
  <2>2. page' \in NotifyPages /\ NotifyForm
    BY <1>0, <1>k, <2>1, NotifyPagesAre
  <2> QED
    BY <1>0, <1>s, <1>u, <2>1, <2>2, PageStepFits
<1>9. ASSUME TestChannel PROVE Keeps
  <2>1. User /\ page' = [page EXCEPT !.testing = TRUE] /\ Send(<<Read("test")>>)
    BY <1>9 DEF TestChannel
  <2>2. page' \in NotifyPages /\ NotifyForm
    BY <1>0, <1>k, <2>1, NotifyPagesAre
  <2> QED
    BY <1>0, <1>s, <1>u, <2>1, <2>2, PageStepFits
<1>10. ASSUME OtherPageSaves PROVE Keeps
  <2>1. /\ UNCHANGED <<panel, page, calls, active, failures>> /\ events' = events + 1
        /\ \E v \in Values : server' \in {[server EXCEPT !.form = v], [server EXCEPT !.flag = v]}
    BY <1>10 DEF OtherPageSaves, Elsewhere
  <2>2. server' \in NotifyServers
    BY <1>0, <2>1 DEF NotifyServers, Shows
  <2>3. Fits(NotifyPages, NotifyServers, NotifyCalls)'
    BY <1>0, <2>1, <2>2, QuietStepFits
  <2>4. Counts /\ NotifyForm
    BY <1>0, <2>1 DEF Counts, NotifyForm
  <2> QED
    BY <2>3, <2>4
<1>11. ASSUME EnterPage PROVE Keeps
  <2>1. /\ page' = [NotifyAsked(page) EXCEPT !.timer = TRUE] /\ Send(NotifyRefresh(page))
        /\ active' = TRUE /\ events' = events + 1 /\ UNCHANGED <<panel, server, failures>>
    BY <1>11, <1>p DEF EnterPage
  <2>2. Counts /\ events' > events
    BY <1>0, <2>1 DEF Counts
  <2>3. Still(page, NotifyAsked(page)) /\ NotifyAsked(page) \in NotifyPages
    BY <1>0, NotifyPagesAre DEF Still
  <2>4. Still(NotifyAsked(page), page')
    BY <2>1, <2>3, NotifyPagesAre
  <2>5. page' \in NotifyPages /\ NotifyForm
    BY <1>0, <2>3, <2>4 DEF Still, NotifyForm
  <2>6. NotifyRefresh(page) \in Seq(NotifyCalls)
    BY RefreshNotifyIs
  <2> QED
    BY <1>0, <2>1, <2>2, <2>5, <2>6, PageStepFits
<1>12. ASSUME LeavePage PROVE Keeps
  <2>1. /\ page' = Stopped(page) /\ UNCHANGED calls
        /\ active' \in BOOLEAN /\ events' = events + 1 /\ UNCHANGED <<panel, server, failures>>
    BY <1>12, <1>p DEF LeavePage, SendNothing
  <2>2. Counts
    BY <1>0, <2>1 DEF Counts
  <2>3. page' \in NotifyPages /\ NotifyForm
    BY <1>0, <1>k, <2>1, NotifyPagesAre
  <2> QED
    BY <1>0, <2>1, <2>2, <2>3, QuietStepFits
<1>13. ASSUME HideOrShow PROVE Keeps
  <2>1. page' = [page EXCEPT !.hidden = ~page.hidden] /\ UNCHANGED calls /\ User
    BY <1>13, <1>p DEF HideOrShow, SendNothing
  <2>2. page' \in NotifyPages /\ NotifyForm
    BY <1>0, <1>k, <2>1, NotifyPagesAre
  <2> QED
    BY <1>0, <1>u, <2>1, <2>2, QuietStepFits
<1>14. ASSUME NEW i \in DOMAIN flights, PageHandles(i) PROVE Keeps
  <2>0. flights[i] \in NotifyCalls
    BY <1>0 DEF Fits
  <2>1. \A ok \in BOOLEAN : PageHandled(flights[i], ok) \in NotifyServers
    BY <1>0, <1>p, <2>0, NotifyCallsAre DEF PageHandled, NotifyHandled, NotifyServers
  <2>2. Fits(NotifyPages, NotifyServers, NotifyCalls)' /\ Counts /\ page' = page
    BY <1>0, <1>14, <2>1, PageServed
  <2> QED
    BY <1>0, <2>2 DEF NotifyForm
<1>15. ASSUME NEW i \in DOMAIN flights, PageFails(i) PROVE Keeps
  <2> DEFINE new == CASE flights[i].kind = "config" -> <<Read("probe")>>
                      [] flights[i].kind = "test" -> NotifyRefresh(page) [] OTHER -> <<>>
  <2>1. Mishap /\ GiveUp(i, MayLinger(flights[i]), NotifyFailed(flights[i]), new)
    BY <1>15, <1>p DEF PageFails
  <2>2. new \in Seq(NotifyCalls)
    BY <1>s, RefreshNotifyIs
  <2>3. Still(page, NotifyFailed(flights[i]))
    BY <1>0, NotifyPagesAre DEF NotifyFailed, Still
  <2>4. NotifyFailed(flights[i]) \in NotifyPages
    BY <2>3 DEF Still
  <2>5. Complete(NotifyCalls)
    BY NotifyCallsAre
  <2> HIDE DEF new
  <2>6. Fits(NotifyPages, NotifyServers, NotifyCalls)' /\ UNCHANGED <<panel, server, answers, active>>
    BY <1>0, <1>15, <2>1, <2>2, <2>4, <2>5, FailedStepFits
  <2>7. Counts
    BY <2>1, <2>6, UserCounts
  <2>8. NotifyForm
    BY <1>k, <2>1, <2>3 DEF GiveUp
  <2> QED
    BY <2>6, <2>7, <2>8
<1> HIDE DEF Keeps
<1>16. Keeps
  BY <1>1, <1>2, <1>3, <1>4, <1>5, <1>6, <1>7, <1>8, <1>9, <1>10, <1>11, <1>12, <1>13, <1>14, <1>15,
     NotifyOnly DEF NotifySteps
<1> QED
  BY <1>16 DEF Keeps

-----------------------------------------------------------------------------
(* The monitor.                                                            *)

LEMMA MonitorCallsAre ==
  /\ Complete(MonitorCalls)
  /\ \A p \in MonitorPages : Poll(p) \in MonitorCalls
  /\ \A kind \in {"target", "schedule"}, v \in Values : Call(kind, v) \in MonitorCalls
  /\ \A c \in MonitorCalls : /\ c.kind \in {"telemetry", "target", "schedule"}
                             /\ c.kind # "telemetry" => c.val \in Values
<1>1. Complete(MonitorCalls)
  BY DEF MonitorCalls, Kind, Complete
<1>2. ASSUME NEW p \in MonitorPages PROVE Poll(p) \in MonitorCalls
  <2>1. (IF p.cursor THEN {p.gen} ELSE {}) \in SUBSET Nat
    BY DEF MonitorPages
  <2> QED
    BY <2>1 DEF Poll, Call, MonitorCalls, Kind
<1>3. \A kind \in {"target", "schedule"}, v \in Values : Call(kind, v) \in MonitorCalls
  BY DEF MonitorCalls, Kind, Call
<1>4. \A c \in MonitorCalls : /\ c.kind \in {"telemetry", "target", "schedule"}
                              /\ c.kind # "telemetry" => c.val \in Values
  BY DEF MonitorCalls, Kind
<1> QED
  BY <1>1, <1>2, <1>3, <1>4

\* Its samples are of its target.
OfTarget(p) == p \in MonitorPages /\ p.samples \subseteq {p.gen}

\* The same samples, target and form.
Same(p, q) == /\ q \in MonitorPages /\ q.samples = p.samples /\ q.gen = p.gen
              /\ q.form = p.form /\ q.dirty = p.dirty /\ q.hidden = p.hidden

LEMMA MonitorPagesAre ==
  ASSUME NEW p \in MonitorPages, active \in BOOLEAN
  PROVE  /\ Same(p, Asking(p)) /\ ~Asking(p).timer
         /\ Same(p, Stop(p)) /\ ~Stop(p).timer
         /\ Same(p, PollAgain(p)) /\ (PollAgain(p).timer => Visible(p))
         /\ \A b \in BOOLEAN : /\ Same(p, [p EXCEPT !.saving = b]) /\ [p EXCEPT !.saving = b].timer = p.timer
                               /\ Same(p, [p EXCEPT !.timer = b]) /\ [p EXCEPT !.timer = b].timer = b
         /\ Same(p, Saved(p)) /\ ((p.timer => Visible(p)) => ~Saved(p).timer)
<1>1. /\ Same(p, Asking(p)) /\ ~Asking(p).timer
      /\ Same(p, Stop(p)) /\ ~Stop(p).timer
  BY DEF Same, Asking, Stop, MonitorPages
<1>2. Same(p, PollAgain(p)) /\ (PollAgain(p).timer => Visible(p))
  BY DEF Same, PollAgain, Visible, MonitorPages
<1>3. \A b \in BOOLEAN : /\ Same(p, [p EXCEPT !.saving = b]) /\ [p EXCEPT !.saving = b].timer = p.timer
                         /\ Same(p, [p EXCEPT !.timer = b]) /\ [p EXCEPT !.timer = b].timer = b
  BY DEF Same, MonitorPages
<1>4. Same(p, Saved(p)) /\ ((p.timer => Visible(p)) => ~Saved(p).timer)
  BY DEF Same, Saved, Asking, Visible, MonitorPages
<1> QED
  BY <1>1, <1>2, <1>3, <1>4

\* The reply to a poll, or to a save: the server's samples are of its target.
LEMMA MergeIs ==
  ASSUME NEW p, OfTarget(p), NEW a, a.snap \in MonitorServers
  PROVE  /\ OfTarget(Update(p, a)) /\ Update(p, a).hidden = p.hidden /\ Update(p, a).timer = p.timer
         /\ Update(p, a).dirty = p.dirty
         /\ p.dirty => Update(p, a).form = p.form
<1>1. a.snap.samples \subseteq {a.snap.gen} /\ a.snap.gen \in Nat /\ a.snap.target \in Values
  BY DEF MonitorServers
<1>2. p \in MonitorPages /\ p.samples \subseteq {p.gen}
  BY DEF OfTarget
<1>3. MergeSnapshot(p, a) \subseteq {a.snap.gen}
  BY <1>1, <1>2 DEF MergeSnapshot
<1>4. MergeSnapshot(p, a) \in SUBSET Nat
  BY <1>1, <1>3
<1> QED
  BY <1>1, <1>2, <1>3, <1>4 DEF Update, OfTarget, MonitorPages

LEMMA KeptMoves ==
  ASSUME NEW P, NEW S, NEW C, Fits(P, S, C), page' \in P, server' \in S, NEW new \in Seq(C),
         flights' = Kept(flights) \o new, answers' = Kept(answers), Away => NoPolls(new)
  PROVE  Fits(P, S, C)' /\ Polled(P, C)
<1>1. flights \in Seq(C) /\ answers \in Seq(RepliesTo(C, S))
  BY DEF Fits
<1>2. /\ Kept(flights) \in Seq(C) /\ answers' \in Seq(RepliesTo(C, S))
      /\ Cardinality(PollsAt(Kept(flights))) <= Cardinality(PollsAt(flights))
  BY <1>1, KeptIs
<1>3. flights' \in Seq(C)
  BY <1>2
<1> QED
  BY <1>2, <1>3 DEF Fits, Polled

\* What a step makes of the monitor; only the user and a save change a form
\* with edits.
MonitorForm == /\ page'.timer => active' /\ ~page'.hidden
               /\ page'.samples \subseteq {page'.gen}
               /\ page.dirty => \/ page'.form = page.form
                                \/ events' > events
                                \/ Reply("target")

\* Shown, hidden, or left and shown again.
LEMMA VisibilityIs ==
  ASSUME NEW p, OfTarget(p), active \in BOOLEAN, NEW shown \in BOOLEAN
  PROVE  /\ OfTarget(Visibility(p, shown).next) /\ Visibility(p, shown).next.hidden = p.hidden
         /\ Visibility(p, shown).next.timer => shown
         /\ Visibility(p, shown).calls \in Seq(MonitorCalls)
         /\ ~shown => NoPolls(Visibility(p, shown).calls)
<1>0. p \in MonitorPages
  BY DEF OfTarget
<1>1. CASE p.busy \/ ~shown \/ p.saving
  <2> DEFINE q == [Stop(p) EXCEPT !.timer = p.busy /\ shown]
  <2>1. Visibility(p, shown) = [next |-> q, calls |-> <<>>]
    BY <1>1 DEF Visibility
  <2>2. Stop(p) \in MonitorPages /\ Same(p, Stop(p)) /\ (p.busy /\ shown) \in BOOLEAN
    BY <1>0, MonitorPagesAre DEF Same, MonitorPages
  <2>3. Same(Stop(p), q) /\ q.timer = (p.busy /\ shown)
    <3>1. ASSUME NEW t \in MonitorPages, NEW b \in BOOLEAN
          PROVE  Same(t, [t EXCEPT !.timer = b]) /\ [t EXCEPT !.timer = b].timer = b
      BY <3>1, MonitorPagesAre
    <3> QED
      BY <2>2, <3>1
  <2> HIDE DEF q
  <2>4. OfTarget(q) /\ q.hidden = p.hidden /\ (q.timer => shown)
    BY <2>2, <2>3 DEF Same, OfTarget
  <2> QED
    BY <2>1, <2>4, NoneIsQuiet, SeqsOf
<1>2. CASE ~(p.busy \/ ~shown \/ p.saving)
  <2>1. Visibility(p, shown) = [next |-> Asking(p), calls |-> <<Poll(p)>>]
    BY <1>2 DEF Visibility
  <2>2. Same(p, Asking(p))
    BY <1>0, MonitorPagesAre
  <2>3. <<Poll(p)>> \in Seq(MonitorCalls)
    BY <1>0, MonitorCallsAre, SeqsOf
  <2> QED
    BY <1>2, <2>1, <2>2, <2>3 DEF Same, OfTarget
<1> QED
  BY <1>1, <1>2

LEMMA MonitorStepKeeps ==
  ASSUME PageTypeOK, panel = "monitor", TimerIsSeen, SamplesAreOfTarget, Next
  PROVE  /\ Fits(MonitorPages, MonitorServers, MonitorCalls)' /\ Counts
         /\ Polled(MonitorPages, MonitorCalls) /\ MonitorForm
<1>0. /\ Fits(MonitorPages, MonitorServers, MonitorCalls)
      /\ page \in MonitorPages /\ server \in MonitorServers /\ (page.timer => Visible(page))
      /\ active \in BOOLEAN /\ failures \in Nat /\ events \in Nat
      /\ page.form \in Values /\ OfTarget(page) /\ page.hidden \in BOOLEAN /\ page.dirty \in BOOLEAN
  BY DEF PageTypeOK, Fits, TimerIsSeen, SamplesAreOfTarget, MonitorPages, OfTarget
<1>p. panel \notin Tickers /\ panel \notin Refreshers /\ panel # "notify"
  BY DEF Tickers, Refreshers
<1>s. <<>> \in Seq(MonitorCalls) /\ <<Poll(page)>> \in Seq(MonitorCalls)
  BY <1>0, SeqsOf, MonitorCallsAre
<1>r. answers # <<>> => Head(answers).snap \in MonitorServers /\ Head(answers).ok \in BOOLEAN
  BY <1>0, ReplyIs
<1>u. User \/ Page => server' \in MonitorServers /\ active' = active /\ Counts
  BY <1>0, UserCounts DEF User, Page
<1> DEFINE Keeps == /\ Fits(MonitorPages, MonitorServers, MonitorCalls)' /\ Counts
                    /\ Polled(MonitorPages, MonitorCalls) /\ MonitorForm
<1>1. ASSUME SamplesAnswered PROVE Keeps
  <2> DEFINE q == Update(page, Head(answers))
  <2>1. answers # <<>> /\ Done(<<>>) /\ Page /\ page' = PollAgain(q)
    BY <1>1 DEF SamplesAnswered, Reply
  <2>2. OfTarget(q) /\ (page.dirty => q.form = page.form)
    BY <1>0, <1>r, <2>1, MergeIs
  <2> HIDE DEF q
  <2>3. Same(q, page') /\ (page'.timer => Visible(q)) /\ q \in MonitorPages
    BY <1>0, <2>1, <2>2, MonitorPagesAre DEF OfTarget
  <2>4. page' \in MonitorPages /\ MonitorForm
    BY <1>u, <2>1, <2>2, <2>3 DEF Same, OfTarget, Visible, MonitorForm
  <2> QED
    BY <1>0, <1>s, <1>u, <2>1, <2>4, NoneIsQuiet, PageMoves
<1>2. ASSUME TargetSaved PROVE Keeps
  <2> DEFINE a == Head(answers)
             base == [page EXCEPT !.dirty = @ /\ a.kind # "target"]
             p == IF a.ok THEN Update(base, a) ELSE page
  <2>1. /\ answers # <<>> /\ Done(SavedCalls(p)) /\ Page /\ page' = Saved(p)
        /\ a.kind \in {"target", "schedule"}
    BY <1>2 DEF TargetSaved, Reply
  <2>2. /\ OfTarget(base) /\ base.hidden = page.hidden /\ base.timer = page.timer /\ base.form = page.form
        /\ base.dirty = (page.dirty /\ a.kind # "target")
    BY <1>0 DEF OfTarget, MonitorPages
  <2>3. a.snap \in MonitorServers /\ a.ok \in BOOLEAN
    BY <1>r, <2>1
  <2>r. a.kind = "target" => Reply("target")
    BY <2>1 DEF Reply
  <2> HIDE DEF a, base
  <2>4. /\ OfTarget(p) /\ p.hidden = page.hidden /\ p.timer = page.timer
        /\ page.dirty /\ a.kind # "target" => p.form = page.form
    <3>1. /\ OfTarget(Update(base, a)) /\ Update(base, a).hidden = base.hidden
          /\ Update(base, a).timer = base.timer
          /\ base.dirty => Update(base, a).form = base.form
      BY <2>2, <2>3, MergeIs
    <3> QED
      BY <1>0, <2>2, <2>3, <3>1
  <2> HIDE DEF p
  <2>5. p \in MonitorPages /\ (p.timer => Visible(p))
    BY <1>0, <2>4 DEF OfTarget, Visible
  <2>6. Same(p, page') /\ ~page'.timer
    BY <1>0, <2>1, <2>5, MonitorPagesAre
  <2>7. page' \in MonitorPages /\ MonitorForm /\ page'.hidden = page.hidden
    BY <1>0, <2>1, <2>4, <2>6, <2>r DEF Same, OfTarget, MonitorForm
  <2>8. SavedCalls(p) \in Seq(MonitorCalls) /\ (Away => NoPolls(SavedCalls(p)))
    <3>1. <<Poll(p)>> \in Seq(MonitorCalls)
      BY <2>5, SeqsOf, MonitorCallsAre
    <3> QED
      BY <1>s, <1>u, <2>1, <2>4, <2>7, <3>1, NoneIsQuiet DEF SavedCalls, Visible, Away
  <2> QED
    BY <1>0, <1>u, <2>1, <2>7, <2>8, PageMoves
<1>3. ASSUME MonitorTimerFires PROVE Keeps
  <2>1. page.timer /\ page' = Asking(page) /\ Send(<<Poll(page)>>) /\ Page
    BY <1>3 DEF MonitorTimerFires
  <2>2. Same(page, page') /\ ~page'.timer
    BY <1>0, <2>1, MonitorPagesAre
  <2>3. page' \in MonitorPages /\ MonitorForm /\ ~Away
    BY <1>0, <1>p, <1>u, <2>1, <2>2 DEF Same, OfTarget, Visible, MonitorForm, Away
  <2> QED
    BY <1>0, <1>s, <1>u, <2>1, <2>3, PageMoves
<1>4. ASSUME EditTarget PROVE Keeps
  <2>1. User /\ UNCHANGED calls /\ \E v \in Values : page' = [page EXCEPT !.form = v, !.dirty = TRUE]
    BY <1>4 DEF EditTarget, SendNothing
  <2>2. /\ page' \in MonitorPages /\ page'.samples = page.samples /\ page'.gen = page.gen
        /\ page'.timer = page.timer /\ page'.hidden = page.hidden
    BY <1>0, <2>1 DEF MonitorPages
  <2>3. events' > events
    BY <1>0, <2>1 DEF User
  <2>4. MonitorForm
    BY <1>0, <1>u, <2>1, <2>2, <2>3 DEF OfTarget, Visible, MonitorForm
  <2> QED
    BY <1>0, <1>u, <2>1, <2>2, <2>4, PageRests
<1>5. ASSUME SaveTarget PROVE Keeps
  <2>1. /\ User /\ page' = [Stop(page) EXCEPT !.saving = TRUE] /\ answers' = Kept(answers)
        /\ \E kind \in {"target", "schedule"} : flights' = Append(Kept(flights), Call(kind, page.form))
    BY <1>5 DEF SaveTarget
  <2>2. PICK kind \in {"target", "schedule"} : flights' = Append(Kept(flights), Call(kind, page.form))
    BY <2>1
  <2>3. Call(kind, page.form) \in MonitorCalls /\ Kept(flights) \in Seq(MonitorCalls)
    BY <1>0, MonitorCallsAre, KeptIs DEF Fits
  <2>4. /\ flights' = Kept(flights) \o <<Call(kind, page.form)>>
        /\ <<Call(kind, page.form)>> \in Seq(MonitorCalls)
    BY <2>2, <2>3
  <2>5. NoPolls(<<Call(kind, page.form)>>)
    BY DEF NoPolls, PollKinds, Call
  <2>6. Same(page, Stop(page)) /\ ~Stop(page).timer /\ Stop(page) \in MonitorPages
    BY <1>0, MonitorPagesAre DEF Same
  <2>7. Same(Stop(page), page') /\ page'.timer = Stop(page).timer
    BY <1>0, <2>1, <2>6, MonitorPagesAre
  <2>8. page' \in MonitorPages /\ MonitorForm
    BY <1>0, <2>6, <2>7 DEF Same, OfTarget, MonitorForm
  <2> QED
    BY <1>0, <1>u, <2>1, <2>4, <2>5, <2>8, KeptMoves
<1>6. ASSUME Sampled PROVE Keeps
  <2>1. /\ server' = [server EXCEPT !.samples = {server.gen}]
        /\ UNCHANGED <<panel, page, calls, active, bounds>>
    BY <1>6 DEF Sampled
  <2>2. server' \in MonitorServers
    BY <1>0, <2>1 DEF MonitorServers
  <2>3. Counts
    BY <2>1, UserCounts
  <2>4. MonitorForm /\ page' \in MonitorPages
    BY <1>0, <2>1 DEF OfTarget, Visible, MonitorForm
  <2> QED
    BY <1>0, <2>1, <2>2, <2>3, <2>4, PageRests
<1>7. ASSUME EnterPage PROVE Keeps
  <2> DEFINE v == Visibility(page, ~page.hidden)
  <2>1. /\ page' = v.next /\ flights' = Kept(flights) \o v.calls /\ answers' = Kept(answers)
        /\ active' = TRUE /\ events' = events + 1 /\ UNCHANGED <<panel, server, failures>>
    BY <1>7, <1>p DEF EnterPage
  <2>2. /\ OfTarget(v.next) /\ v.next.hidden = page.hidden /\ (v.next.timer => ~page.hidden)
        /\ v.calls \in Seq(MonitorCalls) /\ (page.hidden => NoPolls(v.calls))
    BY <1>0, VisibilityIs
  <2> HIDE DEF v
  <2>3. Counts /\ events' > events
    BY <1>0, <2>1 DEF Counts
  <2>4. page' \in MonitorPages /\ MonitorForm
    BY <2>1, <2>2, <2>3 DEF OfTarget, MonitorForm
  <2>5. Away => NoPolls(v.calls)
    BY <2>1, <2>2 DEF Away
  <2> QED
    BY <1>0, <2>1, <2>2, <2>3, <2>4, <2>5, KeptMoves
<1>8. ASSUME LeavePage PROVE Keeps
  <2>1. /\ page' = Stop(page) /\ flights' = Kept(flights) /\ answers' = Kept(answers)
        /\ active' \in BOOLEAN /\ events' = events + 1 /\ UNCHANGED <<panel, server, failures>>
    BY <1>8, <1>p DEF LeavePage
  <2>2. Counts
    BY <1>0, <2>1 DEF Counts
  <2>3. Same(page, page') /\ ~page'.timer
    BY <1>0, <2>1, MonitorPagesAre
  <2>4. page' \in MonitorPages /\ MonitorForm
    BY <1>0, <2>3 DEF Same, OfTarget, MonitorForm
  <2>5. flights' = Kept(flights) \o <<>>
    <3>1. Kept(flights) \in Seq(MonitorCalls)
      BY <1>0, KeptIs DEF Fits
    <3> QED
      BY <2>1, <3>1
  <2> QED
    BY <1>0, <1>s, <2>1, <2>2, <2>4, <2>5, NoneIsQuiet, KeptMoves
<1>9. ASSUME HideOrShow PROVE Keeps
  <2> DEFINE q == [page EXCEPT !.hidden = ~@]
             v == Visibility(q, Visible(q))
  <2>1. /\ User
        /\ page' = v.next /\ flights' = Kept(flights) \o v.calls /\ answers' = Kept(answers)
    BY <1>9, <1>p DEF HideOrShow
  <2>2. OfTarget(q) /\ Visible(q) \in BOOLEAN /\ (Visible(q) => active /\ ~q.hidden)
    BY <1>0 DEF OfTarget, MonitorPages, Visible
  <2> HIDE DEF q
  <2>3. /\ OfTarget(v.next) /\ v.next.hidden = q.hidden /\ (v.next.timer => Visible(q))
        /\ v.calls \in Seq(MonitorCalls) /\ (~Visible(q) => NoPolls(v.calls))
    BY <1>0, <2>2, VisibilityIs
  <2> HIDE DEF v
  <2>4. Counts /\ events' > events /\ active' = active /\ server' \in MonitorServers
    BY <1>0, <1>u, <2>1 DEF User
  <2>5. page' \in MonitorPages /\ MonitorForm
    BY <2>1, <2>2, <2>3, <2>4 DEF OfTarget, MonitorForm
  <2>6. Away => NoPolls(v.calls)
    BY <1>p, <2>1, <2>2, <2>3, <2>4 DEF Away, Visible
  <2> QED
    BY <1>0, <2>1, <2>3, <2>4, <2>5, <2>6, KeptMoves
<1>10. ASSUME NEW i \in DOMAIN flights, PageHandles(i) PROVE Keeps
  <2>0. flights[i] \in MonitorCalls
    BY <1>0 DEF Fits
  <2>1. \A ok \in BOOLEAN : PageHandled(flights[i], ok) \in MonitorServers
    <3>1. server.gen + 1 \in Nat
      BY <1>0 DEF MonitorServers
    <3>2. flights[i].kind = "target" => flights[i].val \in Values
      BY <2>0, MonitorCallsAre
    <3> QED
      BY <1>0, <1>p, <3>1, <3>2 DEF PageHandled, MonitorHandled, MonitorServers
  <2>2. /\ Fits(MonitorPages, MonitorServers, MonitorCalls)' /\ Counts
        /\ Polled(MonitorPages, MonitorCalls) /\ UNCHANGED <<page, active>>
    BY <1>0, <1>10, <2>1, PageServed
  <2>3. MonitorForm
    BY <1>0, <2>2 DEF OfTarget, Visible, MonitorForm
  <2> QED
    BY <2>2, <2>3
<1>11. ASSUME NEW i \in DOMAIN flights, PageFails(i) PROVE Keeps
  <2>1. /\ Mishap
        /\ \/ GiveUp(i, FALSE, PollAgain(page), <<>>)
           \/ GiveUp(i, TRUE, Saved(page), SavedCalls(page))
    BY <1>11, <1>p DEF PageFails
  <2>2. /\ Same(page, PollAgain(page)) /\ (PollAgain(page).timer => Visible(page))
        /\ Same(page, Saved(page)) /\ ~Saved(page).timer
    BY <1>0, MonitorPagesAre
  <2>3. PollAgain(page) \in MonitorPages /\ Saved(page) \in MonitorPages
    BY <2>2 DEF Same
  <2>4. page' \in {PollAgain(page), Saved(page)} /\ active' = active
    BY <2>1 DEF GiveUp
  <2>5. MonitorForm
    BY <1>0, <2>2, <2>4 DEF Same, OfTarget, Visible, MonitorForm
  <2>6. CASE GiveUp(i, FALSE, PollAgain(page), <<>>)
    BY <1>0, <1>s, <1>11, <2>1, <2>3, <2>5, <2>6, NoneIsQuiet, MonitorCallsAre, PageGivenUp
  <2>7. CASE GiveUp(i, TRUE, Saved(page), SavedCalls(page))
    <3>1. SavedCalls(page) \in Seq(MonitorCalls)
      BY <1>s DEF SavedCalls
    <3>2. Away => NoPolls(SavedCalls(page))
      BY <1>0, <2>2, <2>4, <2>7, NoneIsQuiet DEF GiveUp, Same, SavedCalls, Visible, Away
    <3> QED
      BY <1>0, <1>11, <2>1, <2>3, <2>5, <2>7, <3>1, <3>2, MonitorCallsAre, PageGivenUp
  <2> QED
    BY <2>1, <2>6, <2>7
<1> HIDE DEF Keeps
<1>12. Keeps
  BY <1>1, <1>2, <1>3, <1>4, <1>5, <1>6, <1>7, <1>8, <1>9, <1>10, <1>11, MonitorOnly DEF MonitorSteps
<1> QED
  BY <1>12 DEF Keeps

-----------------------------------------------------------------------------
(* The router.                                                             *)

\* A browser at one of its addresses.
At(b) == b \in RouterServers /\ b.at \in DOMAIN b.history

LEMMA PushedIs ==
  ASSUME NEW b, At(b), NEW v \in Addresses
  PROVE  /\ At(Pushed(b, v)) /\ Address(Pushed(b, v)) = v
         /\ Pushed(b, v).follows = b.follows /\ Pushed(b, v).switches = b.switches
<1> DEFINE h == SubSeq(b.history, 1, b.at)
           k == Append(h, v)
<1>1. b.history \in Seq(Addresses) /\ b.at \in Nat /\ b.at \in 1..Len(b.history) /\ b \in RouterServers
  BY DEF At, RouterServers
<1>2. h \in Seq(Addresses) /\ Len(h) = b.at
  BY <1>1
<1> HIDE DEF h
<1>3. k \in Seq(Addresses) /\ b.at + 1 \in DOMAIN k /\ k[b.at + 1] = v /\ b.at + 1 \in Nat
  BY <1>1, <1>2
<1>4. Pushed(b, v) = [b EXCEPT !.history = k, !.at = b.at + 1]
  BY DEF Pushed, h
<1> HIDE DEF k
<1>5. /\ Pushed(b, v) \in RouterServers /\ Pushed(b, v).at = b.at + 1 /\ Pushed(b, v).history = k
      /\ Pushed(b, v).follows = b.follows /\ Pushed(b, v).switches = b.switches
  BY <1>1, <1>3, <1>4 DEF RouterServers
<1> QED
  BY <1>3, <1>5 DEF At, Address

LEMMA ReplacedIs ==
  ASSUME NEW b, At(b), NEW v \in Addresses
  PROVE  /\ At(Replaced(b, v)) /\ Address(Replaced(b, v)) = v
         /\ Replaced(b, v).follows = b.follows /\ Replaced(b, v).switches = b.switches
<1> DEFINE k == [b.history EXCEPT ![b.at] = v]
<1>1. b.history \in Seq(Addresses) /\ b.at \in DOMAIN b.history /\ b \in RouterServers
  BY DEF At, RouterServers
<1>2. k \in Seq(Addresses) /\ DOMAIN k = DOMAIN b.history /\ k[b.at] = v
  BY <1>1
<1>3. Replaced(b, v) = [b EXCEPT !.history = k]
  BY DEF Replaced
<1> HIDE DEF k
<1>4. /\ Replaced(b, v) \in RouterServers /\ Replaced(b, v).at = b.at /\ Replaced(b, v).history = k
      /\ Replaced(b, v).follows = b.follows /\ Replaced(b, v).switches = b.switches
  BY <1>1, <1>2, <1>3 DEF RouterServers
<1> QED
  BY <1>1, <1>2, <1>4 DEF At, Address

LEMMA UpdatedIs ==
  ASSUME NEW b, At(b), NEW v \in Views, NEW replace \in BOOLEAN
  PROVE  /\ At(UpdateAddressHash(b, v, replace)) /\ Address(UpdateAddressHash(b, v, replace)) = v
         /\ UpdateAddressHash(b, v, replace).follows = b.follows
         /\ UpdateAddressHash(b, v, replace).switches = b.switches
<1>1. v \in Addresses
  BY DEF Addresses
<1> QED
  BY <1>1, PushedIs, ReplacedIs DEF UpdateAddressHash

LEMMA ShowingIs ==
  ASSUME page \in RouterPages, NEW v \in Views
  PROVE  Showing(v) \in RouterPages /\ Showing(v).view = v
<1>1. GroupOf[v] \in Range(GroupOf)
  BY GroupsAssumption DEF Range
<1> QED
  BY <1>1 DEF Showing, RouterPages

\* A page that is shown by the page itself: its address is that of its view.
LEMMA ShowFits ==
  ASSUME page \in RouterPages, At(server), server.switches <= 1, NEW v \in Views, ShowPage(v)
  PROVE  /\ page' \in RouterPages /\ At(server)' /\ server'.switches <= 1 /\ AddressFits'
         /\ UNCHANGED <<panel, calls, active, failures>>
<1>1. /\ page' = Showing(v) /\ server' = UpdateAddressHash(server, v, FALSE)
      /\ UNCHANGED <<panel, calls, active, failures>>
  BY DEF ShowPage
<1>2. page' \in RouterPages /\ page'.view = v
  BY <1>1, ShowingIs
<1>3. At(server') /\ Address(server') = v /\ server'.switches = server.switches
  BY <1>1, UpdatedIs
<1> QED
  BY <1>1, <1>2, <1>3 DEF AddressFits

LEMMA FollowFits ==
  ASSUME page \in RouterPages, At(server), server.switches <= 1,
         AddressFits \/ (server.follows = 2 /\ server.switches = 0), FollowAddress
  PROVE  /\ page' \in RouterPages /\ At(server)' /\ server'.switches <= 1 /\ AddressFits'
         /\ UNCHANGED <<panel, calls, active, bounds>>
<1> DEFINE hash == Address(server)
           v == NormalizeView(hash)
           b == [server EXCEPT !.follows = @ - 1]
<1>1. /\ server.follows > 0 /\ UNCHANGED <<panel, calls, active, bounds>>
      /\ v = page.view => page' = page /\ server' = Corrected(b, hash)
      /\ v # page.view => /\ page' = Showing(v)
                          /\ server' = [(IF hash = v THEN b ELSE UpdateAddressHash(b, v, TRUE))
                                          EXCEPT !.switches = @ + 1]
  BY DEF FollowAddress
<1>2. /\ server \in RouterServers /\ server.at \in DOMAIN server.history
      /\ server.follows - 1 \in 0..2 /\ server.switches \in Nat
  BY <1>1 DEF At, RouterServers
<1>3. At(b) /\ Address(b) = hash /\ b.switches = server.switches
  BY <1>2 DEF At, RouterServers, Address
<1>4. v \in Views /\ (hash \in Views => v = hash) /\ (hash \notin Views => v = "dashboard")
      /\ page.view \in Views
  BY ViewsAssumption DEF NormalizeView, RouterPages
<1>7. AddressFits => hash = page.view \/ (hash = "" /\ page.view = "dashboard")
  BY DEF AddressFits
<1> HIDE DEF hash, v, b
<1>5. CASE v = page.view
  <2>1. page' = page /\ server' = Corrected(b, hash)
    BY <1>1, <1>5
  <2>2. CASE hash \notin {"", page.view}
    <3>1. page.view \in Addresses /\ server' = Replaced(b, page.view)
      BY <1>4, <2>1, <2>2 DEF Addresses, Corrected
    <3>2. At(server') /\ Address(server') = page.view /\ server'.switches = b.switches
      BY <1>3, <3>1, ReplacedIs
    <3> QED
      BY <1>1, <1>3, <2>1, <3>2 DEF AddressFits
  <2>3. CASE hash \in {"", page.view}
    <3>1. server' = b
      BY <2>1, <2>3 DEF Corrected
    <3>2. hash = page.view \/ (hash = "" /\ page.view = "dashboard")
      BY <1>4, <1>5, <2>3, ViewsAssumption
    <3> QED
      BY <1>1, <1>3, <2>1, <3>1, <3>2 DEF AddressFits
  <2> QED
    BY <2>2, <2>3
<1>6. CASE v # page.view
  <2> DEFINE c == IF hash = v THEN b ELSE UpdateAddressHash(b, v, TRUE)
  <2>1. At(c) /\ Address(c) = v /\ c.switches = server.switches
    <3>1. CASE hash = v
      BY <1>3, <3>1
    <3>2. CASE hash # v
      BY <1>3, <1>4, <3>2, UpdatedIs
    <3> QED
      BY <3>1, <3>2
  <2>2. page' = Showing(v) /\ server' = [c EXCEPT !.switches = @ + 1]
    BY <1>1, <1>6
  <2> HIDE DEF c
  <2>3. server.switches = 0
    <3>1. hash # page.view
      BY <1>4, <1>6
    <3>2. page.view = "dashboard" => hash \in Views
      BY <1>4, <1>6
    <3>3. "" \notin Views
      BY ViewsAssumption
    <3>4. ~(hash = "" /\ page.view = "dashboard")
      BY <3>2, <3>3
    <3> QED
      BY <1>7, <3>1, <3>4
  <2>4. At(server') /\ Address(server') = v /\ server'.switches = 1
    <3>1. c \in RouterServers /\ c.at \in DOMAIN c.history /\ c.switches = 0 /\ 1 \in Nat /\ 0 + 1 = 1
      BY <2>1, <2>3 DEF At
    <3>2. /\ server' \in RouterServers /\ server'.switches = 1
          /\ server'.at = c.at /\ server'.history = c.history
      BY <2>2, <3>1 DEF RouterServers
    <3> QED
      BY <2>1, <3>1, <3>2 DEF At, Address
  <2>5. page' \in RouterPages /\ page'.view = v
    BY <1>4, <2>2, ShowingIs
  <2>6. AddressFits'
    <3>1. Address(server') = page'.view
      BY <2>4, <2>5
    <3> QED
      BY <3>1 DEF AddressFits
  <2> QED
    BY <1>1, <2>4, <2>5, <2>6
<1> QED
  BY <1>5, <1>6

LEMMA RouterStepKeeps ==
  ASSUME PageTypeOK, panel = "router", RouterInv, Next
  PROVE  Fits(RouterPages, RouterServers, {})' /\ Counts /\ RouterInv'
<1>0. /\ Fits(RouterPages, RouterServers, {}) /\ page \in RouterPages
      /\ At(server) /\ server.switches <= 1
      /\ AddressFits \/ (server.follows = 2 /\ server.switches = 0)
      /\ active \in BOOLEAN /\ failures \in Nat /\ events \in Nat
  BY DEF PageTypeOK, Fits, RouterInv, At
<1>1. ASSUME NEW v \in Views, ShowPage(v), events' = events + 1
      PROVE  Fits(RouterPages, RouterServers, {})' /\ Counts /\ RouterInv'
  <2>1. /\ page' \in RouterPages /\ At(server)' /\ server'.switches <= 1 /\ AddressFits'
        /\ UNCHANGED <<panel, calls, active, failures>>
    BY <1>0, <1>1, ShowFits
  <2>2. Counts
    BY <1>0, <1>1, <2>1 DEF Counts
  <2>3. Fits(RouterPages, RouterServers, {})'
    BY <1>0, <2>1, QuietStepFits DEF At
  <2> QED
    BY <2>1, <2>2, <2>3 DEF RouterInv, At
<1>2. CASE ClickLink
  BY <1>1, <1>2 DEF ClickLink, RouterEvent
<1>3. CASE ShowGroup
  <2>1. PICK g \in Range(GroupOf) :
          ShowPage(IF page.last[g] # Unknown THEN page.last[g] ELSE CHOOSE v \in Views : GroupOf[v] = g)
    BY <1>3 DEF ShowGroup
  <2>2. (CHOOSE v \in Views : GroupOf[v] = g) \in Views
    <3>1. \E v \in Views : GroupOf[v] = g
      BY GroupsAssumption DEF Range
    <3> QED
      BY <3>1
  <2>3. page.last[g] # Unknown => page.last[g] \in Views
    BY <1>0 DEF RouterPages
  <2>4. \E v \in Views : ShowPage(v)
    BY <2>1, <2>2, <2>3
  <2> QED
    BY <1>1, <1>3, <2>4 DEF ShowGroup, RouterEvent
<1>4. CASE AddressChanges
  <2>1. PICK b \in {[server EXCEPT !.at = i] : i \in DOMAIN server.history}
                     \union {Pushed(server, hash) : hash \in Addresses} :
          server' = [b EXCEPT !.follows = 2, !.switches = 0]
    BY <1>4 DEF AddressChanges
  <2>2. UNCHANGED <<panel, page, calls, active, failures>> /\ events' = events + 1
    BY <1>4 DEF AddressChanges, RouterEvent
  <2>3. At(b)
    <3>1. ASSUME NEW i \in DOMAIN server.history, b = [server EXCEPT !.at = i] PROVE At(b)
      <4>1. i \in Nat
        BY <1>0 DEF At, RouterServers
      <4> QED
        BY <1>0, <3>1, <4>1 DEF At, RouterServers
    <3> QED
      BY <1>0, <2>1, <3>1, PushedIs
  <2>4. At(server') /\ server'.follows = 2 /\ server'.switches = 0
    <3>1. b \in RouterServers /\ b.at \in DOMAIN b.history /\ 2 \in 0..2 /\ 0 \in Nat
      BY <2>3 DEF At
    <3>2. server' \in RouterServers /\ server'.at = b.at /\ server'.history = b.history
      BY <2>1, <3>1 DEF RouterServers
    <3>3. server'.follows = 2 /\ server'.switches = 0
      BY <2>1, <3>1 DEF RouterServers
    <3> QED
      BY <3>1, <3>2, <3>3 DEF At
  <2>5. Fits(RouterPages, RouterServers, {})'
    BY <1>0, <2>2, <2>4, QuietStepFits DEF At
  <2>6. Counts
    BY <1>0, <2>2 DEF Counts
  <2> QED
    BY <2>4, <2>5, <2>6 DEF RouterInv, At
<1>5. CASE FollowAddress
  <2>1. /\ page' \in RouterPages /\ At(server)' /\ server'.switches <= 1 /\ AddressFits'
        /\ UNCHANGED <<panel, calls, active, bounds>>
    BY <1>0, <1>5, FollowFits
  <2>2. Fits(RouterPages, RouterServers, {})'
    BY <1>0, <2>1, QuietStepFits DEF At
  <2>3. Counts
    BY <2>1, UserCounts
  <2> QED
    BY <2>1, <2>2, <2>3 DEF RouterInv, At
<1>6. DOMAIN flights = {}
  <2>1. flights \in Seq({})
    BY <1>0 DEF Fits
  <2> QED
    BY <2>1
<1> QED
  BY <1>2, <1>3, <1>4, <1>5, <1>6, RouterOnly

\* What is typed into the watchdog's form stays, but for what the user does and
\* the answer to the save.
LEMMA WatchdogEdits ==
  ASSUME PageTypeOK, panel = "watchdog", page.dirty, Next
  PROVE  page'.form = page.form \/ events' > events \/ Reply("watchdog_save")
<1>0. /\ Fits(WatchdogPages, WatchdogServers, WatchdogCalls)
      /\ page \in WatchdogPages /\ active \in BOOLEAN /\ events \in Nat
  BY DEF PageTypeOK, Fits
<1>1. CASE User \/ events' = events + 1
  BY <1>0, <1>1 DEF User
<1>2. CASE WatchdogTimerFires
  <2>1. CASE page' = WatchdogLoad(page)
    BY <1>0, <2>1, WatchdogForms
  <2>2. CASE page.strays > 0 /\ page' = WatchdogLoad([page EXCEPT !.strays = @ - 1])
    <3>1. page.strays - 1 \in Nat
      BY <1>0, <2>2 DEF WatchdogPages
    <3>2. [page EXCEPT !.strays = @ - 1] \in WatchdogPages /\ [page EXCEPT !.strays = @ - 1].form = page.form
      BY <1>0, <3>1 DEF WatchdogPages
    <3> QED
      BY <1>0, <2>2, <3>2, WatchdogForms
  <2> QED
    BY <1>2, <2>1, <2>2 DEF WatchdogTimerFires
<1>3. CASE WatchdogLoaded
  <2>1. page' = FollowOn(page)
    BY <1>3 DEF WatchdogLoaded, FormLoaded
  <2> QED
    BY <1>0, <2>1, WatchdogForms
<1>4. CASE WatchdogSaved
  BY <1>4 DEF WatchdogSaved
<1>5. ASSUME NEW i \in DOMAIN flights, SettingsHandles(i) PROVE page' = page
  BY <1>5 DEF SettingsHandles, Handle
<1>6. ASSUME NEW i \in DOMAIN flights, SettingsFails(i) PROVE events' = events + 1
  BY <1>6 DEF SettingsFails, Mishap
<1> QED
  BY <1>1, <1>2, <1>3, <1>4, <1>5, <1>6, WatchdogOnly
     DEF WatchdogStep, WatchdogAnswer, WatchdogEdit, WatchdogSave, TabSwitched,
         OtherBrowserSaves, EnterSettings, LeaveSettings

-----------------------------------------------------------------------------
(* How a panel begins.                                                     *)

LEMMA BeginsFitting ==
  ASSUME NEW P, NEW S, NEW C, page \in P, server \in S, flights \in Seq(C), answers = <<>>
  PROVE  Fits(P, S, C)
BY DEF Fits

LEMMA PairIs ==
  ASSUME NEW a, NEW b
  PROVE  LET s == <<a>> \o <<b>> IN
         DOMAIN s = 1..2 /\ s[1] = a /\ s[2] = b /\ \A i \in 1..2 : i = 1 \/ i = 2
OBVIOUS

LEMMA SmallNumbers == 1 \in Nat /\ 0 \in Nat /\ 0 \in 0..2 /\ 0 <= 1
OBVIOUS

LEMMA OneOf ==
  ASSUME NEW S, NEW s \in [1..1 -> S]
  PROVE  s \in Seq(S) /\ 1 \in DOMAIN s
<1>1. [1..1 -> S] \in {[1..n -> S] : n \in Nat}
  BY SmallNumbers
<1>2. 1 \in DOMAIN s
  OBVIOUS
<1> QED
  BY <1>1, <1>2, SeqDef

LEMMA SettingsBegin ==
  ASSUME ValuesAssumption, SettingsInit
  PROVE  PageInv
<1>1. /\ panel \in SettingsPanels /\ panel \notin SmallPanels
      /\ answers = <<>> /\ active = TRUE /\ failures = 0 /\ events = 0
  BY DEF SettingsInit, SettingsPanels, SmallPanels, Polling, Tickers, Refreshers
<1>2. ASSUME panel = "network"
      PROVE  /\ page = NetworkPage /\ server = NetworkServer
             /\ flights = InitCalls(page)
  BY <1>2 DEF SettingsInit
<1>3. ASSUME panel = "network"
      PROVE  Fits(NetworkPages, NetworkServers, NetworkCalls) /\ NothingFailed /\ NetworkInv
  <2>0. flights = <<Read("status")>> \o <<Read("ttl")>>
    <3>1. page.rebooted
      BY <1>2, <1>3 DEF NetworkPage
    <3> QED
      BY <1>2, <1>3, <3>1 DEF InitCalls, FetchCurrentSettings
  <2>1. page \in NetworkPages /\ server \in NetworkServers
    <3>1. NetworkPage \in NetworkPages
      BY DEF NetworkPage, NetworkPages, Shows
    <3>2. NetworkServer \in NetworkServers
      BY ValuesAssumption DEF NetworkServer, NetworkServers
    <3> QED
      BY <1>2, <1>3, <3>1, <3>2
  <2>2. flights \in Seq(NetworkCalls)
    <3>1. Read("status") \in NetworkCalls /\ Read("ttl") \in NetworkCalls
      BY NetworkCallsAre, ValuesAssumption DEF Own
    <3>2. <<Read("status")>> \in Seq(NetworkCalls) /\ <<Read("ttl")>> \in Seq(NetworkCalls)
      BY <3>1, SeqsOf
    <3> QED
      BY <2>0, <3>2
  <2>3. /\ DOMAIN flights = 1..2 /\ flights[1] = Read("status") /\ flights[2] = Read("ttl")
        /\ \A i \in 1..2 : i = 1 \/ i = 2
    BY <2>0, PairIs
  <2>7. flights[1].kind = "status" /\ flights[2].kind = "ttl" /\ ~flights[1].orphan /\ ~flights[2].orphan
    BY <2>3 DEF Read, Call
  <2>4. SetAgrees /\ TtlAgrees
    BY <2>3, <2>7 DEF SetAgrees, Rereads, TtlAgrees, RereadsTtl, UnderWay
  <2>5. JobIsCovered
    BY <1>2, <1>3 DEF JobIsCovered, NetworkPage, NetworkServer
  <2>6. NothingFailed
    BY <1>1, <2>3, <2>7 DEF NothingFailed
  <2> QED
    BY <1>1, <2>1, <2>2, <2>4, <2>5, <2>6, BeginsFitting DEF NetworkInv
<1>4. ASSUME panel = "watchdog"
      PROVE  Fits(WatchdogPages, WatchdogServers, WatchdogCalls) /\ NothingFailed /\ WatchdogInv
  <2>1. page = WatchdogPage /\ server = WatchdogServer /\ flights = <<Read("watchdog")>>
    BY <1>4 DEF SettingsInit
  <2>2. page \in WatchdogPages /\ server \in WatchdogServers
    BY <2>1, ValuesAssumption DEF WatchdogPage, WatchdogServer, WatchdogPages, WatchdogServers, Shows
  <2>3. flights \in Seq(WatchdogCalls)
    <3>1. Read("watchdog") \in WatchdogCalls
      BY WatchdogCallsAre DEF Own
    <3> QED
      BY <2>1, <3>1, SeqsOf
  <2>4. UnderWay({"watchdog"}) /\ NothingFailed
    BY <1>1, <2>1 DEF UnderWay, NothingFailed, Read, Call
  <2>5. Says({"watchdog", "watchdog_save"}, "settings", server.settings)
    BY <1>1 DEF Says
  <2> QED
    BY <1>1, <2>2, <2>3, <2>4, <2>5, BeginsFitting DEF WatchdogInv
<1>5. ASSUME panel = "update" PROVE Fits(UpdatePages, UpdateServers, UpdateCalls)
  <2>1. page = UpdatePage /\ server = UpdateServer /\ flights = <<Read("ota")>>
    BY <1>5 DEF SettingsInit
  <2>2. page \in UpdatePages /\ server \in UpdateServers
    BY <2>1 DEF UpdatePage, UpdateServer, UpdatePages, UpdateServers, Phases
  <2>3. flights \in Seq(UpdateCalls)
    BY <2>1, UpdateCallsAre, SeqsOf
  <2> QED
    BY <1>1, <2>2, <2>3, BeginsFitting
<1>6. ASSUME panel = "accounts" PROVE Fits(AccountsPages, AccountsServers, AccountsCalls)
  <2>1. page = AccountsPage /\ server = AccountsServer /\ flights = <<>>
    BY <1>6 DEF SettingsInit
  <2>2. page \in AccountsPages /\ server \in AccountsServers
    BY <2>1 DEF AccountsPage, AccountsServer, AccountsPages, AccountsServers
  <2>3. flights \in Seq(AccountsCalls)
    BY <2>1, SeqsOf
  <2> QED
    BY <1>1, <2>2, <2>3, BeginsFitting
<1>7. PageTypeOK
  BY <1>1, <1>3, <1>4, <1>5, <1>6 DEF PageTypeOK, SmallPanels, Polling
<1> QED
  BY <1>1, <1>3, <1>4, <1>7
     DEF PageInv, TimerIsSeen, ChangedWasLoaded, SamplesAreOfTarget, RouterInv, SmallPanels, Polling

LEMMA RouterBegins ==
  ASSUME ViewsAssumption, GroupsAssumption, panel = "router", PagesInit
  PROVE  Fits(RouterPages, RouterServers, {}) /\ RouterInv
<1>1. /\ page = RouterPage /\ flights = <<>> /\ answers = <<>>
      /\ server \in Browser /\ Address(server) \in {"", "dashboard"}
  BY DEF PagesInit, Tickers, Refreshers
<1>2. page \in RouterPages /\ page.view = "dashboard"
  BY <1>1, ViewsAssumption DEF RouterPage, RouterPages
<1>3. server.history \in [1..1 -> Addresses] /\ server.at = 1 /\ server.follows = 0 /\ server.switches = 0
  BY <1>1 DEF Browser
<1>4. server.history \in Seq(Addresses) /\ 1 \in DOMAIN server.history
  BY <1>3, OneOf
<1>6. server = [history |-> server.history, at |-> server.at, follows |-> server.follows,
                switches |-> server.switches]
  BY <1>1 DEF Browser
<1>7. server \in RouterServers
  <2>2. server.at \in Nat /\ server.follows \in 0..2 /\ server.switches \in Nat
    BY <1>3, SmallNumbers
  <2> QED
    BY <1>4, <1>6, <2>2 DEF RouterServers
<1>5. flights \in Seq({})
  BY <1>1, SeqsOf
<1>8. AddressFits
  BY <1>1, <1>2 DEF AddressFits
<1>9. server.at \in DOMAIN server.history /\ server.switches <= 1
  BY <1>3, <1>4, SmallNumbers
<1>10. Fits(RouterPages, RouterServers, {})
  BY <1>1, <1>2, <1>5, <1>7, BeginsFitting
<1> QED
  BY <1>8, <1>9, <1>10 DEF RouterInv

LEMMA PagesBegin ==
  ASSUME ValuesAssumption, ViewsAssumption, GroupsAssumption, PagesInit
  PROVE  PageInv
<1>1. /\ panel \in SmallPanels /\ panel \notin SettingsPanels
      /\ answers = <<>> /\ active = TRUE /\ failures = 0 /\ events = 0
  BY DEF PagesInit, SettingsPanels, SmallPanels, Polling, Tickers, Refreshers
<1>2. ASSUME panel \in Tickers PROVE Fits(TickerPages, PageServers, TickerCalls)
  <2>1. /\ page = [TickerPage EXCEPT !.busy = TRUE, !.timer = panel = "dashboard"]
        /\ server = PageServer /\ flights = <<Read("fetch")>>
    BY <1>2 DEF PagesInit, Tickers, Refreshers
  <2>2. page \in TickerPages /\ server \in PageServers
    BY <2>1, ValuesAssumption DEF TickerPage, PageServer, TickerPages, PageServers, Shows
  <2>3. flights \in Seq(TickerCalls)
    BY <2>1, TickerCallsAre, SeqsOf
  <2> QED
    BY <1>1, <2>2, <2>3, BeginsFitting
<1>3. ASSUME panel \in Refreshers PROVE Fits(RefresherPages, PageServers, RefresherCalls)
  <2>1. page = RefresherPage /\ server = PageServer /\ flights = RefreshCalls(page, TRUE)
    BY <1>3 DEF PagesInit, Tickers, Refreshers
  <2>2. page \in RefresherPages /\ server \in PageServers
    BY <2>1, ValuesAssumption DEF RefresherPage, PageServer, RefresherPages, PageServers, Shows
  <2>3. flights \in Seq(RefresherCalls)
    BY <2>1, <2>2, RefreshIs
  <2> QED
    BY <1>1, <2>2, <2>3, BeginsFitting
<1>4. ASSUME panel = "notify" PROVE Fits(NotifyPages, NotifyServers, NotifyCalls) /\ ~page.dirty
  <2>1. /\ page = [NotifyPage EXCEPT !.loading = TRUE, !.timer = TRUE]
        /\ server = NotifyServer /\ flights = <<Read("config")>>
    BY <1>4 DEF PagesInit, Tickers, Refreshers
  <2>2. page \in NotifyPages /\ server \in NotifyServers /\ ~page.dirty
    BY <2>1, ValuesAssumption DEF NotifyPage, NotifyServer, NotifyPages, NotifyServers, Shows
  <2>3. flights \in Seq(NotifyCalls)
    BY <2>1, NotifyCallsAre, SeqsOf
  <2> QED
    BY <1>1, <2>2, <2>3, BeginsFitting
<1>5. ASSUME panel = "monitor"
      PROVE  Fits(MonitorPages, MonitorServers, MonitorCalls) /\ ~page.timer /\ page.samples \subseteq {page.gen}
  <2>1. page = Asking(MonitorPage) /\ server = MonitorServer /\ flights = <<Poll(page)>>
    BY <1>5 DEF PagesInit, Tickers, Refreshers
  <2>2. page \in MonitorPages /\ ~page.timer /\ page.samples \subseteq {page.gen}
    BY <2>1, ValuesAssumption DEF MonitorPage, Asking, MonitorPages
  <2>3. server \in MonitorServers
    BY <2>1, ValuesAssumption DEF MonitorServer, MonitorServers
  <2>4. flights \in Seq(MonitorCalls)
    BY <2>1, <2>2, MonitorCallsAre, SeqsOf
  <2> QED
    BY <1>1, <2>2, <2>3, <2>4, BeginsFitting
<1>6. ASSUME panel = "router" PROVE Fits(RouterPages, RouterServers, {}) /\ RouterInv
  BY <1>6, RouterBegins
<1>7. PageTypeOK
  BY <1>1, <1>2, <1>3, <1>4, <1>5, <1>6 DEF PageTypeOK, SettingsPanels
<1>8. TimerIsSeen /\ ChangedWasLoaded /\ SamplesAreOfTarget /\ RouterInv
  BY <1>4, <1>5, <1>6 DEF TimerIsSeen, ChangedWasLoaded, SamplesAreOfTarget, RouterInv
<1> QED
  BY <1>1, <1>7, <1>8 DEF PageInv, SettingsPanels

-----------------------------------------------------------------------------
(* The specification of Pages.                                             *)

LEMMA PanelsAre ==
  ASSUME PageTypeOK
  PROVE  panel \in {"network", "watchdog", "update", "accounts", "notify", "monitor", "router"}
                     \union Tickers \union Refreshers
BY DEF PageTypeOK, SettingsPanels, SmallPanels, Polling

LEMMA Begins ==
  ASSUME ValuesAssumption, ViewsAssumption, GroupsAssumption, Init
  PROVE  PageInv
BY SettingsBegin, PagesBegin DEF Init

LEMMA TypeStep ==
  ASSUME PageInv, Next
  PROVE  PageTypeOK' /\ Counts
<1>0. PageTypeOK /\ TimerIsSeen /\ ChangedWasLoaded /\ SamplesAreOfTarget /\ RouterInv
  BY DEF PageInv
<1>1. CASE panel = "network"
  <2>1. Fits(NetworkPages, NetworkServers, NetworkCalls)' /\ Counts
    BY <1>0, <1>1, NetworkStepKeeps
  <2> QED
    BY <1>0, <1>1, <2>1 DEF PageTypeOK, Counts, Tickers, Refreshers
<1>2. CASE panel = "watchdog"
  <2>1. Fits(WatchdogPages, WatchdogServers, WatchdogCalls)' /\ Counts
    BY <1>0, <1>2, WatchdogStepKeeps
  <2> QED
    BY <1>0, <1>2, <2>1 DEF PageTypeOK, Counts, Tickers, Refreshers
<1>3. CASE panel = "update"
  <2>1. Fits(UpdatePages, UpdateServers, UpdateCalls)' /\ Counts
    BY <1>0, <1>3, UpdateStepKeeps
  <2> QED
    BY <1>0, <1>3, <2>1 DEF PageTypeOK, Counts, Tickers, Refreshers
<1>4. CASE panel = "accounts"
  <2>1. Fits(AccountsPages, AccountsServers, AccountsCalls)' /\ Counts
    BY <1>0, <1>4, AccountsStepKeeps
  <2> QED
    BY <1>0, <1>4, <2>1 DEF PageTypeOK, Counts, Tickers, Refreshers
<1>5. CASE panel \in Tickers
  <2>1. Fits(TickerPages, PageServers, TickerCalls)' /\ Counts
    BY <1>0, <1>5, TickersStepKeeps
  <2> QED
    BY <1>0, <1>5, <2>1 DEF PageTypeOK, Counts, Tickers, Refreshers
<1>6. CASE panel \in Refreshers
  <2>1. Fits(RefresherPages, PageServers, RefresherCalls)' /\ Counts
    BY <1>0, <1>6, RefreshersStepKeeps
  <2> QED
    BY <1>0, <1>6, <2>1 DEF PageTypeOK, Counts, Tickers, Refreshers
<1>7. CASE panel = "notify"
  <2>1. Fits(NotifyPages, NotifyServers, NotifyCalls)' /\ Counts
    BY <1>0, <1>7, NotifyStepKeeps
  <2> QED
    BY <1>0, <1>7, <2>1 DEF PageTypeOK, Counts, Tickers, Refreshers
<1>8. CASE panel = "monitor"
  <2>1. Fits(MonitorPages, MonitorServers, MonitorCalls)' /\ Counts
    BY <1>0, <1>8, MonitorStepKeeps
  <2> QED
    BY <1>0, <1>8, <2>1 DEF PageTypeOK, Counts, Tickers, Refreshers
<1>9. CASE panel = "router"
  <2>1. Fits(RouterPages, RouterServers, {})' /\ Counts
    BY <1>0, <1>9, RouterStepKeeps
  <2> QED
    BY <1>0, <1>9, <2>1 DEF PageTypeOK, Counts, Tickers, Refreshers
<1> QED
  BY <1>0, <1>1, <1>2, <1>3, <1>4, <1>5, <1>6, <1>7, <1>8, <1>9, PanelsAre

LEMMA InvStep ==
  ASSUME PageInv, Next
  PROVE  PageInv'
<1>0. PageTypeOK /\ TimerIsSeen /\ ChangedWasLoaded /\ SamplesAreOfTarget /\ RouterInv
  BY DEF PageInv
<1>1. PageTypeOK' /\ Counts /\ panel' = panel
  BY TypeStep DEF Counts
<1>2. TimerIsSeen' /\ SamplesAreOfTarget'
  <2>1. panel = "monitor" => MonitorForm
    BY <1>0, MonitorStepKeeps
  <2> QED
    BY <1>1, <2>1 DEF MonitorForm, TimerIsSeen, SamplesAreOfTarget, Visible
<1>3. ChangedWasLoaded'
  <2>1. panel = "notify" => NotifyForm
    BY <1>0, NotifyStepKeeps
  <2> QED
    BY <1>1, <2>1 DEF NotifyForm, ChangedWasLoaded
<1>4. RouterInv'
  <2>1. CASE panel = "router"
    BY <1>0, <2>1, RouterStepKeeps
  <2>2. CASE panel # "router"
    BY <1>1, <2>2 DEF RouterInv
  <2> QED
    BY <2>1, <2>2
<1>5. ASSUME failures' = 0, panel' \in {"network", "watchdog"}
      PROVE  /\ NothingFailed'
             /\ panel' = "network" => NetworkInv'
             /\ panel' = "watchdog" => WatchdogInv'
  <2>1. failures = 0
    <3>1. failures \in Nat /\ failures' >= failures
      BY <1>0, <1>1 DEF PageTypeOK, Counts
    <3> QED
      BY <1>5, <3>1
  <2>2. NothingFailed /\ (panel = "network" => NetworkInv) /\ (panel = "watchdog" => WatchdogInv)
    BY <1>1, <1>5, <2>1 DEF PageInv
  <2>3. failures' = failures
    BY <1>5, <2>1
  <2>4. panel = "network" => NetworkInv' /\ NothingFailed'
    BY <1>0, <2>2, <2>3, NetworkStepKeeps
  <2>5. panel = "watchdog" => WatchdogInv' /\ NothingFailed'
    BY <1>0, <2>2, <2>3, WatchdogStepKeeps
  <2> QED
    BY <1>1, <1>5, <2>4, <2>5
<1> QED
  BY <1>1, <1>2, <1>3, <1>4, <1>5 DEF PageInv

LEMMA InvStutters ==
  ASSUME PageInv, UNCHANGED vars
  PROVE  PageInv'
<1>1. UNCHANGED <<panel, page, server, flights, answers, active, failures, events>>
  BY DEF vars, calls, bounds
<1>3. PageTypeOK' <=> PageTypeOK
  BY <1>1 DEF PageTypeOK, Fits
<1>4. NothingFailed' <=> NothingFailed
  BY <1>1 DEF NothingFailed
<1>5. NetworkInv' <=> NetworkInv
  BY <1>1 DEF NetworkInv, SetAgrees, Rereads, Countdowns, JobIsCovered, TtlAgrees, RereadsTtl,
              UnderWay, Told, Says
<1>6. WatchdogInv' <=> WatchdogInv
  BY <1>1 DEF WatchdogInv, UnderWay, Told, Says
<1>7. TimerIsSeen' /\ ChangedWasLoaded' /\ SamplesAreOfTarget' /\ RouterInv'
  BY <1>1 DEF PageInv, TimerIsSeen, ChangedWasLoaded, SamplesAreOfTarget, RouterInv, AddressFits, Visible,
              Address
<1> QED
  BY <1>1, <1>3, <1>4, <1>5, <1>6, <1>7 DEF PageInv

\* The invariant of the settings page, the polling pages and the router.
THEOREM PageInvariant == PageSpec => []PageInv
<1>1. Init => PageInv
  BY Begins, ValuesAssumption, ViewsAssumption, GroupsAssumption
<1>2. PageInv /\ [Next]_vars => PageInv'
  BY InvStep, InvStutters
<1> QED
  BY <1>1, <1>2, PTL DEF PageSpec

\* The types of all panels: forms and what is shown of them are values or
\* nothing, counters are numbers, every call and reply belongs to its panel.
THEOREM PageTypes == PageSpec => []PageTypeOK
<1>1. PageInv => PageTypeOK
  BY DEF PageInv
<1> QED
  BY <1>1, PageInvariant, PTL

LEMMA NothingWaits ==
  ASSUME flights = <<>>, answers = <<>>
  PROVE  \A kinds : ~UnderWay(kinds) /\ ~Told(kinds)
BY DEF UnderWay, Told

\* The network functions and the watchdog's form: once nothing is under way,
\* and no call failed, the page shows what the server holds, whatever saves,
\* restarts, polls and other browsers came between.
THEOREM SettingsReality == PageSpec => []SettingsAreReal
<1>1. ASSUME PageInv, flights = <<>>, answers = <<>>, failures = 0, panel = "network",
             ~page.rebooting, page.settling = 0, ~server.unread
      PROVE  page.shown = server.set /\ page.ttl = server.ttl
  <2>1. \A kinds : ~UnderWay(kinds) /\ ~Told(kinds)
    BY <1>1, NothingWaits
  <2>2. SetAgrees /\ TtlAgrees
    BY <1>1 DEF PageInv, NetworkInv
  <2>3. ~Countdowns
    BY <1>1 DEF Countdowns
  <2>4. ~Rereads /\ ~RereadsTtl
    BY <1>1, <2>1, <2>3 DEF Rereads, RereadsTtl
  <2> QED
    BY <2>1, <2>2, <2>4 DEF SetAgrees, TtlAgrees
<1>2. ASSUME PageInv, flights = <<>>, answers = <<>>, failures = 0, panel = "watchdog",
             ~page.dirty, ~server.unread
      PROVE  page.form = server.settings
  <2>1. \A kinds : ~UnderWay(kinds) /\ ~Told(kinds)
    BY <1>2, NothingWaits
  <2>2. WatchdogInv
    BY <1>2 DEF PageInv
  <2> QED
    BY <1>2, <2>1, <2>2 DEF WatchdogInv
<1>3. PageInv => SettingsAreReal
  BY <1>1, <1>2 DEF SettingsAreReal
<1> QED
  BY <1>3, PageInvariant, PTL

\* The monitor: all samples shown are of the target shown with them.
THEOREM SamplesOfTarget == PageSpec => []SamplesAreOfTarget
<1>1. PageInv => SamplesAreOfTarget
  BY DEF PageInv
<1> QED
  BY <1>1, PageInvariant, PTL

\* The router: the address is that of the view once the browser's events are
\* worked off, and one change of the address switches the page once at most.
THEOREM AddressOfView == PageSpec => []AddressIsView
<1>1. ASSUME PageInv, panel = "router"
      PROVE  /\ server.switches <= 1
             /\ server.follows = 0 => AddressFits
  <2>1. server.switches <= 1 /\ (AddressFits \/ server.follows = 2)
    BY <1>1 DEF PageInv, RouterInv
  <2> QED
    BY <2>1
<1>2. PageInv => AddressIsView
  BY <1>1 DEF AddressFits, AddressIsView
<1> QED
  BY <1>2, PageInvariant, PTL

\* What the user typed into the watchdog's form, the notifications or the
\* monitor's target goes by the user or by the answer to a save alone.
THEOREM EditsAreKept == PageSpec => EditsSurvive
<1> DEFINE Remains == (panel \in {"watchdog", "notify", "monitor"} /\ page.dirty /\ page'.form # page.form)
                       => (events' > events \/ \E kind \in {"watchdog_save", "save", "target"} : Reply(kind))
<1>1. PageInv /\ Next => Remains
  <2> SUFFICES ASSUME PageInv, Next, page.dirty, page'.form # page.form,
                      panel \in {"watchdog", "notify", "monitor"}
               PROVE  events' > events \/ \E kind \in {"watchdog_save", "save", "target"} : Reply(kind)
    OBVIOUS
  <2>0. PageTypeOK /\ TimerIsSeen /\ ChangedWasLoaded /\ SamplesAreOfTarget
    BY DEF PageInv
  <2>1. panel = "watchdog" => events' > events \/ Reply("watchdog_save")
    BY <2>0, WatchdogEdits
  <2>2. panel = "notify" => events' > events \/ Reply("save")
    BY <2>0, NotifyStepKeeps DEF NotifyForm
  <2>3. panel = "monitor" => events' > events \/ Reply("target")
    BY <2>0, MonitorStepKeeps DEF MonitorForm
  <2> QED
    BY <2>1, <2>2, <2>3
<1>2. UNCHANGED vars => Remains
  BY DEF vars
<1>3. PageInv /\ [Next]_vars => [Remains]_vars
  BY <1>1, <1>2
<1> HIDE DEF Remains
<1>4. PageSpec => [][Remains]_vars
  BY <1>3, PageInvariant, PTL DEF PageSpec
<1> QED
  BY <1>4 DEF Remains, EditsSurvive

\* Panels without polls.
LEMMA NoneOf ==
  ASSUME NEW C, NEW s \in Seq(C), \A c \in C : c.kind \notin PollKinds
  PROVE  PollsAt(s) = {} /\ Cardinality(PollsAt(s)) = 0
<1>1. PollsAt(s) = {}
  BY DEF PollsAt
<1> QED
  BY <1>1, FS_EmptySet

OtherCalls == {NetworkCalls, WatchdogCalls, UpdateCalls, AccountsCalls, NotifyCalls, {}}

LEMMA OthersDoNotPoll ==
  ASSUME NEW C \in OtherCalls, NEW s \in Seq(C)
  PROVE  Cardinality(PollsAt(s)) = 0
<1>1. \A c \in NetworkCalls : c.kind \notin PollKinds
  BY DEF NetworkCalls, Kind, PollKinds
<1>2. \A c \in WatchdogCalls \union UpdateCalls \union AccountsCalls : c.kind \notin PollKinds
  BY DEF WatchdogCalls, UpdateCalls, AccountsCalls, Kind, PollKinds
<1>3. \A c \in NotifyCalls : c.kind \notin PollKinds
  BY DEF NotifyCalls, Kind, PollKinds
<1>4. \A c \in C : c.kind \notin PollKinds
  BY <1>1, <1>2, <1>3 DEF OtherCalls
<1> QED
  BY <1>4, NoneOf

LEMMA OtherPanels ==
  ASSUME PageTypeOK, PageTypeOK', panel' = panel,
         panel \notin Tickers, panel \notin Refreshers, panel # "monitor"
  PROVE  \E C \in OtherCalls : flights \in Seq(C) /\ flights' \in Seq(C)
<1>1. CASE panel = "network"
  BY <1>1 DEF PageTypeOK, Fits, OtherCalls
<1>2. CASE panel = "watchdog"
  BY <1>2 DEF PageTypeOK, Fits, OtherCalls
<1>3. CASE panel = "update"
  BY <1>3 DEF PageTypeOK, Fits, OtherCalls
<1>4. CASE panel = "accounts"
  BY <1>4 DEF PageTypeOK, Fits, OtherCalls
<1>5. CASE panel = "notify"
  BY <1>5 DEF PageTypeOK, Fits, OtherCalls
<1>6. CASE panel = "router"
  BY <1>6 DEF PageTypeOK, Fits, OtherCalls
<1> QED
  BY <1>1, <1>2, <1>3, <1>4, <1>5, <1>6, PanelsAre

\* No page that was left or whose tab is hidden starts a poll, the device page
\* alone goes on in a hidden tab.
THEOREM AwayIsQuiet == PageSpec => QuietWhenAway
<1> DEFINE Resting == Polls' > Polls => active' /\ (page'.hidden => panel = "deviceinfo")
<1>1. PageInv /\ Next => Resting
  <2> SUFFICES ASSUME PageInv, Next, Polls' > Polls
               PROVE  active' /\ (page'.hidden => panel = "deviceinfo")
    OBVIOUS
  <2>0. PageTypeOK /\ TimerIsSeen /\ SamplesAreOfTarget
    BY DEF PageInv
  <2>1. CASE panel \in Tickers
    <3>1. flights \in Seq(TickerCalls)
      BY <2>0, <2>1 DEF PageTypeOK, Fits
    <3>2. Polled(TickerPages, TickerCalls)
      BY <2>0, <2>1, TickersStepKeeps
    <3> QED
      BY <3>1, <3>2, PolledIsQuiet DEF Away
  <2>2. CASE panel \in Refreshers
    <3>1. flights \in Seq(RefresherCalls)
      BY <2>0, <2>2 DEF PageTypeOK, Fits
    <3>2. Polled(RefresherPages, RefresherCalls)
      BY <2>0, <2>2, RefreshersStepKeeps
    <3> QED
      BY <3>1, <3>2, PolledIsQuiet DEF Away
  <2>3. CASE panel = "monitor"
    <3>1. flights \in Seq(MonitorCalls)
      BY <2>0, <2>3 DEF PageTypeOK, Fits
    <3>2. Polled(MonitorPages, MonitorCalls)
      BY <2>0, <2>3, MonitorStepKeeps
    <3> QED
      BY <3>1, <3>2, PolledIsQuiet DEF Away
  <2>4. CASE panel \notin Tickers /\ panel \notin Refreshers /\ panel # "monitor"
    <3>1. PageTypeOK' /\ panel' = panel
      BY TypeStep DEF Counts
    <3>2. PICK C \in OtherCalls : flights \in Seq(C) /\ flights' \in Seq(C)
      BY <2>0, <2>4, <3>1, OtherPanels
    <3>3. Cardinality(PollsAt(flights)) = 0 /\ Cardinality(PollsAt(flights')) = 0
      BY <3>2, OthersDoNotPoll
    <3>4. Polls' = Polls
      BY <3>3 DEF Polls, PollsAt
    <3>5. Polls = 0
      BY <3>3 DEF Polls, PollsAt
    <3> QED
      BY <3>4, <3>5
  <2> QED
    BY <2>1, <2>2, <2>3, <2>4
<1>2. PageInv /\ [Next]_vars => [Resting]_vars
  BY <1>1
<1> HIDE DEF Resting
<1>3. PageSpec => [][Resting]_vars
  BY <1>2, PageInvariant, PTL DEF PageSpec
<1> QED
  BY <1>3 DEF Resting, QuietWhenAway
=============================================================================
