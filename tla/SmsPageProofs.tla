---------------------------- MODULE SmsPageProofs ----------------------------
(* Proofs about SmsPage, for all messages, slots and bounds. *)
EXTENDS SmsPage, FiniteSetTheorems, SequenceTheorems, WellFoundedInduction, TLAPS

(* Lists of messages.                                                       *)

\* A set of numbers that is not empty has a least one.
LEMMA LeastNumber ==
  ASSUME NEW S \in SUBSET Nat, S # {}
  PROVE  \E x \in S : \A y \in S : x <= y
<1> DEFINE R == {p \in Nat \X Nat : p[1] < p[2]}
<1>1. IsWellFoundedOn(R, Nat)
  BY NatLessThanWellFounded DEF OpToRel
<1>2. \A x, y \in Nat : <<y, x>> \in R <=> y < x
  OBVIOUS
<1> HIDE DEF R
<1>3. \E x \in S : \A y \in S : ~(<<y, x>> \in R)
  BY <1>1, WFMin
<1>4. PICK x \in S : \A y \in S : ~(<<y, x>> \in R)
  BY <1>3
<1>5. \A y \in S : x \in Nat /\ y \in Nat /\ ~(y < x)
  BY <1>2, <1>4
<1>6. \A y \in S : x <= y
  BY <1>5
<1> QED
  BY <1>6

LEMMA EmptyIsList == <<>> \in Lists /\ DOMAIN <<>> = {}
BY DEF Lists, Distinct

\* A list can be read as a function of its places.
LEMMA ListIsFunction ==
  ASSUME NEW l \in Lists
  PROVE  /\ Len(l) \in Nat /\ DOMAIN l = 1..Len(l) /\ DOMAIN l \subseteq Nat \ {0}
         /\ \A i \in DOMAIN l : l[i] \in Texts
         /\ Distinct(l)
BY DEF Lists

LEMMA FunctionIsList ==
  ASSUME NEW n \in Nat, NEW l \in [1..n -> Texts], Distinct(l)
  PROVE  l \in Lists
BY DEF Lists

\* The places that the messages left move up to are the first ones: each one
\* has a place of its own and no place stays empty.
LEMMA Places ==
  ASSUME NEW n \in Nat, NEW left \in SUBSET (1..n)
  PROVE  /\ Cardinality(left) \in Nat
         /\ \A k \in 1..Cardinality(left) : \E i \in left : Place(left, i) = k
<1> DEFINE upTo(i) == {j \in left : j <= i}
           place == [i \in left |-> Place(left, i)]
           size == Cardinality(left)
<1>1. IsFiniteSet(1..n)
  BY FS_Interval
<1>2. IsFiniteSet(left) /\ size \in Nat
  BY <1>1, FS_Subset, FS_CardinalityType
<1>3. \A i \in left : IsFiniteSet(upTo(i)) /\ Cardinality(upTo(i)) \in Nat
                      /\ Cardinality(upTo(i)) <= size
  BY <1>2, FS_Subset, FS_CardinalityType
<1>4. \A i \in left : Cardinality(upTo(i)) # 0
  <2> TAKE i \in left
  <2>1. i \in upTo(i)
    OBVIOUS
  <2> HIDE DEF upTo
  <2> QED
    BY <1>3, <2>1, FS_EmptySet
<1>5. \A i, j \in left : i < j => Cardinality(upTo(i)) # Cardinality(upTo(j))
  <2> SUFFICES ASSUME NEW i \in left, NEW j \in left, i < j
               PROVE  Cardinality(upTo(i)) # Cardinality(upTo(j))
    OBVIOUS
  <2>1. i \in Nat /\ j \in Nat /\ \A k \in left : k \in Nat
    OBVIOUS
  <2>2. (\A k \in left : k <= i => k <= j) /\ j <= j /\ ~(j <= i)
    BY <2>1
  <2>3. upTo(i) \subseteq upTo(j)
    BY <2>2
  <2>4. j \in upTo(j) /\ j \notin upTo(i)
    BY <2>2
  <2>5. IsFiniteSet(upTo(j))
    BY <1>3
  <2> HIDE DEF upTo
  <2> QED
    BY <2>3, <2>4, <2>5, FS_Subset
<1>6. \A i \in left : place[i] = Cardinality(upTo(i))
  BY DEF Place
<1> HIDE DEF upTo
<1>7. place \in [left -> 1..size]
  <2>1. \A i \in left : Place(left, i) \in 1..size
    BY <1>2, <1>3, <1>4, <1>6
  <2> QED
    BY <2>1
<1> HIDE DEF place
<1>8. place \in Injection(left, 1..size)
  <2>1. ASSUME NEW i \in left, NEW j \in left, place[i] = place[j] PROVE i = j
    BY <1>5, <1>6, <2>1
  <2> QED
    BY <1>7, <2>1 DEF Injection, IsInjective
<1>9. IsFiniteSet(1..size) /\ Cardinality(1..size) = size
  BY <1>2, FS_Interval
<1> HIDE DEF size
<1>10. place \in Surjection(left, 1..size)
  BY <1>8, <1>9, FS_Injection DEF size
<1>11. \A k \in 1..size : \E i \in left : place[i] = k
  BY <1>10 DEF Surjection
<1>12. \A i \in left : place[i] = Place(left, i)
  BY DEF place
<1> QED
  BY <1>2, <1>11, <1>12 DEF size

\* Without keeps messages of the list, each in one place.
LEMMA WithoutIsList ==
  ASSUME NEW l \in Lists, NEW gone
  PROVE  /\ Without(l, gone) \in Lists
         /\ \A k \in DOMAIN Without(l, gone) : \E i \in DOMAIN l : Without(l, gone)[k] = l[i]
<1> DEFINE left == {i \in DOMAIN l : l[i].slot \notin gone}
           at(k) == CHOOSE i \in left : Place(left, i) = k
           size == Cardinality(left)
           w == [k \in 1..size |-> l[at(k)]]
<1>1. left \in SUBSET (1..Len(l)) /\ Len(l) \in Nat
  BY ListIsFunction
<1>2. \A i \in left : i \in DOMAIN l
  OBVIOUS
<1>3. Without(l, gone) = w
  BY DEF Without
<1> HIDE DEF left
<1>4. size \in Nat /\ \A k \in 1..size : \E i \in left : Place(left, i) = k
  BY <1>1, Places
<1>5. \A k \in 1..size : at(k) \in left /\ Place(left, at(k)) = k
  BY <1>4
<1> HIDE DEF at, size
<1>6. \A k \in 1..size : w[k] = l[at(k)] /\ at(k) \in DOMAIN l
  BY <1>2, <1>5
<1>7. w \in [1..size -> Texts]
  BY <1>6, ListIsFunction
<1>8. Distinct(w)
  <2> SUFFICES ASSUME NEW i \in 1..size, NEW j \in 1..size, w[i].msg = w[j].msg PROVE i = j
    BY DEF Distinct
  <2>1. at(i) = at(j)
    BY <1>6, ListIsFunction DEF Distinct
  <2> QED
    BY <1>5, <2>1
<1>9. DOMAIN w = 1..size
  OBVIOUS
<1> HIDE DEF w
<1>10. w \in Lists
  BY <1>4, <1>7, <1>8, FunctionIsList
<1> QED
  BY <1>3, <1>6, <1>9, <1>10

LEMMA PrependIsList ==
  ASSUME NEW l \in Lists, NEW e \in Texts, \A i \in DOMAIN l : l[i].msg # e.msg
  PROVE  /\ <<e>> \o l \in Lists
         /\ \A k \in DOMAIN (<<e>> \o l) :
              (<<e>> \o l)[k] = e \/ \E i \in DOMAIN l : (<<e>> \o l)[k] = l[i]
<1> DEFINE w == <<e>> \o l
           n == Len(l) + 1
<1>1. l \in Seq(Texts) /\ Len(l) \in Nat /\ DOMAIN l = 1..Len(l) /\ Distinct(l)
  BY DEF Lists
<1>2. <<e>> \in Seq(Texts) /\ Len(<<e>>) = 1 /\ <<e>>[1] = e
  OBVIOUS
<1>3. n \in Nat /\ w \in [1..n -> Texts] /\ DOMAIN w = 1..n
      /\ \A k \in 1..n : w[k] = IF k = 1 THEN e ELSE l[k - 1]
  <2> DEFINE s == <<e>>
  <2> HIDE DEF s
  <2>1. /\ s \o l \in Seq(Texts) /\ Len(s \o l) = 1 + Len(l)
        /\ \A k \in 1..(1 + Len(l)) : (s \o l)[k] = IF k <= 1 THEN s[1] ELSE l[k - 1]
    <3>1. s \in Seq(Texts) /\ Len(s) = 1
      BY <1>2 DEF s
    <3>2. /\ s \o l \in Seq(Texts) /\ Len(s \o l) = Len(s) + Len(l)
          /\ \A k \in 1..(Len(s) + Len(l)) : (s \o l)[k] = IF k <= Len(s) THEN s[k] ELSE l[k - Len(s)]
      BY <1>1, <3>1, ConcatProperties
    <3> QED
      BY <1>1, <3>1, <3>2
  <2>2. w = s \o l /\ s[1] = e
    BY <1>2 DEF s
  <2> HIDE DEF w
  <2>3. w \in Seq(Texts) /\ Len(w) = n /\ n \in Nat
    BY <1>1, <2>1, <2>2
  <2>4. \A k \in 1..n : w[k] = IF k = 1 THEN e ELSE l[k - 1]
    BY <1>1, <2>1, <2>2
  <2> QED
    BY <2>3, <2>4
<1>4. \A k \in 1..n : k # 1 => k - 1 \in DOMAIN l
  BY <1>1
<1> HIDE DEF w
<1>5. Distinct(w)
  <2> SUFFICES ASSUME NEW i \in 1..n, NEW j \in 1..n, w[i].msg = w[j].msg PROVE i = j
    BY <1>3 DEF Distinct
  <2>1. CASE i = 1 \/ j = 1
    BY <1>3, <1>4, <2>1
  <2>2. CASE i # 1 /\ j # 1
    <3>1. l[i - 1].msg = l[j - 1].msg /\ i - 1 \in DOMAIN l /\ j - 1 \in DOMAIN l
      BY <1>3, <1>4, <2>2
    <3>2. i - 1 = j - 1
      BY <1>1, <3>1 DEF Distinct
    <3> QED
      BY <1>1, <3>2
  <2> QED
    BY <2>1, <2>2
<1>6. w \in Lists
  BY <1>3, <1>5, FunctionIsList
<1>7. \A k \in 1..n : w[k] = e \/ \E i \in DOMAIN l : w[k] = l[i]
  BY <1>3, <1>4
<1>8. w \in Lists /\ \A k \in DOMAIN w : w[k] = e \/ \E i \in DOMAIN l : w[k] = l[i]
  BY <1>3, <1>6, <1>7
<1> QED
  BY <1>8 DEF w

LEMMA SignatureType == ASSUME NEW l \in Lists PROVE IndexSignature(l) \subseteq Slots
<1>1. \A i \in DOMAIN l : l[i].slot \in Slots
  BY ListIsFunction DEF Texts
<1> QED
  BY <1>1 DEF IndexSignature

-----------------------------------------------------------------------------
(* The calls in flight.                                                     *)

Conts == {"none", "load", "save"}

LEMMA CallType == \A kind \in Kinds, cont \in Conts :
  /\ Call(kind, cont) \in Calls
  /\ Call(kind, cont).kind = kind /\ Call(kind, cont).cont = cont
<1>1. 1 \in Ids
  BY BoundsAssumption DEF Ids
<1> QED
  BY <1>1, EmptyIsList DEF Call, Calls, Conts

LEMMA BeginType ==
  ASSUME flights \subseteq Calls, NEW f \in Calls, Begin(f)
  PROVE  flights' \subseteq Calls
<1>1. PICK i \in Ids : flights' = flights \union {[f EXCEPT !.id = i]}
  BY DEF Begin, Free
<1>2. [f EXCEPT !.id = i] \in Calls
  BY <1>1 DEF Calls
<1> QED
  BY <1>1, <1>2

LEMMA SwapType ==
  ASSUME flights \subseteq Calls, NEW f \in flights, NEW g \in Calls, Swap(f, g)
  PROVE  flights' \subseteq Calls
<1>1. f.id \in Ids
  BY DEF Calls
<1>2. [g EXCEPT !.id = f.id] \in Calls
  BY <1>1 DEF Calls
<1> QED
  BY <1>2 DEF Swap

LEMMA EndType ==
  ASSUME flights \subseteq Calls, NEW f, End(f)
  PROVE  flights' \subseteq Calls
BY DEF End

LEMMA AskListType ==
  ASSUME flights \subseteq Calls, NEW f \in flights, AskList(f)
  PROVE  flights' \subseteq Calls
<1>1. Call("list", "none") \in Calls
  BY CallType DEF Kinds, Conts
<1> QED
  BY <1>1, SwapType, EndType DEF AskList

LEMMA LoadSettingsType ==
  ASSUME flights \subseteq Calls, LoadSettings
  PROVE  flights' \subseteq Calls
<1>1. Call("settings", "load") \in Calls
  BY CallType DEF Kinds, Conts
<1> QED
  BY <1>1, BeginType DEF LoadSettings

\* What the server makes of a call.
LEMMA HandledType == ASSUME TypeOK, NEW f \in flights PROVE Handled(f) \in Calls
<1>1. f \in Calls /\ store \in Lists /\ smsOn \in BOOLEAN
  BY DEF TypeOK
<1>2. CASE f.kind \in Reads /\ smsOn
  <2>1. Handled(f) = [f EXCEPT !.reply = "ok", !.list = store]
    BY <1>2 DEF Handled, Reads
  <2> QED
    BY <1>1, <2>1 DEF Calls
<1>3. CASE f.kind \in Reads /\ ~smsOn
  <2>1. Handled(f) = [f EXCEPT !.reply = "disabled"]
    BY <1>3 DEF Handled, Reads
  <2> QED
    BY <1>1, <2>1 DEF Calls
<1>4. CASE f.kind \notin Reads /\ f.kind = "settings"
  <2>1. Handled(f) = [f EXCEPT !.reply = "ok", !.on = smsOn]
    BY <1>4 DEF Handled, Reads
  <2> QED
    BY <1>1, <2>1 DEF Calls
<1>5. CASE f.kind \notin Reads /\ f.kind = "save"
  <2>1. Handled(f) = [f EXCEPT !.reply = "ok"]
    BY <1>5 DEF Handled, Reads
  <2> QED
    BY <1>1, <2>1 DEF Calls
<1>6. CASE f.kind \notin Reads \union {"settings", "save"}
  <2> DEFINE reply == IF smsOn THEN "ok" ELSE "error"
  <2>1. Handled(f) = [f EXCEPT !.reply = reply]
    BY <1>6 DEF Handled
  <2>2. reply \in {"ok", "error"}
    OBVIOUS
  <2> HIDE DEF reply
  <2> QED
    BY <1>1, <2>1, <2>2 DEF Calls
<1> QED
  BY <1>2, <1>3, <1>4, <1>5, <1>6

LEMMA StepFlights == ASSUME TypeOK, MarksFollowMessages, [Next]_vars PROVE flights' \subseteq Calls
<1>1. flights \subseteq Calls /\ shown \in Lists
  BY DEF TypeOK
<1>2. \A kind \in Kinds : Call(kind, "none") \in Calls
  BY CallType DEF Conts
<1>3. ASSUME NEW f \in flights, Answered(f) PROVE flights' \subseteq Calls
  <2>1. f \in Calls /\ f.cont \in Conts /\ f.list \in Lists /\ f.rest \subseteq Slots
    BY <1>1 DEF Calls, Conts
  <2>2. CASE ListAnswered(f) \/ SendAnswered(f)
    BY <1>1, <2>2, EndType DEF ListAnswered, SendAnswered
  <2>3. CASE SettingsAnswered(f)
    <3>1. Call("list", f.cont) \in Calls
      BY <2>1, CallType DEF Kinds
    <3> QED
      BY <1>1, <2>3, <3>1, EndType, SwapType DEF SettingsAnswered
  <2>4. CASE MetaAnswered(f)
    <3> DEFINE c == [Call("stable", "none") EXCEPT !.slots = IndexSignature(f.list)]
    <3>1. c \in Calls
      <4>1. Call("stable", "none") \in Calls /\ IndexSignature(f.list) \subseteq Slots
        BY <1>2, <2>1, SignatureType DEF Kinds
      <4> QED
        BY <4>1 DEF Calls
    <3>2. End(f) \/ Swap(f, c)
      BY <2>4 DEF MetaAnswered
    <3> HIDE DEF c
    <3> QED
      BY <1>1, <3>1, <3>2, EndType, SwapType
  <2>5. CASE StableAnswered(f)
    BY <1>1, <2>5, EndType DEF StableAnswered
  <2>6. CASE DeleteAnswered(f)
    <3> DEFINE c == [Call("delete", "none") EXCEPT !.slots = f.rest]
    <3>1. c \in Calls
      <4>1. Call("delete", "none") \in Calls
        BY <1>2 DEF Kinds
      <4> QED
        BY <2>1, <4>1 DEF Calls
    <3>2. Swap(f, c) \/ AskList(f)
      BY <2>6 DEF DeleteAnswered
    <3> HIDE DEF c
    <3> QED
      BY <1>1, <3>1, <3>2, SwapType, AskListType
  <2>7. CASE SimAnswered(f)
    <3>1. Call("send", "none") \in Calls
      BY <1>2 DEF Kinds
    <3> QED
      BY <1>1, <2>7, <3>1, EndType, SwapType DEF SimAnswered
  <2>8. CASE DeleteAllSettled(f)
    <3>1. Call("settings", "load") \in Calls
      BY CallType DEF Kinds, Conts
    <3> QED
      BY <1>1, <2>8, <3>1, EndType, SwapType DEF DeleteAllSettled
  <2> QED
    BY <1>3, <2>2, <2>3, <2>4, <2>5, <2>6, <2>7, <2>8 DEF Answered
<1>4. ASSUME NEW f \in flights, FailedCall(f) PROVE flights' \subseteq Calls
  <2>1. CASE ListFailed(f) \/ SettingsFailed(f) \/ PollFailed(f) \/ SendFailed(f)
    BY <1>1, <2>1, EndType DEF ListFailed, SettingsFailed, PollFailed, SendFailed
  <2>2. CASE DeleteFailed(f)
    BY <1>1, <2>2, AskListType DEF DeleteFailed
  <2>3. CASE DeleteAllSettled(f)
    <3>1. Call("settings", "load") \in Calls
      BY CallType DEF Kinds, Conts
    <3> QED
      BY <1>1, <2>3, <3>1, EndType, SwapType DEF DeleteAllSettled
  <2>4. CASE SimFailed(f)
    <3>1. Call("send", "none") \in Calls
      BY <1>2 DEF Kinds
    <3> QED
      BY <1>1, <2>4, <3>1, SwapType DEF SimFailed
  <2> QED
    BY <1>4, <2>1, <2>2, <2>3, <2>4 DEF FailedCall
<1>5. CASE User
  <2>1. CASE Reload \/ EnterPage
    BY <1>1, <2>1, LoadSettingsType DEF Reload, EnterPage
  <2>2. CASE SaveSettings
    <3>1. PICK v \in BOOLEAN : Begin([Call("save", "save") EXCEPT !.on = v])
      BY <2>2 DEF SaveSettings
    <3>2. Call("save", "save") \in Calls
      BY CallType DEF Kinds, Conts
    <3>3. [Call("save", "save") EXCEPT !.on = v] \in Calls
      BY <3>2 DEF Calls
    <3> QED
      BY <1>1, <3>1, <3>3, BeginType
  <2>3. CASE DeleteSelected
    <3>1. Chosen \subseteq Slots
      <4>1. \A i \in selected : shown[i].slot \in Slots
        BY <1>1, ListIsFunction DEF MarksFollowMessages, Texts
      <4> QED
        BY <4>1 DEF Chosen
    <3>2. Call("deleteAll", "none") \in Calls /\ Call("delete", "none") \in Calls
      BY <1>2 DEF Kinds
    <3>3. \A first \in Banks(Chosen) :
            [Call("delete", "none") EXCEPT !.slots = first, !.rest = Chosen \ first] \in Calls
      BY <3>1, <3>2 DEF Calls, Banks
    <3> QED
      BY <1>1, <2>3, <3>2, <3>3, BeginType DEF DeleteSelected
  <2>4. CASE SendSms
    BY <1>1, <1>2, <2>4, BeginType DEF SendSms, Kinds
  <2>5. CASE LeavePage \/ CloseDetail
    BY <1>1, <2>5 DEF LeavePage, CloseDetail
  <2>6. ASSUME NEW i, TickBox(i) \/ OpenDetail(i) PROVE flights' \subseteq Calls
    BY <1>1, <2>6 DEF TickBox, OpenDetail
  <2>7. ASSUME NEW b, ToggleAll(b) PROVE flights' \subseteq Calls
    BY <1>1, <2>7 DEF ToggleAll
  <2>8. ASSUME NEW v, SelectView(v) PROVE flights' \subseteq Calls
    BY <1>1, <1>2, <2>8, BeginType DEF SelectView, Kinds
  <2> QED
    BY <1>5, <2>1, <2>2, <2>3, <2>4, <2>5, <2>6, <2>7, <2>8 DEF User
<1>6. CASE Tick
  BY <1>1, <1>2, <1>6, BeginType DEF Tick, Kinds
<1>7. ASSUME NEW f \in flights, ServerHandles(f) PROVE flights' \subseteq Calls
  BY <1>1, <1>7, HandledType DEF ServerHandles
<1>8. ASSUME NEW f \in flights, ServerFails(f) PROVE flights' \subseteq Calls
  <2>1. [f EXCEPT !.reply = "error"] \in Calls
    BY <1>1 DEF Calls
  <2> QED
    BY <1>1, <1>8, <2>1 DEF ServerFails
<1>9. ASSUME NEW msg, Arrives(msg) PROVE flights' \subseteq Calls
  BY <1>1, <1>9 DEF Arrives
<1>10. CASE UNCHANGED vars
  BY <1>1, <1>10 DEF vars
<1> QED
  BY <1>3, <1>4, <1>5, <1>6, <1>7, <1>8, <1>9, <1>10 DEF Next

-----------------------------------------------------------------------------
(* The module's store.                                                      *)

StoreParts == store \in Lists /\ arrived \subseteq Messages /\ smsOn \in BOOLEAN /\ StoreHasArrived

LEMMA OutsideFrame ==
  ASSUME Next, ~\E f \in flights : ServerHandles(f), ~\E m \in Messages : Arrives(m)
  PROVE  UNCHANGED <<store, arrived, smsOn>>
<1>1. ASSUME NEW f \in flights, Answered(f) PROVE UNCHANGED <<store, arrived, smsOn>>
  BY <1>1 DEF Answered, ListAnswered, SettingsAnswered, MetaAnswered, StableAnswered, DeleteAnswered,
              SimAnswered, SendAnswered, DeleteAllSettled, outside
<1>2. ASSUME NEW f \in flights, FailedCall(f) PROVE UNCHANGED <<store, arrived, smsOn>>
  BY <1>2 DEF FailedCall, ListFailed, SettingsFailed, PollFailed, DeleteFailed, DeleteAllSettled,
              SimFailed, SendFailed, outside
<1>3. CASE User
  BY <1>3 DEF User, Reload, SaveSettings, DeleteSelected, LeavePage, EnterPage, CloseDetail, SendSms,
              TickBox, OpenDetail, ToggleAll, SelectView, outside
<1>4. CASE Tick \/ \E f \in flights : ServerFails(f)
  BY <1>4 DEF Tick, ServerFails, outside
<1> QED
  BY <1>1, <1>2, <1>3, <1>4 DEF Next

LEMMA StepStore == ASSUME TypeOK, StoreHasArrived, [Next]_vars PROVE StoreParts'
<1>1. StoreParts
  BY DEF TypeOK, StoreParts
<1>2. CASE Next /\ ~(\E f \in flights : ServerHandles(f)) /\ ~(\E m \in Messages : Arrives(m))
  BY <1>1, <1>2, OutsideFrame DEF StoreParts, StoreHasArrived
<1>3. CASE UNCHANGED vars
  BY <1>1, <1>3 DEF vars, outside, StoreParts, StoreHasArrived
<1>4. ASSUME NEW f \in flights, ServerHandles(f) PROVE StoreParts'
  <2>1. f.on \in BOOLEAN
    BY DEF TypeOK, Calls
  <2>2. UNCHANGED arrived /\ smsOn' \in BOOLEAN
    BY <1>1, <1>4, <2>1 DEF ServerHandles, StoreParts
  <2>3. store' \in {store, Without(store, f.slots), <<>>}
    BY <1>4 DEF ServerHandles
  <2>4. CASE store' = store
    BY <1>1, <2>2, <2>4 DEF StoreParts, StoreHasArrived
  <2>5. CASE store' = <<>>
    BY <1>1, <2>2, <2>5, EmptyIsList DEF StoreParts, StoreHasArrived
  <2>6. CASE store' = Without(store, f.slots)
    <3>1. store' \in Lists /\ \A k \in DOMAIN store' : \E i \in DOMAIN store : store'[k] = store[i]
      BY <1>1, <2>6, WithoutIsList DEF StoreParts
    <3> QED
      BY <1>1, <2>2, <3>1 DEF StoreParts, StoreHasArrived
  <2> QED
    BY <2>3, <2>4, <2>5, <2>6
<1>5. ASSUME NEW m \in Messages, Arrives(m) PROVE StoreParts'
  <2>1. PICK s \in Slots : store' = <<[slot |-> s, msg |-> m]>> \o store
    BY <1>5 DEF Arrives
  <2>2. m \notin arrived /\ arrived' = arrived \union {m} /\ UNCHANGED smsOn
    BY <1>5 DEF Arrives
  <2> DEFINE e == [slot |-> s, msg |-> m]
  <2>3. e \in Texts /\ e.msg = m
    BY DEF Texts
  <2>4. \A i \in DOMAIN store : store[i].msg # e.msg
    BY <1>1, <2>2 DEF StoreParts, StoreHasArrived
  <2>5. store' = <<e>> \o store
    BY <2>1
  <2> HIDE DEF e
  <2>6. /\ store' \in Lists
        /\ \A k \in DOMAIN store' : store'[k] = e \/ \E i \in DOMAIN store : store'[k] = store[i]
    BY <1>1, <2>3, <2>4, <2>5, PrependIsList DEF StoreParts
  <2> QED
    BY <1>1, <2>2, <2>3, <2>6 DEF StoreParts, StoreHasArrived
<1> QED
  BY <1>2, <1>3, <1>4, <1>5

-----------------------------------------------------------------------------
(* The list and its marks.                                                  *)

ListParts ==
  /\ shown \in Lists /\ selected \subseteq Nat /\ detail \in Nat
  /\ ticked \subseteq Messages /\ opened \subseteq Messages
  /\ MarksFollowMessages

LEMMA MarksStay == ASSUME ListParts, UNCHANGED list PROVE ListParts'
BY DEF ListParts, MarksFollowMessages, list, marks

\* The list goes, and what was marked in it.
LEMMA MarksCleared == ASSUME ListParts, ClearList, UNCHANGED <<ticked, opened>> PROVE ListParts'
BY EmptyIsList DEF ListParts, ClearList, MarksFollowMessages

\* Fewer marks on the same list.
LEMMA MarksRemoved ==
  ASSUME ListParts, UNCHANGED <<shown, ticked, opened>>,
         selected' \in {selected, {}}, detail' \in {detail, 0}
  PROVE  ListParts'
BY DEF ListParts, MarksFollowMessages

\* Another list: a mark is on the same message, or is gone.
LEMMA MarksMoved ==
  ASSUME ListParts, NEW new \in Lists, NEW keep \in BOOLEAN, Apply(new, keep),
         UNCHANGED <<ticked, opened>>
  PROVE  ListParts'
<1> DEFINE again == IF keep /\ detail # 0 THEN Restored(new, shown, {detail}) ELSE {}
<1>1. DOMAIN new \subseteq Nat \ {0}
  BY ListIsFunction
<1>2. shown' = new /\ selected' = IF keep THEN Restored(new, shown, selected) ELSE {}
  BY DEF Apply
<1>3. detail' = IF again = {} THEN 0 ELSE CHOOSE i \in again : \A j \in again : i <= j
  BY DEF Apply
<1>4. \A positions : Restored(new, shown, positions) \subseteq DOMAIN new
  BY DEF Restored
<1>5. again \subseteq Nat /\ again \subseteq DOMAIN new
  BY <1>1, <1>4
<1>6. detail' # 0 => detail' \in again
  <2> HIDE DEF again
  <2>1. CASE again = {}
    BY <1>3, <2>1
  <2>2. CASE again # {}
    <3>1. \E i \in again : \A j \in again : i <= j
      BY <1>5, <2>2, LeastNumber
    <3> QED
      BY <1>3, <2>2, <3>1
  <2> QED
    BY <2>1, <2>2
<1>7. detail' \in Nat
  BY <1>5, <1>6
<1>8. selected' \subseteq DOMAIN new /\ \A i \in selected' : new[i].msg \in ticked
  BY <1>2 DEF Restored, ListParts, MarksFollowMessages
<1>9. detail' # 0 => detail' \in DOMAIN new /\ new[detail'].msg \in opened
  BY <1>5, <1>6 DEF Restored, ListParts, MarksFollowMessages
<1> HIDE DEF again
<1> QED
  BY <1>1, <1>2, <1>7, <1>8, <1>9 DEF ListParts, MarksFollowMessages

LEMMA MarksTicked ==
  ASSUME ListParts, NEW i \in DOMAIN shown,
         UNCHANGED <<shown, detail, opened>>,
         IF i \in selected
           THEN selected' = selected \ {i} /\ ticked' = ticked \ {shown[i].msg}
           ELSE selected' = selected \union {i} /\ ticked' = ticked \union {shown[i].msg}
  PROVE  ListParts'
<1>1. i \in Nat /\ shown[i].msg \in Messages
  BY ListIsFunction DEF ListParts, Texts
<1>2. \A j \in DOMAIN shown : j # i => shown[j].msg # shown[i].msg
  BY ListIsFunction DEF ListParts, Distinct
<1>3. CASE i \in selected
  BY <1>2, <1>3 DEF ListParts, MarksFollowMessages
<1>4. CASE i \notin selected
  BY <1>1, <1>4 DEF ListParts, MarksFollowMessages
<1> QED
  BY <1>3, <1>4

LEMMA StepList == ASSUME TypeOK, MarksFollowMessages, [Next]_vars PROVE ListParts'
<1>1. ListParts /\ flights \subseteq Calls
  BY DEF TypeOK, ListParts
<1>2. CASE UNCHANGED vars
  BY <1>1, <1>2, MarksStay DEF vars
<1>3. ASSUME NEW f \in flights, Answered(f) PROVE ListParts'
  <2>1. f.list \in Lists
    BY <1>1 DEF Calls
  <2>2. CASE ListAnswered(f)
    <3>1. UNCHANGED <<ticked, opened>> /\ (ClearList \/ Apply(f.list, FALSE))
      BY <2>2 DEF ListAnswered, Disabled
    <3> QED
      BY <1>1, <2>1, <3>1, MarksCleared, MarksMoved
  <2>3. CASE SettingsAnswered(f)
    <3>1. UNCHANGED list \/ (ClearList /\ UNCHANGED <<ticked, opened>>)
      BY <2>3 DEF SettingsAnswered
    <3> QED
      BY <1>1, <3>1, MarksStay, MarksCleared
  <2>4. CASE MetaAnswered(f)
    <3>1. UNCHANGED <<ticked, opened>> /\ (ClearList \/ UNCHANGED <<shown, selected, detail>>)
      BY <2>4 DEF MetaAnswered, Disabled
    <3> QED
      BY <1>1, <3>1, MarksStay, MarksCleared DEF list, marks
  <2>5. CASE StableAnswered(f)
    <3>1. UNCHANGED <<ticked, opened>>
          /\ (ClearList \/ Apply(f.list, TRUE) \/ UNCHANGED <<shown, selected, detail>>)
      BY <2>5 DEF StableAnswered
    <3> QED
      BY <1>1, <2>1, <3>1, MarksStay, MarksCleared, MarksMoved DEF list, marks
  <2>6. CASE DeleteAnswered(f)
    <3>1. UNCHANGED <<shown, ticked, opened, detail>> /\ selected' \in {selected, {}}
      BY <2>6 DEF DeleteAnswered
    <3> QED
      BY <1>1, <3>1, MarksRemoved
  <2>7. CASE SimAnswered(f) \/ SendAnswered(f)
    BY <1>1, <2>7, MarksStay DEF SimAnswered, SendAnswered
  <2>8. CASE DeleteAllSettled(f)
    BY <1>1, <2>8, MarksCleared DEF DeleteAllSettled, ClearData
  <2> QED
    BY <1>3, <2>2, <2>3, <2>4, <2>5, <2>6, <2>7, <2>8 DEF Answered
<1>4. ASSUME NEW f \in flights, FailedCall(f) PROVE ListParts'
  <2>1. CASE ListFailed(f) \/ SettingsFailed(f) \/ PollFailed(f) \/ SimFailed(f) \/ SendFailed(f)
    BY <1>1, <2>1, MarksStay DEF ListFailed, SettingsFailed, PollFailed, SimFailed, SendFailed
  <2>2. CASE DeleteFailed(f)
    <3>1. UNCHANGED <<shown, ticked, opened, detail>> /\ selected' = {}
      BY <2>2 DEF DeleteFailed
    <3> QED
      BY <1>1, <3>1, MarksRemoved
  <2>3. CASE DeleteAllSettled(f)
    BY <1>1, <2>3, MarksCleared DEF DeleteAllSettled, ClearData
  <2> QED
    BY <1>4, <2>1, <2>2, <2>3 DEF FailedCall
<1>5. CASE User
  <2>1. CASE Reload
    BY <1>1, <2>1, MarksCleared DEF Reload, ClearData
  <2>2. CASE SaveSettings \/ DeleteSelected \/ EnterPage \/ SendSms
    BY <1>1, <2>2, MarksStay DEF SaveSettings, DeleteSelected, EnterPage, SendSms
  <2>3. CASE LeavePage \/ CloseDetail
    <3>1. UNCHANGED <<shown, selected, ticked, opened>> /\ detail' = 0
      BY <2>3 DEF LeavePage, CloseDetail
    <3> QED
      BY <1>1, <3>1, MarksRemoved
  <2>4. ASSUME NEW v, SelectView(v) PROVE ListParts'
    <3>1. UNCHANGED <<shown, selected, ticked, opened>> /\ detail' = 0
      BY <2>4 DEF SelectView
    <3> QED
      BY <1>1, <3>1, MarksRemoved
  <2>5. ASSUME NEW i, TickBox(i) PROVE ListParts'
    BY <1>1, <2>5, MarksTicked DEF TickBox
  <2>6. ASSUME NEW i, OpenDetail(i) PROVE ListParts'
    <3>1. i \in DOMAIN shown /\ detail' = i /\ opened' = {shown[i].msg}
          /\ UNCHANGED <<shown, selected, ticked>>
      BY <2>6 DEF OpenDetail
    <3>2. i \in Nat /\ shown[i].msg \in Messages
      BY <1>1, <3>1, ListIsFunction DEF ListParts, Texts
    <3> QED
      BY <1>1, <3>1, <3>2 DEF ListParts, MarksFollowMessages
  <2>7. ASSUME NEW b, ToggleAll(b) PROVE ListParts'
    <3>1. /\ selected' = (IF b THEN DOMAIN shown ELSE {})
          /\ ticked' = (IF b THEN {shown[i].msg : i \in DOMAIN shown} ELSE {})
          /\ UNCHANGED <<shown, detail, opened>>
      BY <2>7 DEF ToggleAll
    <3>2. DOMAIN shown \subseteq Nat /\ \A i \in DOMAIN shown : shown[i].msg \in Messages
      BY <1>1, ListIsFunction DEF ListParts, Texts
    <3> QED
      BY <1>1, <3>1, <3>2 DEF ListParts, MarksFollowMessages
  <2> QED
    BY <1>5, <2>1, <2>2, <2>3, <2>4, <2>5, <2>6, <2>7 DEF User
<1>6. CASE Tick
  BY <1>1, <1>6, MarksStay DEF Tick
<1>7. ASSUME NEW f \in flights, ServerHandles(f) \/ ServerFails(f) PROVE ListParts'
  BY <1>1, <1>7, MarksStay DEF ServerHandles, ServerFails
<1>8. ASSUME NEW msg, Arrives(msg) PROVE ListParts'
  BY <1>1, <1>8, MarksStay DEF Arrives
<1> QED
  BY <1>2, <1>3, <1>4, <1>5, <1>6, <1>7, <1>8 DEF Next

-----------------------------------------------------------------------------
(* The flags and the poll.                                                  *)

FlagParts ==
  /\ view \in {"inbox", "compose"} /\ active \in BOOLEAN
  /\ enabled \in BOOLEAN /\ loaded \in BOOLEAN /\ loading \in BOOLEAN /\ saving \in BOOLEAN
  /\ isLoading \in BOOLEAN /\ events \in Nat
PollParts ==
  /\ timer \in BOOLEAN /\ inFlight \in BOOLEAN /\ pend \in [list : Lists, count : Nat]
  /\ QuietElsewhere

LEMMA FinishType == \A cont : Finish(cont) => loading' \in BOOLEAN /\ saving' \in BOOLEAN
<1> SUFFICES ASSUME NEW cont, Finish(cont) PROVE loading' \in BOOLEAN /\ saving' \in BOOLEAN
  OBVIOUS
<1>1. (loading /\ cont # "load") \in BOOLEAN /\ (saving /\ cont # "save") \in BOOLEAN
  OBVIOUS
<1> QED
  BY <1>1 DEF Finish

LEMMA StepFlags == ASSUME TypeOK, [Next]_vars PROVE FlagParts'
<1>1. FlagParts /\ flights \subseteq Calls
  BY DEF TypeOK, FlagParts
<1>2. Event => events' \in Nat
  BY <1>1 DEF Event, FlagParts
<1>3. CASE UNCHANGED vars
  BY <1>1, <1>3 DEF vars, settings, FlagParts
<1>4. ASSUME NEW f \in flights, Answered(f) PROVE FlagParts'
  <2>1. f.on \in BOOLEAN
    BY <1>1 DEF Calls
  <2>2. CASE ListAnswered(f)
    <3>1. enabled' \in BOOLEAN /\ isLoading' = FALSE
      BY <1>1, <2>2 DEF ListAnswered, Disabled, FlagParts
    <3>2. loading' \in BOOLEAN /\ saving' \in BOOLEAN
      BY <2>2, FinishType DEF ListAnswered
    <3> QED
      BY <1>1, <2>2, <3>1, <3>2 DEF ListAnswered, FlagParts
  <2>3. CASE SettingsAnswered(f)
    <3>1. loading' \in BOOLEAN /\ saving' \in BOOLEAN
      BY <1>1, <2>3, FinishType DEF SettingsAnswered, FlagParts
    <3> QED
      BY <1>1, <2>1, <2>3, <3>1 DEF SettingsAnswered, FlagParts
  <2>4. CASE MetaAnswered(f) \/ StableAnswered(f)
    <3>1. enabled' \in BOOLEAN
      BY <1>1, <2>4 DEF MetaAnswered, StableAnswered, Disabled, FlagParts
    <3> QED
      BY <1>1, <2>4, <3>1 DEF MetaAnswered, StableAnswered, FlagParts
  <2>5. CASE DeleteAnswered(f) \/ SimAnswered(f) \/ SendAnswered(f)
    BY <1>1, <2>5 DEF DeleteAnswered, AskList, SimAnswered, SendAnswered, settings, FlagParts
  <2>6. CASE DeleteAllSettled(f) /\ UNCHANGED events
    BY <1>1, <2>6 DEF DeleteAllSettled, FlagParts
  <2> QED
    BY <1>4, <2>2, <2>3, <2>4, <2>5, <2>6 DEF Answered
<1>5. ASSUME NEW f \in flights, FailedCall(f) PROVE FlagParts'
  <2>1. events' \in Nat
    BY <1>2, <1>5 DEF FailedCall
  <2>2. CASE ListFailed(f) \/ SettingsFailed(f)
    <3>1. loading' \in BOOLEAN /\ saving' \in BOOLEAN
      BY <2>2, FinishType DEF ListFailed, SettingsFailed, FinishFailed
    <3> QED
      BY <1>1, <2>1, <2>2, <3>1 DEF ListFailed, SettingsFailed, FlagParts
  <2>3. CASE PollFailed(f) \/ DeleteFailed(f) \/ SimFailed(f) \/ SendFailed(f)
    BY <1>1, <2>1, <2>3 DEF PollFailed, DeleteFailed, AskList, SimFailed, SendFailed, settings, FlagParts
  <2>4. CASE DeleteAllSettled(f)
    BY <1>1, <2>1, <2>4 DEF DeleteAllSettled, FlagParts
  <2> QED
    BY <1>5, <2>2, <2>3, <2>4 DEF FailedCall
<1>6. CASE User
  <2>1. CASE Reload \/ SaveSettings \/ DeleteSelected \/ LeavePage \/ SendSms
    BY <1>1, <1>2, <2>1 DEF Reload, LoadSettings, SaveSettings, DeleteSelected, LeavePage, SendSms,
                            settings, FlagParts
  <2>2. CASE EnterPage \/ CloseDetail
    BY <1>1, <2>2 DEF EnterPage, LoadSettings, CloseDetail, settings, FlagParts
  <2>3. ASSUME NEW i, TickBox(i) \/ OpenDetail(i) PROVE FlagParts'
    BY <1>1, <1>2, <2>3 DEF TickBox, OpenDetail, settings, FlagParts
  <2>4. ASSUME NEW b, ToggleAll(b) PROVE FlagParts'
    BY <1>1, <1>2, <2>4 DEF ToggleAll, settings, FlagParts
  <2>5. ASSUME NEW v \in {"inbox", "compose"}, SelectView(v) PROVE FlagParts'
    BY <1>1, <1>2, <2>5 DEF SelectView, settings, FlagParts
  <2> QED
    BY <1>6, <2>1, <2>2, <2>3, <2>4, <2>5 DEF User
<1>7. CASE Tick
  BY <1>1, <1>7 DEF Tick, settings, FlagParts
<1>8. ASSUME NEW f \in flights, ServerHandles(f) \/ ServerFails(f) PROVE FlagParts'
  BY <1>1, <1>2, <1>8 DEF ServerHandles, ServerFails, settings, FlagParts
<1>9. ASSUME NEW msg, Arrives(msg) PROVE FlagParts'
  BY <1>1, <1>9 DEF Arrives, settings, FlagParts
<1> QED
  BY <1>3, <1>4, <1>5, <1>6, <1>7, <1>8, <1>9 DEF Next

LEMMA NoPendType == NoPend \in [list : Lists, count : Nat]
BY EmptyIsList DEF NoPend

LEMMA PollStays == ASSUME PollParts, UNCHANGED <<timer, inFlight, pend, view, active>> PROVE PollParts'
BY DEF PollParts, QuietElsewhere, PageActive

\* The poll is off: nothing else needs to be known.
LEMMA PollStops == ASSUME StopAutoRefresh PROVE PollParts'
BY NoPendType DEF StopAutoRefresh, PollParts, QuietElsewhere

LEMMA SeenType ==
  ASSUME pend \in [list : Lists, count : Nat], NEW new \in Lists
  PROVE  Seen(new) \in [list : Lists, count : Nat]
<1>1. CASE pend.count > 0 /\ pend.list = new
  <2> DEFINE count == IF pend.count < HeldPolls THEN pend.count + 1 ELSE pend.count
  <2>1. count \in Nat
    OBVIOUS
  <2>2. Seen(new) = [pend EXCEPT !.count = count]
    BY <1>1 DEF Seen
  <2> HIDE DEF count
  <2> QED
    BY <2>1, <2>2
<1>2. CASE ~(pend.count > 0 /\ pend.list = new)
  <2>1. Seen(new) = [list |-> new, count |-> 1]
    BY <1>2 DEF Seen
  <2> QED
    BY <2>1
<1> QED
  BY <1>1, <1>2

LEMMA StepPoll == ASSUME TypeOK, QuietElsewhere, [Next]_vars PROVE PollParts'
<1>1. PollParts /\ flights \subseteq Calls /\ enabled \in BOOLEAN /\ loaded \in BOOLEAN
      /\ view \in {"inbox", "compose"} /\ active \in BOOLEAN
  BY DEF TypeOK, PollParts
<1>2. CASE UNCHANGED vars
  BY <1>1, <1>2, PollStays DEF vars, poll
<1>3. ASSUME NEW f \in flights, Answered(f) PROVE PollParts'
  <2>1. f.list \in Lists
    BY <1>1 DEF Calls
  <2>2. CASE ListAnswered(f)
    <3>1. CASE StopAutoRefresh
      BY <3>1, PollStops
    <3>2. CASE ~StopAutoRefresh
      <4>1. /\ timer' = (timer \/ (f.cont # "none" /\ MayPoll(enabled)))
            /\ Apply(f.list, FALSE) /\ UNCHANGED <<inFlight, view, active>>
        BY <2>2, <3>2 DEF ListAnswered, Disabled
      <4>2. timer' \in BOOLEAN
        BY <4>1
      <4>3. timer' => timer \/ PageActive
        BY <4>1 DEF MayPoll
      <4>4. pend' = NoPend
        BY <4>1 DEF Apply
      <4> QED
        BY <1>1, <4>1, <4>2, <4>3, <4>4, NoPendType DEF PollParts, QuietElsewhere, PageActive
    <3> QED
      BY <3>1, <3>2
  <2>3. CASE SettingsAnswered(f)
    BY <1>1, <2>3, PollStops, PollStays DEF SettingsAnswered, poll
  <2>4. CASE MetaAnswered(f)
    <3>1. CASE StopAutoRefresh
      BY <3>1, PollStops
    <3>2. CASE ~StopAutoRefresh
      <4>1. UNCHANGED <<timer, view, active>>
        BY <2>4, <3>2 DEF MetaAnswered, Disabled
      <4>2. inFlight' \in BOOLEAN
        BY <1>1, <2>4, <3>2 DEF MetaAnswered, Disabled, PollParts
      <4>3. pend' \in {pend, NoPend, Seen(f.list)}
        BY <2>4, <3>2 DEF MetaAnswered, Disabled
      <4>4. pend' \in [list : Lists, count : Nat]
        BY <1>1, <2>1, <4>3, NoPendType, SeenType DEF PollParts
      <4> QED
        BY <1>1, <4>1, <4>2, <4>4 DEF PollParts, QuietElsewhere, PageActive
    <3> QED
      BY <3>1, <3>2
  <2>5. CASE StableAnswered(f)
    <3>1. UNCHANGED <<view, active>> /\ inFlight' = FALSE /\ timer' \in {timer, FALSE}
      BY <2>5 DEF StableAnswered
    <3>2. pend' \in {pend, NoPend, [list |-> f.list, count |-> 1]}
      BY <2>5 DEF StableAnswered, Apply
    <3>3. pend' \in [list : Lists, count : Nat]
      BY <1>1, <2>1, <3>2, NoPendType DEF PollParts
    <3>4. timer' \in BOOLEAN /\ (timer' => timer)
      <4>1. CASE timer' = timer
        BY <1>1, <4>1 DEF PollParts
      <4>2. CASE timer' = FALSE
        BY <4>2
      <4> QED
        BY <3>1, <4>1, <4>2
    <3> QED
      BY <1>1, <3>1, <3>3, <3>4 DEF PollParts, QuietElsewhere, PageActive
  <2>6. CASE DeleteAnswered(f) \/ SimAnswered(f) \/ SendAnswered(f)
    BY <1>1, <2>6, PollStays DEF DeleteAnswered, SimAnswered, SendAnswered, poll
  <2>7. CASE DeleteAllSettled(f)
    BY <1>1, <2>7, NoPendType DEF DeleteAllSettled, ClearData, PollParts, QuietElsewhere, PageActive
  <2> QED
    BY <1>3, <2>2, <2>3, <2>4, <2>5, <2>6, <2>7 DEF Answered
<1>4. ASSUME NEW f \in flights, FailedCall(f) PROVE PollParts'
  <2>1. CASE ListFailed(f) \/ SettingsFailed(f) \/ DeleteFailed(f) \/ SimFailed(f) \/ SendFailed(f)
    BY <1>1, <2>1, PollStays DEF ListFailed, SettingsFailed, DeleteFailed, SimFailed, SendFailed, poll
  <2>2. CASE PollFailed(f)
    BY <1>1, <2>2 DEF PollFailed, PollParts, QuietElsewhere, PageActive
  <2>3. CASE DeleteAllSettled(f)
    BY <1>1, <2>3, NoPendType DEF DeleteAllSettled, ClearData, PollParts, QuietElsewhere, PageActive
  <2> QED
    BY <1>4, <2>1, <2>2, <2>3 DEF FailedCall
<1>5. CASE User
  <2>1. CASE Reload
    BY <1>1, <2>1, NoPendType DEF Reload, ClearData, PollParts, QuietElsewhere, PageActive
  <2>2. CASE SaveSettings \/ DeleteSelected \/ SendSms \/ CloseDetail
    BY <1>1, <2>2, PollStays DEF SaveSettings, DeleteSelected, SendSms, CloseDetail, poll
  <2>3. CASE LeavePage
    BY <2>3, PollStops DEF LeavePage
  <2>4. CASE EnterPage
    BY <1>1, <2>4 DEF EnterPage, poll, PollParts, QuietElsewhere, PageActive
  <2>5. ASSUME NEW i, TickBox(i) \/ OpenDetail(i) PROVE PollParts'
    BY <1>1, <2>5, PollStays DEF TickBox, OpenDetail, poll
  <2>6. ASSUME NEW b, ToggleAll(b) PROVE PollParts'
    BY <1>1, <2>6, PollStays DEF ToggleAll, poll
  <2>7. ASSUME NEW v \in {"inbox", "compose"}, SelectView(v) PROVE PollParts'
    <3>1. CASE v # "inbox"
      BY <2>7, <3>1, PollStops DEF SelectView
    <3>2. CASE v = "inbox"
      <4>1. timer' = (timer \/ (enabled /\ loaded)) /\ UNCHANGED <<inFlight, pend, active>>
            /\ active /\ view' = "inbox"
        BY <2>7, <3>2 DEF SelectView
      <4>2. timer' \in BOOLEAN
        BY <4>1
      <4> QED
        BY <1>1, <4>1, <4>2 DEF PollParts, QuietElsewhere, PageActive
    <3> QED
      BY <3>1, <3>2
  <2> QED
    BY <1>5, <2>1, <2>2, <2>3, <2>4, <2>5, <2>6, <2>7 DEF User
<1>6. CASE Tick
  <2>1. CASE StopAutoRefresh
    BY <2>1, PollStops
  <2>2. CASE ~StopAutoRefresh
    BY <1>1, <1>6, <2>2 DEF Tick, PollParts, QuietElsewhere, PageActive
  <2> QED
    BY <2>1, <2>2
<1>7. ASSUME NEW f \in flights, ServerHandles(f) \/ ServerFails(f) PROVE PollParts'
  BY <1>1, <1>7, PollStays DEF ServerHandles, ServerFails, poll
<1>8. ASSUME NEW msg, Arrives(msg) PROVE PollParts'
  BY <1>1, <1>8, PollStays DEF Arrives, poll
<1> QED
  BY <1>2, <1>3, <1>4, <1>5, <1>6, <1>7, <1>8 DEF Next

-----------------------------------------------------------------------------
(* The theorems.                                                            *)

LEMMA InitIndInv == Init => IndInv
<1> SUFFICES ASSUME Init PROVE IndInv
  OBVIOUS
<1>1. Stored \in Lists /\ \A i \in DOMAIN Stored : Stored[i].msg \in Messages
  <2>1. Stored \in Lists
    BY StoredAssumption DEF Lists
  <2> QED
    BY <2>1, ListIsFunction DEF Texts
<1>2. StoreParts
  BY <1>1 DEF Init, StoreParts, StoreHasArrived
<1>3. ListParts
  BY EmptyIsList DEF Init, ListParts, MarksFollowMessages
<1>4. FlagParts /\ PollParts
  BY NoPendType DEF Init, FlagParts, PollParts, QuietElsewhere
<1>5. flights \subseteq Calls
  BY CallType DEF Init, Kinds, Conts
<1> QED
  BY <1>2, <1>3, <1>4, <1>5 DEF IndInv, TypeOK, StoreParts, ListParts, FlagParts, PollParts

LEMMA StepIndInv == IndInv /\ [Next]_vars => IndInv'
<1> SUFFICES ASSUME IndInv, [Next]_vars PROVE IndInv'
  OBVIOUS
<1>1. TypeOK /\ StoreHasArrived /\ MarksFollowMessages /\ QuietElsewhere
  BY DEF IndInv
<1>2. StoreParts' /\ ListParts' /\ FlagParts' /\ PollParts' /\ flights' \subseteq Calls
  BY <1>1, StepStore, StepList, StepFlags, StepPoll, StepFlights
<1> QED
  BY <1>2 DEF IndInv, TypeOK, StoreParts, ListParts, FlagParts, PollParts

\* IndInv holds in every state of the page.
THEOREM Invariance == Spec => []IndInv
BY InitIndInv, StepIndInv, PTL DEF Spec

\* Every variable of the page, the calls and the store keeps its type.
THEOREM TypeCorrect == Spec => []TypeOK
<1>1. IndInv => TypeOK
  BY DEF IndInv
<1> QED
  BY <1>1, Invariance, PTL

\* applySMSData and the restore functions: whatever replaces the list under
\* the user's hands (a poll, an answer that comes late, an error taken for an
\* empty list), what is ticked was ticked by the user and the open message is
\* the one opened. So a deletion never names a message that moved up.
THEOREM MarksStayOnMessages == Spec => []MarksFollowMessages
<1>1. IndInv => MarksFollowMessages
  BY DEF IndInv
<1> QED
  BY <1>1, Invariance, PTL

\* startSMSAutoRefresh and its callers: the page has its timer set only while
\* it is the one shown, whichever answer comes after it was left.
THEOREM NoPollElsewhere == Spec => []QuietElsewhere
<1>1. IndInv => QuietElsewhere
  BY DEF IndInv
<1> QED
  BY <1>1, Invariance, PTL
=============================================================================
