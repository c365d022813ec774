---------------------------- MODULE WebApiProofs ----------------------------
(* Proofs about WebApi, for every set of calls and connections. *)
EXTENDS WebApi, TLAPS

\* The ids given so far are among the ids given later.
LEMMA RangeGrows ==
  ASSUME NEW m \in Nat, NEW n \in Nat, m <= n PROVE 1..(m - 1) \subseteq 1..(n - 1)
OBVIOUS

\* What one batch of requests is made of: new ids, one for each waiting call.
LEMMA EntriesAre ==
  ASSUME NEW s \in Sockets, NEW calls \in Seq(Calls), nextId \in Nat \ {0}
  PROVE  /\ nextId + Len(calls) \in Nat \ {0}
         /\ nextId + Len(calls) >= nextId
         /\ \A e \in Entries(s, calls) :
              /\ e \in [id : nextId..(nextId + Len(calls) - 1), call : Calls, socket : Sockets]
              /\ e.id >= nextId
              /\ \E i \in DOMAIN calls : e.call = calls[i] /\ e.id = nextId + i - 1
         /\ \A i \in DOMAIN calls : \E e \in Entries(s, calls) : e.call = calls[i]
<1>1. Len(calls) \in Nat /\ DOMAIN calls = 1..Len(calls)
  OBVIOUS
<1>2. \A i \in DOMAIN calls : calls[i] \in Calls
  OBVIOUS
<1>3. ASSUME NEW e \in Entries(s, calls)
      PROVE  /\ e \in [id : nextId..(nextId + Len(calls) - 1), call : Calls, socket : Sockets]
             /\ e.id >= nextId
             /\ \E i \in DOMAIN calls : e.call = calls[i] /\ e.id = nextId + i - 1
  <2>1. PICK i \in 1..Len(calls) : e = [id |-> nextId + i - 1, call |-> calls[i], socket |-> s]
    BY DEF Entries
  <2> QED
    BY <1>1, <1>2, <2>1
<1>4. ASSUME NEW i \in DOMAIN calls
      PROVE  \E e \in Entries(s, calls) : e.call = calls[i]
  <2>1. [id |-> nextId + i - 1, call |-> calls[i], socket |-> s] \in Entries(s, calls)
    BY <1>1 DEF Entries
  <2> QED
    BY <2>1
<1> QED
  BY <1>1, <1>3, <1>4

\* Ids that were given stay below the next one.
LEMMA IdsBelow == ASSUME TypeOK PROVE \A x \in Tagged : x.id \in Nat /\ x.id < nextId /\ x.call \in Calls
BY DEF TypeOK, Tagged, Sent

LEMMA StepTypeOK == IndInv /\ [Next]_vars => TypeOK'
<1> SUFFICES ASSUME TypeOK, AttemptIsConnecting, [Next]_vars PROVE TypeOK'
  BY DEF IndInv
<1> USE NoSocketAssumption
<1>1. ASSUME NEW s \in Sockets, NEW calls \in Seq(Calls), SendAll(s, calls)
      PROVE  /\ nextId' \in Nat \ {0}
             /\ pending' \subseteq [id : 1..(nextId' - 1), call : Calls]
             /\ requests' \subseteq [id : 1..(nextId' - 1), call : Calls, socket : Sockets]
             /\ nextId' >= nextId
  <2>1. nextId \in Nat \ {0}
    BY DEF TypeOK
  <2>2. nextId' \in Nat \ {0} /\ nextId' >= nextId /\ nextId' = nextId + Len(calls)
    BY <1>1, <2>1, EntriesAre DEF SendAll
  <2>3. \A e \in Entries(s, calls) :
          e \in [id : nextId..(nextId' - 1), call : Calls, socket : Sockets]
    BY <2>1, <2>2, EntriesAre
  <2>4. nextId..(nextId' - 1) \subseteq 1..(nextId' - 1)
    BY <2>1, <2>2
  <2>5. \A e \in Entries(s, calls) :
          /\ e \in [id : 1..(nextId' - 1), call : Calls, socket : Sockets]
          /\ [id |-> e.id, call |-> e.call] \in [id : 1..(nextId' - 1), call : Calls]
    BY <2>3, <2>4
  <2>6. 1..(nextId - 1) \subseteq 1..(nextId' - 1)
    BY <2>1, <2>2
  <2>7. pending \subseteq [id : 1..(nextId' - 1), call : Calls]
    BY <2>6 DEF TypeOK
  <2>8. requests \subseteq [id : 1..(nextId' - 1), call : Calls, socket : Sockets]
    BY <2>6 DEF TypeOK
  <2> QED
    BY <1>1, <2>2, <2>5, <2>7, <2>8 DEF SendAll
<1>2. ASSUME nextId' \in Nat \ {0}, nextId' >= nextId,
              running' = running, replies' = replies
      PROVE  /\ running' \subseteq [id : 1..(nextId' - 1), call : Calls, socket : Sockets]
             /\ replies' \subseteq [id : 1..(nextId' - 1), call : Calls, socket : Sockets,
                                    status : {"answer", "refused"}]
  <2>1. nextId \in Nat \ {0}
    BY DEF TypeOK
  <2>2. nextId' \in Nat \ {0} /\ nextId' >= nextId
    BY <1>2
  <2>3. 1..(nextId - 1) \subseteq 1..(nextId' - 1)
    BY <2>1, <2>2, RangeGrows
  <2> QED
    BY <1>2, <2>3 DEF TypeOK
<1>3. ASSUME NEW c \in Calls, RequestNow(c) PROVE TypeOK'
  <2>1. ws \in Sockets /\ <<c>> \in Seq(Calls) /\ SendAll(ws, <<c>>)
    BY <1>3 DEF RequestNow, Reusable, TypeOK
  <2> QED
    BY <1>1, <1>2, <1>3, <2>1 DEF RequestNow, TypeOK, login
<1>4. ASSUME NEW c \in Calls, RequestJoins(c) PROVE TypeOK'
  BY <1>4 DEF RequestJoins, Joinable, TypeOK, login, server
<1>5. ASSUME NEW c \in Calls, NEW s \in Sockets, RequestConnects(c, s) PROVE TypeOK'
  BY <1>5 DEF RequestConnects, TypeOK, login, server, States
<1>6. ASSUME NEW s \in Sockets, OnOpen(s) PROVE TypeOK'
  <2>1. joined[s] \in Seq(Calls) /\ SendAll(s, joined[s])
    BY <1>6 DEF OnOpen, TypeOK
  <2> QED
    BY <1>1, <1>2, <1>6, <2>1 DEF OnOpen, TypeOK, login, States
<1>7. ASSUME NEW s \in Sockets, OnError(s) PROVE TypeOK'
  BY <1>7 DEF OnError, TypeOK, server, States, Failed
<1>8. ASSUME NEW s \in Sockets, Closing(s) PROVE TypeOK'
  BY <1>8 DEF Closing, TypeOK, client, server, login, States
<1>9. ASSUME NEW s \in Sockets, OnClose(s) PROVE TypeOK'
  BY <1>9 DEF OnClose, TypeOK, login, States, Failed
<1>10. ASSUME NEW r \in replies, OnMessage(r) PROVE TypeOK'
  BY <1>10 DEF OnMessage, TypeOK, login
<1>11. ASSUME NEW p \in pending, Timeout(p.id) PROVE TypeOK'
  BY <1>11 DEF Timeout, TypeOK, server, login, Failed
<1>12. ASSUME NEW r \in requests, ServerRefuses(r) PROVE TypeOK'
  BY <1>12 DEF ServerRefuses, Deliver, Reply, TypeOK, client, login
<1>13. ASSUME NEW r \in requests, ServerTakes(r) PROVE TypeOK'
  BY <1>13 DEF ServerTakes, TypeOK, client, login
<1>14. ASSUME NEW r \in requests, Lost(r) PROVE TypeOK'
  BY <1>14 DEF Lost, TypeOK, client, login
<1>15. ASSUME NEW r \in running, ServerAnswers(r) PROVE TypeOK'
  BY <1>15 DEF ServerAnswers, Deliver, Reply, TypeOK, client, login
<1>16. ASSUME SessionEnds \/ Checks PROVE TypeOK'
  BY <1>16 DEF SessionEnds, Checks, CheckHandled, CheckAnswered, TypeOK, client, server
<1>17. CASE UNCHANGED vars
  BY <1>17 DEF TypeOK, vars, client, server, login
<1> QED
  BY <1>3, <1>4, <1>5, <1>6, <1>7, <1>8, <1>9, <1>10, <1>11, <1>12, <1>13, <1>14, <1>15, <1>16, <1>17
  DEF Next, Page, Browser, Server

\* What a batch adds to the messages and entries that carry an id.
LEMMA Batch ==
  ASSUME TypeOK, NEW s \in Sockets, NEW calls \in Seq(Calls), SendAll(s, calls),
         running' = running, replies' = replies
  PROVE  /\ \A x \in Tagged' : \/ x \in Tagged
                               \/ \E i \in DOMAIN calls : x.call = calls[i] /\ x.id = nextId + i - 1
         /\ \A x \in requests' : \/ x \in requests
                                 \/ \E i \in DOMAIN calls :
                                      x = [id |-> nextId + i - 1, call |-> calls[i], socket |-> s]
         /\ \A x \in pending' : \/ x \in pending
                                \/ \E i \in DOMAIN calls :
                                     x = [id |-> nextId + i - 1, call |-> calls[i]]
         /\ \A i \in DOMAIN calls : \E p \in pending' : p.call = calls[i]
         /\ pending \subseteq pending'
         /\ DOMAIN calls \subseteq Nat
<1>1. DOMAIN calls = 1..Len(calls) /\ Len(calls) \in Nat /\ nextId \in Nat \ {0}
  BY DEF TypeOK
<1>2. pending' = pending \union {[id |-> e.id, call |-> e.call] : e \in Entries(s, calls)}
  BY DEF SendAll
<1>3. requests' = requests \union Entries(s, calls)
  BY DEF SendAll
<1>4. ASSUME NEW x \in requests', x \notin requests
      PROVE  \E i \in DOMAIN calls : x = [id |-> nextId + i - 1, call |-> calls[i], socket |-> s]
  BY <1>1, <1>3, <1>4 DEF Entries
<1>5. ASSUME NEW x \in pending', x \notin pending
      PROVE  \E i \in DOMAIN calls : x = [id |-> nextId + i - 1, call |-> calls[i]]
  <2>1. PICK e \in Entries(s, calls) : x = [id |-> e.id, call |-> e.call]
    BY <1>2, <1>5
  <2>2. PICK i \in DOMAIN calls : e = [id |-> nextId + i - 1, call |-> calls[i], socket |-> s]
    BY <1>1, <2>1 DEF Entries
  <2>3. e.id = nextId + i - 1 /\ e.call = calls[i]
    BY <2>2
  <2> QED
    BY <2>1, <2>3
<1>6. ASSUME NEW x \in Tagged', x \notin Tagged
      PROVE  \E i \in DOMAIN calls : x.call = calls[i] /\ x.id = nextId + i - 1
  <2>1. CASE x \in requests' /\ x \notin requests
    <3>1. PICK i \in DOMAIN calls : x = [id |-> nextId + i - 1, call |-> calls[i], socket |-> s]
      BY <1>4, <2>1
    <3> QED
      BY <3>1
  <2>2. CASE x \in pending' /\ x \notin pending
    <3>1. PICK i \in DOMAIN calls : x = [id |-> nextId + i - 1, call |-> calls[i]]
      BY <1>5, <2>2
    <3> QED
      BY <3>1
  <2> QED
    BY <1>6, <2>1, <2>2 DEF Tagged, Sent
<1>7. ASSUME NEW i \in DOMAIN calls PROVE \E p \in pending' : p.call = calls[i]
  <2>1. PICK e \in Entries(s, calls) : e.call = calls[i]
    BY <1>1, EntriesAre
  <2>2. [id |-> e.id, call |-> e.call] \in pending'
    BY <1>2, <2>1
  <2> QED
    BY <2>1, <2>2
<1> QED
  BY <1>1, <1>2, <1>4, <1>5, <1>6, <1>7

\* Apart from the two actions that send, a step puts no id on a call it was not on.
NoNew == \A x \in Tagged' : \E y \in Tagged : y.id = x.id /\ y.call = x.call

LEMMA StepTags ==
  ASSUME TypeOK, [Next]_vars
  PROVE  \/ NoNew
         \/ \E c \in Calls : RequestNow(c)
         \/ \E s \in Sockets : OnOpen(s)
<1>1. ASSUME pending' \subseteq pending, UNCHANGED server PROVE NoNew
  BY <1>1 DEF NoNew, Tagged, Sent, server
<1>2. ASSUME NEW c \in Calls, RequestJoins(c) PROVE NoNew
  BY <1>1, <1>2 DEF RequestJoins
<1>3. ASSUME NEW c \in Calls, NEW s \in Sockets, RequestConnects(c, s) PROVE NoNew
  BY <1>1, <1>3 DEF RequestConnects
<1>4. ASSUME NEW s \in Sockets, OnError(s) PROVE NoNew
  BY <1>1, <1>4 DEF OnError
<1>5. ASSUME NEW s \in Sockets, Closing(s) PROVE NoNew
  BY <1>1, <1>5 DEF Closing, client
<1>6. ASSUME NEW s \in Sockets, OnClose(s) PROVE NoNew
  BY <1>6 DEF OnClose, NoNew, Tagged, Sent
<1>7. ASSUME NEW r \in replies, OnMessage(r) PROVE NoNew
  BY <1>7 DEF OnMessage, NoNew, Tagged, Sent
<1>8. ASSUME NEW p \in pending, Timeout(p.id) PROVE NoNew
  BY <1>1, <1>8 DEF Timeout
<1>9. ASSUME NEW r \in requests, ServerRefuses(r) PROVE NoNew
  <2>1. \A x \in Tagged' : x \in Tagged \/ x = Reply(r, "refused")
    BY <1>9 DEF ServerRefuses, Deliver, Tagged, Sent, client
  <2>2. r \in Tagged /\ Reply(r, "refused").id = r.id /\ Reply(r, "refused").call = r.call
    BY DEF Reply, Tagged, Sent
  <2> QED
    BY <2>1, <2>2 DEF NoNew
<1>10. ASSUME NEW r \in requests, ServerTakes(r) PROVE NoNew
  BY <1>10 DEF ServerTakes, NoNew, Tagged, Sent, client
<1>11. ASSUME NEW r \in requests, Lost(r) PROVE NoNew
  BY <1>11 DEF Lost, NoNew, Tagged, Sent, client
<1>12. ASSUME NEW r \in running, ServerAnswers(r) PROVE NoNew
  <2>1. \A x \in Tagged' : x \in Tagged \/ x = Reply(r, "answer")
    BY <1>12 DEF ServerAnswers, Deliver, Tagged, Sent, client
  <2>2. r \in Tagged /\ Reply(r, "answer").id = r.id /\ Reply(r, "answer").call = r.call
    BY DEF Reply, Tagged, Sent
  <2> QED
    BY <2>1, <2>2 DEF NoNew
<1>13. ASSUME SessionEnds \/ Checks PROVE NoNew
  BY <1>1, <1>13 DEF SessionEnds, Checks, CheckHandled, CheckAnswered, client
<1>14. CASE UNCHANGED vars
  BY <1>1, <1>14 DEF vars, client
<1> QED
  BY <1>2, <1>3, <1>4, <1>5, <1>6, <1>7, <1>8, <1>9, <1>10, <1>11, <1>12, <1>13, <1>14
  DEF Next, Page, Browser, Server

\* The two actions that send are batches of calls that are nowhere yet.
LEMMA SendsBatch ==
  ASSUME IndInv
  PROVE  /\ \A c \in Calls : RequestNow(c) =>
              /\ ws \in Sockets /\ <<c>> \in Seq(Calls) /\ SendAll(ws, <<c>>)
              /\ running' = running /\ replies' = replies
              /\ DOMAIN <<c>> = {1} /\ <<c>>[1] = c
              /\ NotSent(c) /\ c \notin made
         /\ \A s \in Sockets : OnOpen(s) =>
              /\ joined[s] \in Seq(Calls) /\ SendAll(s, joined[s])
              /\ running' = running /\ replies' = replies
<1>1. ASSUME NEW c \in Calls, RequestNow(c)
      PROVE  /\ ws \in Sockets /\ <<c>> \in Seq(Calls) /\ SendAll(ws, <<c>>)
             /\ running' = running /\ replies' = replies
             /\ DOMAIN <<c>> = {1} /\ <<c>>[1] = c
             /\ NotSent(c) /\ c \notin made
  <2>1. ws \in Sockets
    BY <1>1 DEF RequestNow, Reusable, IndInv, TypeOK
  <2>2. NotSent(c) /\ c \notin made
    BY <1>1 DEF RequestNow, IndInv, OnlyMade, NotSent
  <2> QED
    BY <1>1, <2>1, <2>2 DEF RequestNow
<1>2. ASSUME NEW s \in Sockets, OnOpen(s)
      PROVE  /\ joined[s] \in Seq(Calls) /\ SendAll(s, joined[s])
             /\ running' = running /\ replies' = replies
  BY <1>2 DEF OnOpen, IndInv, TypeOK
<1> QED
  BY <1>1, <1>2

LEMMA StepOneId == IndInv /\ [Next]_vars => OneId'
<1> SUFFICES ASSUME IndInv, [Next]_vars PROVE OneId'
  OBVIOUS
<1>1. OneId /\ TypeOK
  BY DEF IndInv
<1>2. ASSUME NEW s \in Sockets, NEW calls \in Seq(Calls), SendAll(s, calls),
             running' = running, replies' = replies
      PROVE  OneId'
  <2> SUFFICES ASSUME NEW x \in Tagged', NEW y \in Tagged', x.id = y.id PROVE x.call = y.call
    BY DEF OneId
  <2> DEFINE New(z) == \E i \in DOMAIN calls : z.call = calls[i] /\ z.id = nextId + i - 1
  <2>1. \A z \in Tagged' : z \in Tagged \/ New(z)
    BY <1>1, <1>2, Batch
  <2>2. DOMAIN calls \subseteq Nat \ {0}
    <3>1. DOMAIN calls = 1..Len(calls) /\ Len(calls) \in Nat
      OBVIOUS
    <3> QED
      BY <3>1
  <2>3. nextId \in Nat /\ \A z \in Tagged : z.id \in Nat /\ z.id < nextId
    BY <1>1, IdsBelow DEF TypeOK
  <2>4. \A z : New(z) => z.id >= nextId
    BY <2>2, <2>3
  <2>5. CASE x \in Tagged /\ y \in Tagged
    BY <1>1, <2>5 DEF OneId
  <2>6. CASE x \in Tagged /\ New(y)
    BY <2>3, <2>6, <2>4
  <2>7. CASE New(x) /\ y \in Tagged
    <3>1. x.id >= nextId
      BY <2>7, <2>4
    <3>2. y.id \in Nat /\ y.id < nextId
      BY <2>3, <2>7
    <3> QED
      BY <2>3, <3>1, <3>2
  <2>8. CASE New(x) /\ New(y)
    <3>1. PICK i \in DOMAIN calls : x.call = calls[i] /\ x.id = nextId + i - 1
      BY <2>8
    <3>2. PICK j \in DOMAIN calls : y.call = calls[j] /\ y.id = nextId + j - 1
      BY <2>8
    <3>3. i \in Nat /\ j \in Nat /\ nextId + i - 1 = nextId + j - 1
      BY <2>2, <3>1, <3>2
    <3>4. i = j
      BY <2>3, <3>3
    <3> QED
      BY <3>1, <3>2, <3>4
  <2> QED
    BY <2>1, <2>5, <2>6, <2>7, <2>8
<1>3. CASE NoNew
  BY <1>1, <1>3 DEF NoNew, OneId
<1>4. ASSUME NEW c \in Calls, RequestNow(c) PROVE OneId'
  BY <1>2, <1>4, SendsBatch
<1>5. ASSUME NEW s \in Sockets, OnOpen(s) PROVE OneId'
  BY <1>2, <1>5, SendsBatch
<1> QED
  BY <1>1, <1>3, <1>4, <1>5, StepTags

\* What a batch of calls that are nowhere yet leaves true.
LEMMA BatchKeeps ==
  ASSUME IndInv, NEW s \in Sockets, NEW calls \in Seq(Calls), SendAll(s, calls),
         running' = running, replies' = replies, handled' = handled, result' = result,
         \A i \in DOMAIN calls : NotSent(calls[i]),
         \A i, j \in DOMAIN calls : calls[i] = calls[j] => i = j
  PROVE  SentOnce' /\ RepliesAreTrue' /\ PendingWaits'
<1>1. /\ \A x \in requests' : \/ x \in requests
                              \/ \E i \in DOMAIN calls :
                                   x = [id |-> nextId + i - 1, call |-> calls[i], socket |-> s]
      /\ \A x \in pending' : \/ x \in pending
                             \/ \E i \in DOMAIN calls : x = [id |-> nextId + i - 1, call |-> calls[i]]
  BY Batch DEF IndInv
<1>2. \A i \in DOMAIN calls : /\ calls[i] \notin handled /\ result[calls[i]] = "none"
                              /\ \A x \in pending : x.call # calls[i]
                              /\ \A x \in requests : x.call # calls[i]
                              /\ \A x \in running : x.call # calls[i]
                              /\ \A x \in replies : x.call # calls[i]
  BY DEF NotSent, Tagged, Sent
<1>3. \A x \in Sent' : \/ x \in Sent
                       \/ \E i \in DOMAIN calls :
                            x = [id |-> nextId + i - 1, call |-> calls[i], socket |-> s]
  BY <1>1 DEF Sent
<1>4. SentOnce'
  <2>1. SentOnce
    BY DEF IndInv
  <2>2. ASSUME NEW r \in Sent'
        PROVE  /\ r.call \notin handled /\ result[r.call] # "refused"
               /\ \A q \in replies : q.call # r.call
    BY <1>2, <1>3, <2>1 DEF SentOnce
  <2>3. ASSUME NEW r \in Sent', NEW q \in Sent', r.call = q.call PROVE r = q
    <3>1. \A x \in Sent : \A i \in DOMAIN calls : x.call # calls[i]
      BY <1>2 DEF Sent
    <3> QED
      BY <1>3, <2>1, <2>3, <3>1 DEF SentOnce
  <2>4. requests' \intersect running' = {}
    BY <1>1, <1>2, <2>1 DEF SentOnce
  <2> QED
    BY <2>2, <2>3, <2>4 DEF SentOnce
<1>5. RepliesAreTrue'
  BY DEF IndInv, RepliesAreTrue
<1>6. PendingWaits'
  <2>1. PendingWaits
    BY DEF IndInv
  <2>2. ASSUME NEW p \in pending' PROVE result[p.call] = "none"
    BY <1>1, <1>2, <2>1 DEF PendingWaits
  <2>3. ASSUME NEW p \in pending', NEW q \in pending', p.call = q.call PROVE p = q
    BY <1>1, <1>2, <2>1, <2>3 DEF PendingWaits
  <2> QED
    BY <2>2, <2>3 DEF PendingWaits
<1> QED
  BY <1>4, <1>5, <1>6

LEMMA SendsKeep ==
  ASSUME IndInv
  PROVE  /\ \A c \in Calls : RequestNow(c) => SentOnce' /\ RepliesAreTrue' /\ PendingWaits'
         /\ \A s \in Sockets : OnOpen(s) => SentOnce' /\ RepliesAreTrue' /\ PendingWaits'
<1>1. ASSUME NEW c \in Calls, RequestNow(c) PROVE SentOnce' /\ RepliesAreTrue' /\ PendingWaits'
  <2>1. handled' = handled /\ result' = result
    BY <1>1 DEF RequestNow
  <2>2. /\ \A i \in DOMAIN <<c>> : NotSent(<<c>>[i])
        /\ \A i, j \in DOMAIN <<c>> : <<c>>[i] = <<c>>[j] => i = j
    BY <1>1, SendsBatch
  <2> QED
    BY <1>1, <2>1, <2>2, SendsBatch, BatchKeeps
<1>2. ASSUME NEW s \in Sockets, OnOpen(s) PROVE SentOnce' /\ RepliesAreTrue' /\ PendingWaits'
  <2>1. handled' = handled /\ result' = result
    BY <1>2 DEF OnOpen
  <2>2. /\ \A i \in DOMAIN joined[s] : NotSent(joined[s][i])
        /\ \A i, j \in DOMAIN joined[s] : joined[s][i] = joined[s][j] => i = j
    BY DEF IndInv, JoinedOnce
  <2> QED
    BY <1>2, <2>1, <2>2, SendsBatch, BatchKeeps
<1> QED
  BY <1>1, <1>2

LEMMA StepSentOnce == IndInv /\ [Next]_vars => SentOnce'
<1> SUFFICES ASSUME IndInv, [Next]_vars PROVE SentOnce'
  OBVIOUS
<1>1. SentOnce /\ TypeOK /\ OneId
  BY DEF IndInv
<1>2. ASSUME UNCHANGED <<requests, running, handled>>, replies' \subseteq replies,
             \A c \in Calls : result'[c] \in {result[c], "failed"}
      PROVE  SentOnce'
  BY <1>1, <1>2 DEF SentOnce, Sent, TypeOK
<1>3. ASSUME NEW c \in Calls, RequestNow(c) PROVE SentOnce'
  BY <1>3, SendsKeep
<1>4. ASSUME NEW c \in Calls, RequestJoins(c) PROVE SentOnce'
  BY <1>2, <1>4 DEF RequestJoins, server
<1>5. ASSUME NEW c \in Calls, NEW s \in Sockets, RequestConnects(c, s) PROVE SentOnce'
  BY <1>2, <1>5 DEF RequestConnects, server
<1>6. ASSUME NEW s \in Sockets, OnOpen(s) PROVE SentOnce'
  BY <1>6, SendsKeep
<1>7. ASSUME NEW s \in Sockets, OnError(s) PROVE SentOnce'
  BY <1>2, <1>7 DEF OnError, server, Failed
<1>8. ASSUME NEW s \in Sockets, Closing(s) PROVE SentOnce'
  BY <1>2, <1>8 DEF Closing, server
<1>9. ASSUME NEW s \in Sockets, OnClose(s) PROVE SentOnce'
  BY <1>2, <1>9 DEF OnClose, Failed
<1>10. ASSUME NEW r \in replies, OnMessage(r) PROVE SentOnce'
  <2>1. UNCHANGED <<requests, running, handled>> /\ replies' \subseteq replies
    BY <1>10 DEF OnMessage
  <2>2. \A p \in Item(r.id) : p.call = r.call
    BY <1>1 DEF OneId, Item, Tagged
  <2>3. \A c \in Calls : c # r.call => result'[c] = result[c]
    BY <1>10, <2>2 DEF OnMessage
  <2>4. \A x \in Sent : x.call \in Calls /\ x.call # r.call
    BY <1>1 DEF SentOnce, TypeOK, Sent
  <2> QED
    BY <1>1, <2>1, <2>3, <2>4 DEF SentOnce, Sent
<1>11. ASSUME NEW p \in pending, Timeout(p.id) PROVE SentOnce'
  BY <1>2, <1>11 DEF Timeout, server, Failed
<1>12. ASSUME NEW r \in requests, ServerRefuses(r) PROVE SentOnce'
  <2>1. replies' \subseteq replies \union {Reply(r, "refused")} /\ Reply(r, "refused").call = r.call
    BY <1>12 DEF ServerRefuses, Deliver, Reply
  <2>2. Sent' = Sent \ {r} /\ requests' = requests \ {r}
    BY <1>1, <1>12 DEF ServerRefuses, Sent, SentOnce
  <2>3. r \in Sent /\ handled' = handled /\ result' = result /\ running' = running
    BY <1>12 DEF ServerRefuses, Sent
  <2> QED
    BY <1>1, <2>1, <2>2, <2>3 DEF SentOnce
<1>13. ASSUME NEW r \in requests, ServerTakes(r) PROVE SentOnce'
  <2>1. Sent' = Sent /\ requests' = requests \ {r} /\ running' = running \union {r}
    BY <1>13 DEF ServerTakes, Sent
  <2>2. replies' = replies /\ handled' = handled /\ result' = result
    BY <1>13 DEF ServerTakes
  <2> QED
    BY <1>1, <2>1, <2>2 DEF SentOnce
<1>14. ASSUME NEW r \in requests, Lost(r) PROVE SentOnce'
  BY <1>1, <1>14 DEF Lost, SentOnce, Sent
<1>15. ASSUME NEW r \in running, ServerAnswers(r) PROVE SentOnce'
  <2>1. replies' \subseteq replies \union {Reply(r, "answer")} /\ Reply(r, "answer").call = r.call
    BY <1>15 DEF ServerAnswers, Deliver, Reply
  <2>2. Sent' = Sent \ {r} /\ running' = running \ {r} /\ requests' = requests
    BY <1>1, <1>15 DEF ServerAnswers, Sent, SentOnce
  <2>3. r \in Sent /\ handled' = handled \union {r.call} /\ result' = result
    BY <1>15 DEF ServerAnswers, Sent
  <2> QED
    BY <1>1, <2>1, <2>2, <2>3 DEF SentOnce
<1>16. ASSUME SessionEnds \/ Checks PROVE SentOnce'
  BY <1>2, <1>16 DEF SessionEnds, Checks, CheckHandled, CheckAnswered, server
<1>17. CASE UNCHANGED vars
  BY <1>2, <1>17 DEF vars, server
<1> QED
  BY <1>3, <1>4, <1>5, <1>6, <1>7, <1>8, <1>9, <1>10, <1>11, <1>12, <1>13, <1>14, <1>15, <1>16, <1>17
  DEF Next, Page, Browser, Server

LEMMA StepRepliesAreTrue == IndInv /\ [Next]_vars => RepliesAreTrue'
<1> SUFFICES ASSUME IndInv, [Next]_vars PROVE RepliesAreTrue'
  OBVIOUS
<1>1. SentOnce /\ RepliesAreTrue
  BY DEF IndInv
<1>2. ASSUME handled' = handled, replies' \subseteq replies PROVE RepliesAreTrue'
  BY <1>1, <1>2 DEF RepliesAreTrue
<1>3. ASSUME NEW c \in Calls, RequestNow(c) PROVE RepliesAreTrue'
  BY <1>2, <1>3 DEF RequestNow
<1>4. ASSUME NEW c \in Calls, RequestJoins(c) PROVE RepliesAreTrue'
  BY <1>2, <1>4 DEF RequestJoins, server
<1>5. ASSUME NEW c \in Calls, NEW s \in Sockets, RequestConnects(c, s) PROVE RepliesAreTrue'
  BY <1>2, <1>5 DEF RequestConnects, server
<1>6. ASSUME NEW s \in Sockets, OnOpen(s) \/ OnError(s) \/ Closing(s) \/ OnClose(s)
      PROVE  RepliesAreTrue'
  BY <1>2, <1>6 DEF OnOpen, OnError, Closing, OnClose, server
<1>7. ASSUME NEW r \in replies, OnMessage(r) PROVE RepliesAreTrue'
  BY <1>2, <1>7 DEF OnMessage
<1>8. ASSUME NEW p \in pending, Timeout(p.id) PROVE RepliesAreTrue'
  BY <1>2, <1>8 DEF Timeout, server
<1>9. ASSUME NEW r \in requests, ServerRefuses(r) PROVE RepliesAreTrue'
  <2>1. replies' \subseteq replies \union {Reply(r, "refused")} /\ handled' = handled
    BY <1>9 DEF ServerRefuses, Deliver
  <2>2. Reply(r, "refused").status = "refused" /\ Reply(r, "refused").call = r.call
    BY DEF Reply
  <2>3. r.call \notin handled
    BY <1>1 DEF SentOnce, Sent
  <2> QED
    BY <1>1, <2>1, <2>2, <2>3 DEF RepliesAreTrue
<1>10. ASSUME NEW r \in requests, ServerTakes(r) \/ Lost(r) PROVE RepliesAreTrue'
  BY <1>2, <1>10 DEF ServerTakes, Lost
<1>11. ASSUME NEW r \in running, ServerAnswers(r) PROVE RepliesAreTrue'
  <2>1. replies' \subseteq replies \union {Reply(r, "answer")} /\ handled' = handled \union {r.call}
    BY <1>11 DEF ServerAnswers, Deliver
  <2>2. Reply(r, "answer").status = "answer" /\ Reply(r, "answer").call = r.call
    BY DEF Reply
  <2>3. \A q \in replies : q.call # r.call
    BY <1>1 DEF SentOnce, Sent
  <2> QED
    BY <1>1, <2>1, <2>2, <2>3 DEF RepliesAreTrue
<1>12. ASSUME SessionEnds \/ Checks PROVE RepliesAreTrue'
  BY <1>2, <1>12 DEF SessionEnds, Checks, CheckHandled, CheckAnswered, server
<1>13. CASE UNCHANGED vars
  BY <1>2, <1>13 DEF vars, server
<1> QED
  BY <1>3, <1>4, <1>5, <1>6, <1>7, <1>8, <1>9, <1>10, <1>11, <1>12, <1>13
  DEF Next, Page, Browser, Server

LEMMA StepPendingWaits == IndInv /\ [Next]_vars => PendingWaits'
<1> SUFFICES ASSUME IndInv, [Next]_vars PROVE PendingWaits'
  OBVIOUS
<1>1. PendingWaits /\ TypeOK
  BY DEF IndInv
<1>2. ASSUME pending' \subseteq pending, \A p \in pending' : result'[p.call] = result[p.call]
      PROVE  PendingWaits'
  BY <1>1, <1>2 DEF PendingWaits
<1>3. \A p \in pending : p.call \in Calls
  BY <1>1 DEF TypeOK
<1>4. ASSUME NEW c \in Calls, RequestNow(c) PROVE PendingWaits'
  BY <1>4, SendsKeep
<1>5. ASSUME NEW s \in Sockets, OnOpen(s) PROVE PendingWaits'
  BY <1>5, SendsKeep
<1>6. ASSUME NEW s \in Sockets, OnError(s) \/ OnClose(s) PROVE PendingWaits'
  BY <1>6 DEF OnError, OnClose, PendingWaits
<1>7. ASSUME NEW r \in replies, OnMessage(r) PROVE PendingWaits'
  <2>1. pending' = pending \ Item(r.id)
    BY <1>7 DEF OnMessage
  <2>2. \A p \in pending' : \A q \in Item(r.id) : q.call # p.call
    BY <1>1, <2>1 DEF PendingWaits, Item
  <2>3. \A p \in pending' : result'[p.call] = result[p.call]
    BY <1>3, <1>7, <2>1, <2>2 DEF OnMessage
  <2> QED
    BY <1>2, <2>1, <2>3
<1>8. ASSUME NEW p \in pending, Timeout(p.id) PROVE PendingWaits'
  <2>1. pending' = pending \ Item(p.id)
    BY <1>8 DEF Timeout, Expired
  <2>2. \A x \in pending' : x.call \notin {q.call : q \in Expired(p.id)}
    BY <1>1, <2>1 DEF PendingWaits, Item, Expired
  <2>3. \A x \in pending' : result'[x.call] = result[x.call]
    BY <1>3, <1>8, <2>1, <2>2 DEF Timeout, Failed
  <2> QED
    BY <1>2, <2>1, <2>3
<1>9. ASSUME UNCHANGED <<pending, result>> PROVE PendingWaits'
  BY <1>2, <1>9
<1>10. ASSUME NEW c \in Calls, RequestJoins(c) PROVE PendingWaits'
  BY <1>9, <1>10 DEF RequestJoins
<1>11. ASSUME NEW c \in Calls, NEW s \in Sockets, RequestConnects(c, s) PROVE PendingWaits'
  BY <1>9, <1>11 DEF RequestConnects
<1>12. ASSUME NEW s \in Sockets, Closing(s) PROVE PendingWaits'
  BY <1>9, <1>12 DEF Closing, client
<1>13. ASSUME Server PROVE PendingWaits'
  BY <1>9, <1>13 DEF Server, ServerRefuses, ServerTakes, Lost, ServerAnswers, SessionEnds, client
<1>14. ASSUME Checks \/ UNCHANGED vars PROVE PendingWaits'
  BY <1>9, <1>14 DEF Checks, CheckHandled, CheckAnswered, client, vars
<1> QED
  BY <1>4, <1>5, <1>6, <1>7, <1>8, <1>10, <1>11, <1>12, <1>13, <1>14 DEF Next, Page, Browser

LEMMA StepOnlyMade == IndInv /\ [Next]_vars => OnlyMade'
<1> SUFFICES ASSUME IndInv, [Next]_vars PROVE OnlyMade'
  OBVIOUS
<1>1. OnlyMade /\ TypeOK
  BY DEF IndInv
<1>2. /\ made \subseteq made'
      /\ \A c \in Calls \ made' : result'[c] = result[c]
      /\ \A s \in Sockets : \A i \in DOMAIN joined'[s] : joined'[s][i] \in made'
      /\ handled' \subseteq made'
  <2> DEFINE Keeps == /\ made \subseteq made'
                      /\ \A c \in Calls \ made' : result'[c] = result[c]
                      /\ \A s \in Sockets : \A i \in DOMAIN joined'[s] : joined'[s][i] \in made'
                      /\ handled' \subseteq made'
  <2>1. ASSUME made \subseteq made', UNCHANGED <<joined, handled, result>> PROVE Keeps
    BY <1>1, <2>1 DEF OnlyMade
  <2>2. ASSUME NEW c \in Calls, RequestNow(c) PROVE Keeps
    BY <2>1, <2>2 DEF RequestNow
  <2>3. ASSUME NEW c \in Calls, RequestJoins(c) PROVE Keeps
    <3>1. ASSUME NEW s \in Sockets, NEW i \in DOMAIN joined'[s] PROVE joined'[s][i] \in made \union {c}
      <4>1. joined[s] \in Seq(Calls)
        BY <1>1 DEF TypeOK
      <4>2. joined'[s] = joined[s] \/ joined'[s] = Append(joined[s], c)
        BY <1>1, <2>3 DEF RequestJoins, TypeOK
      <4> QED
        BY <1>1, <3>1, <4>1, <4>2 DEF OnlyMade
    <3> QED
      BY <1>1, <2>3, <3>1 DEF RequestJoins, server, OnlyMade
  <2>4. ASSUME NEW c \in Calls, NEW s \in Sockets, RequestConnects(c, s) PROVE Keeps
    <3>1. ASSUME NEW t \in Sockets, NEW i \in DOMAIN joined'[t] PROVE joined'[t][i] \in made \union {c}
      <4>1. joined'[t] = joined[t] \/ joined'[t] = <<c>>
        BY <1>1, <2>4 DEF RequestConnects, TypeOK
      <4> QED
        BY <1>1, <3>1, <4>1 DEF OnlyMade
    <3> QED
      BY <1>1, <2>4, <3>1 DEF RequestConnects, server, OnlyMade
  <2>5. ASSUME NEW s \in Sockets, OnOpen(s) PROVE Keeps
    <3>1. \A t \in Sockets : joined'[t] = joined[t] \/ joined'[t] = <<>>
      BY <1>1, <2>5 DEF OnOpen, TypeOK
    <3> QED
      BY <1>1, <2>5, <3>1 DEF OnOpen, OnlyMade
  <2>6. \A p \in pending : p.call \in made
    BY <1>1 DEF OnlyMade, Tagged
  <2>7. ASSUME NEW s \in Sockets, OnError(s) PROVE Keeps
    <3>1. \A t \in Sockets : joined'[t] = joined[t] \/ joined'[t] = <<>>
      BY <1>1, <2>7 DEF OnError, TypeOK
    <3>2. RejectAll \union JoinedBy(s) \subseteq made
      BY <1>1, <2>6 DEF RejectAll, JoinedBy, OnlyMade
    <3> QED
      BY <1>1, <2>7, <3>1, <3>2 DEF OnError, server, Failed, OnlyMade
  <2>8. ASSUME NEW s \in Sockets, Closing(s) PROVE Keeps
    BY <2>1, <2>8 DEF Closing, client, server
  <2>9. ASSUME NEW s \in Sockets, OnClose(s) PROVE Keeps
    BY <1>1, <2>6, <2>9 DEF OnClose, Failed, RejectAll, OnlyMade
  <2>10. ASSUME NEW r \in replies, OnMessage(r) PROVE Keeps
    BY <1>1, <2>6, <2>10 DEF OnMessage, Item, OnlyMade
  <2>11. ASSUME NEW p \in pending, Timeout(p.id) PROVE Keeps
    BY <1>1, <2>6, <2>11 DEF Timeout, Failed, Expired, Item, OnlyMade, server
  <2>12. ASSUME NEW r \in requests, ServerRefuses(r) \/ ServerTakes(r) \/ Lost(r) PROVE Keeps
    BY <2>1, <2>12 DEF ServerRefuses, ServerTakes, Lost, client
  <2>13. ASSUME NEW r \in running, ServerAnswers(r) PROVE Keeps
    <3>1. r.call \in made
      BY <1>1 DEF OnlyMade, Tagged, Sent
    <3> QED
      BY <1>1, <2>13, <3>1 DEF ServerAnswers, client, OnlyMade
  <2>14. ASSUME SessionEnds \/ Checks \/ UNCHANGED vars PROVE Keeps
    BY <2>1, <2>14 DEF SessionEnds, Checks, CheckHandled, CheckAnswered, vars, client, server
  <2> QED
    BY <2>2, <2>3, <2>4, <2>5, <2>7, <2>8, <2>9, <2>10, <2>11, <2>12, <2>13, <2>14
    DEF Next, Page, Browser, Server
<1>3. \A x \in Tagged' : x.call \in made'
  <2>1. CASE NoNew
    BY <1>1, <1>2, <2>1 DEF NoNew, OnlyMade
  <2>2. ASSUME NEW c \in Calls, RequestNow(c) PROVE \A x \in Tagged' : x.call \in made'
    <3> DEFINE calls == <<c>>
    <3>0. /\ ws \in Sockets /\ calls \in Seq(Calls) /\ SendAll(ws, calls)
          /\ running' = running /\ replies' = replies
          /\ DOMAIN calls = {1} /\ calls[1] = c
      BY <2>2, SendsBatch
    <3> HIDE DEF calls
    <3>1. \A x \in Tagged' : x \in Tagged \/ x.call = c
      BY <1>1, <3>0, Batch
    <3>2. c \in made'
      BY <2>2 DEF RequestNow
    <3> QED
      BY <1>1, <1>2, <3>1, <3>2 DEF OnlyMade
  <2>3. ASSUME NEW s \in Sockets, OnOpen(s) PROVE \A x \in Tagged' : x.call \in made'
    <3>1. \A x \in Tagged' : x \in Tagged \/ \E i \in DOMAIN joined[s] : x.call = joined[s][i]
      BY <1>1, <2>3, SendsBatch, Batch
    <3> QED
      BY <1>1, <1>2, <3>1 DEF OnlyMade
  <2> QED
    BY <1>1, <2>1, <2>2, <2>3, StepTags
<1> QED
  BY <1>1, <1>2, <1>3 DEF OnlyMade

LEMMA StepAttempt == IndInv /\ [Next]_vars => AttemptIsConnecting'
<1> SUFFICES ASSUME IndInv, [Next]_vars PROVE AttemptIsConnecting'
  OBVIOUS
<1> USE DEF AttemptIsConnecting
<1>1. AttemptIsConnecting /\ TypeOK
  BY DEF IndInv
<1>2. ASSUME UNCHANGED <<state, connectPromise>> PROVE AttemptIsConnecting'
  BY <1>1, <1>2
<1>3. ASSUME NEW c \in Calls, RequestNow(c) \/ RequestJoins(c) PROVE AttemptIsConnecting'
  BY <1>2, <1>3 DEF RequestNow, RequestJoins
<1>4. ASSUME NEW c \in Calls, NEW s \in Sockets, RequestConnects(c, s) PROVE AttemptIsConnecting'
  BY <1>1, <1>4 DEF RequestConnects, TypeOK
<1>5. ASSUME NEW s \in Sockets, OnOpen(s) \/ OnError(s) \/ OnClose(s) PROVE AttemptIsConnecting'
  BY <1>5 DEF OnOpen, OnError, OnClose
<1>6. ASSUME NEW s \in Sockets, Closing(s) PROVE AttemptIsConnecting'
  BY <1>1, <1>6 DEF Closing, client, TypeOK
<1>7. ASSUME NEW r \in replies, OnMessage(r) PROVE AttemptIsConnecting'
  BY <1>2, <1>7 DEF OnMessage
<1>8. ASSUME NEW p \in pending, Timeout(p.id) PROVE AttemptIsConnecting'
  BY <1>2, <1>8 DEF Timeout
<1>9. ASSUME Server PROVE AttemptIsConnecting'
  BY <1>2, <1>9 DEF Server, ServerRefuses, ServerTakes, Lost, ServerAnswers, SessionEnds, client
<1>10. ASSUME Checks \/ UNCHANGED vars PROVE AttemptIsConnecting'
  BY <1>2, <1>10 DEF Checks, CheckHandled, CheckAnswered, client, vars
<1> QED
  BY <1>3, <1>4, <1>5, <1>6, <1>7, <1>8, <1>9, <1>10 DEF Next, Page, Browser

\* NotSent after the step, of a call named before it.
UnsentNext(c) ==
  /\ c \notin handled' /\ result'[c] = "none"
  /\ \A x \in Tagged' : x.call # c

LEMMA JoinedOnceNext ==
  ASSUME \A s \in Sockets : \A i \in DOMAIN joined'[s] : UnsentNext(joined'[s][i]),
         \A s, t \in Sockets : \A i \in DOMAIN joined'[s], j \in DOMAIN joined'[t] :
           joined'[s][i] = joined'[t][j] => s = t /\ i = j
  PROVE  JoinedOnce'
BY DEF JoinedOnce, NotSent, UnsentNext

LEMMA StepJoinedOnce == IndInv /\ [Next]_vars => JoinedOnce'
<1> SUFFICES ASSUME IndInv, [Next]_vars PROVE JoinedOnce'
  OBVIOUS
<1>1. JoinedOnce /\ OnlyMade /\ PendingWaits /\ TypeOK
  BY DEF IndInv
<1>2. /\ \A p \in pending : p \in Tagged
      /\ \A r \in requests : r \in Tagged
      /\ \A r \in running : r \in Tagged
      /\ \A r \in replies : r \in Tagged
  BY DEF Tagged, Sent
\* The lists only shrink, and what is on them stays unsent and unsettled.
<1>3. ASSUME NoNew,
             \A s \in Sockets : joined'[s] = joined[s] \/ joined'[s] = <<>>,
             \A s \in Sockets : joined'[s] = joined[s] =>
               \A i \in DOMAIN joined[s] : /\ joined[s][i] \notin handled' \ handled
                                           /\ result'[joined[s][i]] = result[joined[s][i]]
      PROVE  JoinedOnce'
  <2>1. ASSUME NEW s \in Sockets, NEW i \in DOMAIN joined'[s] PROVE UnsentNext(joined'[s][i])
    <3>1. joined'[s] = joined[s] /\ i \in DOMAIN joined[s]
      BY <1>3, <2>1
    <3>2. NotSent(joined[s][i])
      BY <1>1, <3>1 DEF JoinedOnce
    <3> QED
      BY <1>3, <3>1, <3>2 DEF NotSent, UnsentNext, NoNew
  <2>2. ASSUME NEW s \in Sockets, NEW t \in Sockets,
               NEW i \in DOMAIN joined'[s], NEW j \in DOMAIN joined'[t],
               joined'[s][i] = joined'[t][j]
        PROVE  s = t /\ i = j
    BY <1>1, <1>3, <2>2 DEF JoinedOnce
  <2> QED
    BY <2>1, <2>2, JoinedOnceNext
<1>4. ASSUME NEW c \in Calls, RequestNow(c) PROVE JoinedOnce'
  <2> DEFINE calls == <<c>>
  <2>1. /\ ws \in Sockets /\ calls \in Seq(Calls) /\ SendAll(ws, calls)
        /\ running' = running /\ replies' = replies
        /\ DOMAIN calls = {1} /\ calls[1] = c /\ c \notin made
    BY <1>4, SendsBatch
  <2>2. joined' = joined /\ handled' = handled /\ result' = result
    BY <1>4 DEF RequestNow
  <2> HIDE DEF calls
  <2>3. \A x \in Tagged' : x \in Tagged \/ x.call = c
    BY <1>1, <2>1, Batch
  <2>4. ASSUME NEW s \in Sockets, NEW i \in DOMAIN joined[s] PROVE UnsentNext(joined[s][i])
    <3>1. NotSent(joined[s][i]) /\ joined[s][i] # c
      BY <1>1, <2>1 DEF JoinedOnce, OnlyMade
    <3> QED
      BY <2>2, <2>3, <3>1 DEF NotSent, UnsentNext
  <2> QED
    BY <1>1, <2>2, <2>4, JoinedOnceNext DEF JoinedOnce
\* A call nobody has made before is put on one list.
<1>5. ASSUME NEW c \in Calls, NEW s \in Sockets, NEW n \in Nat \ {0}, c \notin made, NoNew,
             UNCHANGED <<handled, result>>,
             \A t \in Sockets \ {s} : joined'[t] = joined[t],
             n \in DOMAIN joined'[s], joined'[s][n] = c,
             \A i \in DOMAIN joined'[s] :
               i # n => i \in DOMAIN joined[s] /\ joined'[s][i] = joined[s][i]
      PROVE  JoinedOnce'
  <2>1. NotSent(c)
    BY <1>1, <1>5 DEF NotSent, OnlyMade
  <2>2. ASSUME NEW t \in Sockets, NEW i \in DOMAIN joined'[t]
        PROVE  \/ joined'[t][i] = c /\ t = s /\ i = n
               \/ /\ i \in DOMAIN joined[t] /\ joined'[t][i] = joined[t][i]
                  /\ joined'[t][i] # c /\ NotSent(joined'[t][i])
    BY <1>1, <1>5, <2>2 DEF OnlyMade, JoinedOnce
  <2>3. ASSUME NEW d, NotSent(d) PROVE UnsentNext(d)
    BY <1>5, <2>3 DEF NotSent, UnsentNext, NoNew
  <2>4. ASSUME NEW t \in Sockets, NEW i \in DOMAIN joined'[t] PROVE UnsentNext(joined'[t][i])
    BY <2>1, <2>2, <2>3, <2>4
  <2>5. ASSUME NEW t \in Sockets, NEW u \in Sockets,
               NEW i \in DOMAIN joined'[t], NEW j \in DOMAIN joined'[u],
               joined'[t][i] = joined'[u][j]
        PROVE  t = u /\ i = j
    <3>1. CASE joined'[t][i] = c
      <4>1. t = s /\ i = n
        BY <2>2, <3>1
      <4>2. joined'[u][j] = c
        BY <2>5, <3>1
      <4>3. u = s /\ j = n
        BY <2>2, <4>2
      <4> QED
        BY <4>1, <4>3
    <3>2. CASE joined'[t][i] # c
      BY <1>1, <2>2, <2>5, <3>2 DEF JoinedOnce
    <3> QED
      BY <3>1, <3>2
  <2> QED
    BY <2>4, <2>5, JoinedOnceNext
<1>6. ASSUME NEW c \in Calls, RequestJoins(c) PROVE JoinedOnce'
  <2>1. connectPromise \in Sockets /\ joined[connectPromise] \in Seq(Calls)
    BY <1>1, <1>6 DEF RequestJoins, Joinable, TypeOK
  <2>2. joined'[connectPromise] = Append(joined[connectPromise], c)
    BY <1>1, <1>6, <2>1 DEF RequestJoins, TypeOK
  <2>3. /\ \A t \in Sockets \ {connectPromise} : joined'[t] = joined[t]
        /\ UNCHANGED <<handled, result>> /\ c \notin made
    BY <1>1, <1>6 DEF RequestJoins, TypeOK, server
  <2>4. NoNew
    BY <1>6 DEF RequestJoins, NoNew, Tagged, Sent, server
  <2> DEFINE n == Len(joined[connectPromise]) + 1
  <2>5. /\ n \in Nat \ {0} /\ n \in DOMAIN joined'[connectPromise]
        /\ joined'[connectPromise][n] = c
        /\ \A i \in DOMAIN joined'[connectPromise] :
             i # n => /\ i \in DOMAIN joined[connectPromise]
                      /\ joined'[connectPromise][i] = joined[connectPromise][i]
    BY <2>1, <2>2
  <2> HIDE DEF n
  <2> QED
    BY <1>5, <2>1, <2>3, <2>4, <2>5
<1>7. ASSUME NEW c \in Calls, NEW s \in Sockets, RequestConnects(c, s) PROVE JoinedOnce'
  <2>1. joined'[s] = <<c>> /\ \A t \in Sockets \ {s} : joined'[t] = joined[t]
    BY <1>1, <1>7 DEF RequestConnects, TypeOK
  <2>2. UNCHANGED <<handled, result>> /\ c \notin made /\ NoNew
    BY <1>7 DEF RequestConnects, server, NoNew, Tagged, Sent
  <2>3. DOMAIN joined'[s] = {1} /\ joined'[s][1] = c
    BY <2>1
  <2> QED
    BY <1>5, <2>1, <2>2, <2>3
<1>8. ASSUME NEW s \in Sockets, OnOpen(s) PROVE JoinedOnce'
  <2>1. \A x \in Tagged' : x \in Tagged \/ \E i \in DOMAIN joined[s] : x.call = joined[s][i]
    BY <1>1, <1>8, SendsBatch, Batch
  <2>2. /\ UNCHANGED <<handled, result>> /\ joined'[s] = <<>>
        /\ \A t \in Sockets \ {s} : joined'[t] = joined[t]
    BY <1>1, <1>8 DEF OnOpen, TypeOK
  <2>3. ASSUME NEW t \in Sockets, NEW i \in DOMAIN joined'[t] PROVE UnsentNext(joined'[t][i])
    <3>1. t # s /\ joined'[t] = joined[t] /\ i \in DOMAIN joined[t]
      BY <2>2, <2>3
    <3>2. NotSent(joined[t][i]) /\ \A j \in DOMAIN joined[s] : joined[s][j] # joined[t][i]
      BY <1>1, <3>1 DEF JoinedOnce
    <3> QED
      BY <2>1, <2>2, <3>1, <3>2 DEF NotSent, UnsentNext
  <2>4. ASSUME NEW t \in Sockets, NEW u \in Sockets,
               NEW i \in DOMAIN joined'[t], NEW j \in DOMAIN joined'[u],
               joined'[t][i] = joined'[u][j]
        PROVE  t = u /\ i = j
    <3>1. t # s /\ u # s
      BY <2>2, <2>4
    <3> QED
      BY <1>1, <2>2, <2>4, <3>1 DEF JoinedOnce
  <2> QED
    BY <2>3, <2>4, JoinedOnceNext
<1>9. ASSUME NEW s \in Sockets, OnError(s) PROVE JoinedOnce'
  <2>1. NoNew
    BY <1>9 DEF OnError, NoNew, Tagged, Sent, server
  <2>2. joined'[s] = <<>> /\ \A t \in Sockets \ {s} : joined'[t] = joined[t]
    BY <1>1, <1>9 DEF OnError, TypeOK
  <2>3. ASSUME NEW t \in Sockets \ {s}, NEW i \in DOMAIN joined[t]
        PROVE  result'[joined[t][i]] = result[joined[t][i]]
    <3>1. joined[t][i] \notin RejectAll \union JoinedBy(s)
      BY <1>1, <1>2 DEF JoinedOnce, NotSent, RejectAll, JoinedBy
    <3>2. joined[t][i] \in Calls
      BY <1>1 DEF TypeOK
    <3> QED
      BY <1>9, <3>1, <3>2 DEF OnError, Failed
  <2>4. handled' = handled
    BY <1>9 DEF OnError, server
  <2>5. \A t \in Sockets : joined'[t] = joined[t] =>
          \A i \in DOMAIN joined[t] : result'[joined[t][i]] = result[joined[t][i]]
    BY <2>2, <2>3
  <2> QED
    BY <1>3, <2>1, <2>2, <2>4, <2>5
\* The other steps leave the lists alone.
<1>10. \A s \in Sockets : \A i \in DOMAIN joined[s] : joined[s][i] \in Calls
  BY <1>1 DEF TypeOK
<1>11. \A s \in Sockets : \A i \in DOMAIN joined[s] : \A x \in Tagged : x.call # joined[s][i]
  BY <1>1 DEF JoinedOnce, NotSent
<1>12. ASSUME NEW C, NoNew, UNCHANGED <<joined, handled>>,
              \A c \in C : \E x \in Tagged : x.call = c,
              \A c \in Calls \ C : result'[c] = result[c]
       PROVE  JoinedOnce'
  <2>1. \A s \in Sockets : \A i \in DOMAIN joined[s] : result'[joined[s][i]] = result[joined[s][i]]
    BY <1>10, <1>11, <1>12
  <2> QED
    BY <1>3, <1>12, <2>1
<1>13. ASSUME NEW s \in Sockets, Closing(s) PROVE JoinedOnce'
  <2>1. UNCHANGED <<joined, handled, result, pending, requests, running, replies>>
    BY <1>13 DEF Closing, client, server
  <2>2. NoNew
    BY <2>1 DEF NoNew, Tagged, Sent
  <2> QED
    BY <1>3, <2>1, <2>2
<1>14. ASSUME NEW s \in Sockets, OnClose(s) PROVE JoinedOnce'
  <2>1. NoNew /\ UNCHANGED <<joined, handled>>
    BY <1>14 DEF OnClose, NoNew, Tagged, Sent
  <2>2. \A c \in RejectAll : \E x \in Tagged : x.call = c
    BY <1>2 DEF RejectAll
  <2>3. \A c \in Calls \ RejectAll : result'[c] = result[c]
    BY <1>14 DEF OnClose, Failed
  <2> QED
    BY <1>12, <2>1, <2>2, <2>3
<1>15. ASSUME NEW r \in replies, OnMessage(r) PROVE JoinedOnce'
  <2> DEFINE C == {p.call : p \in Item(r.id)}
  <2>1. NoNew /\ UNCHANGED <<joined, handled>>
    BY <1>15 DEF OnMessage, NoNew, Tagged, Sent
  <2>2. \A c \in C : \E x \in Tagged : x.call = c
    BY <1>2 DEF Item
  <2>3. \A c \in Calls \ C : result'[c] = result[c]
    BY <1>15 DEF OnMessage
  <2> QED
    BY <1>12, <2>1, <2>2, <2>3
<1>16. ASSUME NEW p \in pending, Timeout(p.id) PROVE JoinedOnce'
  <2> DEFINE C == {q.call : q \in Expired(p.id)}
  <2>1. NoNew /\ UNCHANGED <<joined, handled>>
    BY <1>16 DEF Timeout, NoNew, Tagged, Sent, server
  <2>2. \A c \in C : \E x \in Tagged : x.call = c
    BY <1>2 DEF Item, Expired
  <2>3. \A c \in Calls \ C : result'[c] = result[c]
    BY <1>16 DEF Timeout, Failed
  <2> QED
    BY <1>12, <2>1, <2>2, <2>3
<1>17. ASSUME NEW r \in requests, ServerRefuses(r) \/ ServerTakes(r) \/ Lost(r), NoNew
       PROVE  JoinedOnce'
  <2>1. UNCHANGED <<joined, handled, result>>
    BY <1>17 DEF ServerRefuses, ServerTakes, Lost, client
  <2> QED
    BY <1>3, <1>17, <2>1
<1>18. ASSUME NEW r \in running, ServerAnswers(r), NoNew PROVE JoinedOnce'
  <2>1. UNCHANGED <<joined, result>> /\ handled' = handled \union {r.call}
    BY <1>18 DEF ServerAnswers, client
  <2>2. \A s \in Sockets : \A i \in DOMAIN joined[s] : joined[s][i] # r.call
    BY <1>2, <1>11
  <2> QED
    BY <1>3, <1>18, <2>1, <2>2
<1>19. ASSUME SessionEnds \/ Checks \/ UNCHANGED vars PROVE JoinedOnce'
  <2>1. UNCHANGED <<joined, handled, result, pending, requests, running, replies>>
    BY <1>19 DEF SessionEnds, Checks, CheckHandled, CheckAnswered, vars, client, server
  <2>2. NoNew
    BY <2>1 DEF NoNew, Tagged, Sent
  <2> QED
    BY <1>3, <2>1, <2>2
<1> QED
  BY <1>1, <1>4, <1>6, <1>7, <1>8, <1>9, <1>13, <1>14, <1>15, <1>16, <1>17, <1>18, <1>19, StepTags
  DEF Next, Page, Browser, Server

LEMMA StepNobodyForgotten == IndInv /\ [Next]_vars => NobodyForgotten'
<1> SUFFICES ASSUME IndInv, [Next]_vars PROVE NobodyForgotten'
  OBVIOUS
<1>1. NobodyForgotten /\ TypeOK /\ AttemptIsConnecting
  BY DEF IndInv
<1>2. made \subseteq Calls
  BY <1>1 DEF TypeOK
\* A call keeps its place, or is settled.
<1> DEFINE Place(c) == \/ \E p \in pending : p.call = c
                       \/ \E s \in Sockets : state[s] = "connecting" /\ \E i \in DOMAIN joined[s] : joined[s][i] = c
           PlaceNext(c) == \/ \E p \in pending' : p.call = c
                           \/ \E s \in Sockets : state'[s] = "connecting" /\ \E i \in DOMAIN joined'[s] : joined'[s][i] = c
<1>3. \A c \in made : result[c] = "none" => Place(c)
  BY <1>1 DEF NobodyForgotten, JoinedBy
<1>4. ASSUME \A c \in made' : result'[c] = "none" => PlaceNext(c) PROVE NobodyForgotten'
  BY <1>4 DEF NobodyForgotten, JoinedBy
<1> HIDE DEF Place, PlaceNext
<1>5. ASSUME made' = made, UNCHANGED <<pending, state, joined>>,
             \A c \in Calls : result[c] # "none" => result'[c] # "none"
      PROVE  NobodyForgotten'
  <2>1. \A c \in Calls : Place(c) => PlaceNext(c)
    BY <1>5 DEF Place, PlaceNext
  <2> QED
    BY <1>2, <1>3, <1>4, <1>5, <2>1
<1>6. ASSUME NEW c \in Calls, RequestNow(c) PROVE NobodyForgotten'
  <2> DEFINE calls == <<c>>
  <2>1. /\ ws \in Sockets /\ calls \in Seq(Calls) /\ SendAll(ws, calls)
        /\ running' = running /\ replies' = replies
        /\ DOMAIN calls = {1} /\ calls[1] = c
    BY <1>6, SendsBatch
  <2> HIDE DEF calls
  <2>2. pending \subseteq pending' /\ \E p \in pending' : p.call = c
    BY <1>1, <2>1, Batch
  <2>3. made' = made \union {c} /\ UNCHANGED <<state, joined, result>>
    BY <1>6 DEF RequestNow
  <2>4. PlaceNext(c) /\ \A d \in Calls : Place(d) => PlaceNext(d)
    BY <2>2, <2>3 DEF Place, PlaceNext
  <2> QED
    BY <1>2, <1>3, <1>4, <2>3, <2>4
<1>7. ASSUME NEW c \in Calls, RequestJoins(c) PROVE NobodyForgotten'
  <2> DEFINE s == connectPromise
  <2>1. s \in Sockets /\ joined[s] \in Seq(Calls) /\ state[s] = "connecting"
    BY <1>1, <1>7 DEF RequestJoins, Joinable, TypeOK, AttemptIsConnecting
  <2>2. joined'[s] = Append(joined[s], c) /\ \A t \in Sockets \ {s} : joined'[t] = joined[t]
    BY <1>1, <1>7, <2>1 DEF RequestJoins, TypeOK
  <2>3. made' = made \union {c} /\ UNCHANGED <<state, pending, result>>
    BY <1>7 DEF RequestJoins
  <2> HIDE DEF s
  <2>4. Len(joined[s]) + 1 \in DOMAIN joined'[s] /\ joined'[s][Len(joined[s]) + 1] = c
    BY <2>1, <2>2
  <2>5. \A i \in DOMAIN joined[s] : i \in DOMAIN joined'[s] /\ joined'[s][i] = joined[s][i]
    BY <2>1, <2>2
  <2>6. PlaceNext(c)
    BY <2>1, <2>3, <2>4 DEF PlaceNext
  <2>7. ASSUME NEW d \in Calls, Place(d) PROVE PlaceNext(d)
    <3>1. CASE \E p \in pending : p.call = d
      BY <2>3, <3>1 DEF PlaceNext
    <3>2. ASSUME NEW t \in Sockets, state[t] = "connecting", NEW i \in DOMAIN joined[t], joined[t][i] = d
          PROVE  PlaceNext(d)
      <4>1. i \in DOMAIN joined'[t] /\ joined'[t][i] = d
        BY <2>2, <2>5, <3>2
      <4> QED
        BY <2>3, <3>2, <4>1 DEF PlaceNext
    <3> QED
      BY <2>7, <3>1, <3>2 DEF Place
  <2> QED
    BY <1>2, <1>3, <1>4, <2>3, <2>6, <2>7
<1>8. ASSUME NEW c \in Calls, NEW s \in Sockets, RequestConnects(c, s) PROVE NobodyForgotten'
  <2>1. /\ joined'[s] = <<c>> /\ \A t \in Sockets \ {s} : joined'[t] = joined[t]
        /\ state[s] = "unused" /\ state'[s] = "connecting"
        /\ \A t \in Sockets \ {s} : state'[t] = state[t]
    BY <1>1, <1>8 DEF RequestConnects, Fresh, TypeOK
  <2>2. made' = made \union {c} /\ UNCHANGED <<pending, result>>
    BY <1>8 DEF RequestConnects
  <2>3. 1 \in DOMAIN joined'[s] /\ joined'[s][1] = c
    BY <2>1
  <2>4. PlaceNext(c)
    BY <2>1, <2>3 DEF PlaceNext
  <2>5. \A d \in Calls : Place(d) => PlaceNext(d)
    BY <2>1, <2>2 DEF Place, PlaceNext
  <2> QED
    BY <1>2, <1>3, <1>4, <2>2, <2>4, <2>5
<1>9. ASSUME NEW s \in Sockets, OnOpen(s) PROVE NobodyForgotten'
  <2>1. pending \subseteq pending' /\ \A i \in DOMAIN joined[s] : \E p \in pending' : p.call = joined[s][i]
    BY <1>1, <1>9, SendsBatch, Batch
  <2>2. /\ made' = made /\ result' = result
        /\ \A t \in Sockets \ {s} : joined'[t] = joined[t] /\ state'[t] = state[t]
    BY <1>1, <1>9 DEF OnOpen, TypeOK
  <2>3. \A d \in Calls : Place(d) => PlaceNext(d)
    BY <2>1, <2>2 DEF Place, PlaceNext
  <2> QED
    BY <1>2, <1>3, <1>4, <2>2, <2>3
<1>10. ASSUME NEW s \in Sockets, OnError(s) PROVE NobodyForgotten'
  <2>1. /\ made' = made
        /\ \A t \in Sockets \ {s} : joined'[t] = joined[t] /\ state'[t] = state[t]
    BY <1>1, <1>10 DEF OnError, TypeOK
  <2>2. ASSUME NEW d \in Calls, result'[d] = "none" PROVE /\ result[d] = "none"
                                                          /\ \A p \in pending : p.call # d
                                                          /\ \A i \in DOMAIN joined[s] : joined[s][i] # d
    BY <1>10, <2>2 DEF OnError, Failed, RejectAll, JoinedBy
  <2>3. ASSUME NEW d \in Calls, result'[d] = "none", Place(d) PROVE PlaceNext(d)
    BY <2>1, <2>2, <2>3 DEF Place, PlaceNext
  <2> QED
    BY <1>2, <1>3, <1>4, <2>1, <2>2, <2>3
<1>11. ASSUME NEW s \in Sockets, Closing(s) PROVE NobodyForgotten'
  <2>1. UNCHANGED <<made, result, pending, joined>>
    BY <1>11 DEF Closing, client
  <2>2. \A t \in Sockets : state[t] = "connecting" => state'[t] = "connecting"
    BY <1>1, <1>11 DEF Closing, TypeOK
  <2>3. \A d \in Calls : Place(d) => PlaceNext(d)
    BY <2>1, <2>2 DEF Place, PlaceNext
  <2> QED
    BY <1>2, <1>3, <1>4, <2>1, <2>3
<1>12. ASSUME NEW s \in Sockets, OnClose(s) PROVE NobodyForgotten'
  <2>1. UNCHANGED <<made, joined>>
    BY <1>12 DEF OnClose
  <2>2. \A t \in Sockets : state[t] = "connecting" => state'[t] = "connecting"
    BY <1>1, <1>12 DEF OnClose, TypeOK
  <2>3. ASSUME NEW d \in Calls, result'[d] = "none"
        PROVE  result[d] = "none" /\ \A p \in pending : p.call # d
    BY <1>12, <2>3 DEF OnClose, Failed, RejectAll
  <2>4. ASSUME NEW d \in Calls, result'[d] = "none", Place(d) PROVE PlaceNext(d)
    BY <2>1, <2>2, <2>3, <2>4 DEF Place, PlaceNext
  <2> QED
    BY <1>2, <1>3, <1>4, <2>1, <2>3, <2>4
<1>13. ASSUME NEW r \in replies, OnMessage(r) PROVE NobodyForgotten'
  <2>1. UNCHANGED <<made, state, joined>> /\ pending' = pending \ Item(r.id)
    BY <1>13 DEF OnMessage
  <2>2. r.status # "none"
    BY <1>1 DEF TypeOK
  <2>3. ASSUME NEW d \in Calls, result'[d] = "none"
        PROVE  result[d] = "none" /\ \A p \in Item(r.id) : p.call # d
    BY <1>13, <2>2, <2>3 DEF OnMessage
  <2>4. ASSUME NEW d \in Calls, result'[d] = "none", Place(d) PROVE PlaceNext(d)
    BY <2>1, <2>3, <2>4 DEF Place, PlaceNext
  <2> QED
    BY <1>2, <1>3, <1>4, <2>1, <2>3, <2>4
<1>14. ASSUME NEW p \in pending, Timeout(p.id) PROVE NobodyForgotten'
  <2>1. UNCHANGED <<made, state, joined>> /\ pending' = pending \ Expired(p.id)
    BY <1>14 DEF Timeout
  <2>2. ASSUME NEW d \in Calls, result'[d] = "none"
        PROVE  result[d] = "none" /\ \A q \in Expired(p.id) : q.call # d
    BY <1>14, <2>2 DEF Timeout, Failed
  <2>3. ASSUME NEW d \in Calls, result'[d] = "none", Place(d) PROVE PlaceNext(d)
    BY <2>1, <2>2, <2>3 DEF Place, PlaceNext
  <2> QED
    BY <1>2, <1>3, <1>4, <2>1, <2>2, <2>3
<1>15. ASSUME Server PROVE NobodyForgotten'
  BY <1>5, <1>15 DEF Server, ServerRefuses, ServerTakes, Lost, ServerAnswers, SessionEnds, client
<1>16. ASSUME Checks \/ UNCHANGED vars PROVE NobodyForgotten'
  BY <1>5, <1>16 DEF Checks, CheckHandled, CheckAnswered, client, vars
<1> QED
  BY <1>6, <1>7, <1>8, <1>9, <1>10, <1>11, <1>12, <1>13, <1>14, <1>15, <1>16 DEF Next, Page, Browser

LEMMA InitInv == Init => IndInv
<1> SUFFICES ASSUME Init PROVE IndInv
  OBVIOUS
<1>1. TypeOK
  <2>1. <<>> \in Seq(Calls)
    OBVIOUS
  <2> QED
    BY <2>1 DEF Init, TypeOK, States
<1>2. Tagged = {} /\ Sent = {}
  BY DEF Init, Tagged, Sent
<1>3. \A s \in Sockets : DOMAIN joined[s] = {}
  BY DEF Init
<1> QED
  BY <1>1, <1>2, <1>3 DEF Init, IndInv, OneId, SentOnce, RepliesAreTrue, JoinedOnce, PendingWaits,
     OnlyMade, AttemptIsConnecting, NobodyForgotten

\* The invariant holds in every state of the client and the server's end.
THEOREM Invariance == Spec => []IndInv
<1>1. IndInv /\ [Next]_vars => IndInv'
  BY StepTypeOK, StepOneId, StepSentOnce, StepRepliesAreTrue, StepJoinedOnce, StepPendingWaits,
     StepOnlyMade, StepAttempt, StepNobodyForgotten DEF IndInv
<1> QED
  BY <1>1, InitInv, PTL DEF Spec

\* The variables keep their types: no id is met that was not given.
THEOREM TypeCorrect == Spec => []TypeOK
<1>1. IndInv => TypeOK
  BY DEF IndInv
<1> QED
  BY <1>1, Invariance, PTL

\* Every call that is not settled waits where an event will settle it: in the
\* map, whose entries have timers, or on the list of a connection being opened.
THEOREM NobodyIsForgotten == Spec => []NobodyForgotten
<1>1. IndInv => NobodyForgotten
  BY DEF IndInv
<1> QED
  BY <1>1, Invariance, PTL

\* The server handles a call once and answers the request it was sent with:
\* at any time it has the call at most once, and not after it answered.
THEOREM HandledOnce == Spec => []SentOnce
<1>1. IndInv => SentOnce
  BY DEF IndInv
<1> QED
  BY <1>1, Invariance, PTL

LEMMA InitPromise == Init => Promise!Init
BY DEF Init, Promise!Init

LEMMA StepPromise == IndInv /\ [Next]_vars => [Promise!Next]_(Promise!vars)
<1> SUFFICES ASSUME IndInv, [Next]_vars PROVE Promise!Next \/ UNCHANGED <<made, handled, result>>
  BY DEF Promise!vars
<1>1. TypeOK /\ OneId /\ SentOnce /\ RepliesAreTrue /\ JoinedOnce /\ PendingWaits /\ OnlyMade
  BY DEF IndInv
<1>2. result \in [Calls -> {"none", "answer", "refused", "failed"}]
  BY <1>1 DEF TypeOK
<1>3. \A p \in pending : p.call \in Calls /\ p.call \in Promise!Waiting
  BY <1>1 DEF TypeOK, PendingWaits, OnlyMade, Tagged, Promise!Waiting
\* The calls that an event fails were waiting.
<1>4. ASSUME NEW C \in SUBSET Promise!Waiting, result' = Failed(C), UNCHANGED <<made, handled>>
      PROVE  Promise!Next \/ UNCHANGED <<made, handled, result>>
  <2>1. CASE C = {}
    BY <1>2, <1>4, <2>1 DEF Failed
  <2>2. CASE C # {}
    <3>1. C \in SUBSET Calls
      BY <1>1 DEF TypeOK, Promise!Waiting
    <3>2. Promise!Fail(C)
      BY <1>4, <2>2 DEF Promise!Fail, Failed
    <3> QED
      BY <3>1, <3>2 DEF Promise!Next
  <2> QED
    BY <2>1, <2>2
<1>5. ASSUME NEW c \in Calls, NEW s \in Sockets, RequestConnects(c, s) PROVE Promise!Next
  <2>1. Promise!Make(c)
    BY <1>5 DEF RequestConnects, server, Promise!Make
  <2> QED
    BY <2>1 DEF Promise!Next
<1>6. ASSUME NEW c \in Calls, RequestNow(c) \/ RequestJoins(c) PROVE Promise!Next
  <2>1. Promise!Make(c)
    BY <1>6 DEF RequestNow, RequestJoins, server, Promise!Make
  <2> QED
    BY <2>1 DEF Promise!Next
<1>7. ASSUME NEW s \in Sockets, OnError(s) PROVE Promise!Next \/ UNCHANGED <<made, handled, result>>
  <2>1. RejectAll \subseteq Promise!Waiting
    BY <1>3 DEF RejectAll
  <2>2. JoinedBy(s) \subseteq Promise!Waiting
    BY <1>1 DEF JoinedBy, JoinedOnce, NotSent, OnlyMade, Promise!Waiting
  <2> QED
    BY <1>4, <1>7, <2>1, <2>2 DEF OnError, server
<1>8. ASSUME NEW s \in Sockets, OnClose(s) PROVE Promise!Next \/ UNCHANGED <<made, handled, result>>
  <2>1. RejectAll \subseteq Promise!Waiting
    BY <1>3 DEF RejectAll
  <2> QED
    BY <1>4, <1>8, <2>1 DEF OnClose
<1>9. ASSUME NEW p \in pending, Timeout(p.id) PROVE Promise!Next \/ UNCHANGED <<made, handled, result>>
  <2>1. {q.call : q \in Expired(p.id)} \subseteq Promise!Waiting
    BY <1>3 DEF Expired, Item
  <2> QED
    BY <1>4, <1>9, <2>1 DEF Timeout, server
\* A reply settles the call it answers, if that still waits.
<1>10. ASSUME NEW r \in replies, OnMessage(r) PROVE Promise!Next \/ UNCHANGED <<made, handled, result>>
  <2>1. /\ UNCHANGED <<made, handled>>
        /\ result' = [c \in Calls |-> IF \E p \in Item(r.id) : p.call = c THEN r.status ELSE result[c]]
    BY <1>10 DEF OnMessage
  <2>2. \A p \in Item(r.id) : p.call = r.call
    BY <1>1 DEF OneId, Item, Tagged
  <2>3. CASE Item(r.id) = {}
    BY <1>2, <2>1, <2>3
  <2>4. ASSUME NEW p \in Item(r.id) PROVE Promise!Next
    <3>1. r.call \in Calls /\ r.call \in Promise!Waiting
      BY <1>3, <2>2 DEF Item
    <3>2. result' = [result EXCEPT ![r.call] = r.status]
      BY <1>2, <2>1, <2>2
    <3>3. CASE r.status = "answer"
      <4>1. Promise!Answer(r.call)
        BY <1>1, <2>1, <3>1, <3>2, <3>3 DEF RepliesAreTrue, Promise!Answer
      <4> QED
        BY <3>1, <4>1 DEF Promise!Next
    <3>4. CASE r.status = "refused"
      <4>1. Promise!Refuse(r.call)
        BY <1>1, <2>1, <3>1, <3>2, <3>4 DEF RepliesAreTrue, Promise!Refuse
      <4> QED
        BY <3>1, <4>1 DEF Promise!Next
    <3> QED
      BY <1>1, <3>3, <3>4 DEF TypeOK
  <2> QED
    BY <2>3, <2>4
<1>11. ASSUME NEW r \in running, ServerAnswers(r) PROVE Promise!Next
  <2>1. r.call \in Calls /\ r.call \in made /\ r.call \notin handled /\ result[r.call] # "refused"
    BY <1>1 DEF TypeOK, OnlyMade, SentOnce, Tagged, Sent
  <2>2. Promise!Handle(r.call)
    BY <1>11, <2>1 DEF ServerAnswers, client, Promise!Handle
  <2> QED
    BY <2>1, <2>2 DEF Promise!Next
<1>12. ASSUME NEW s \in Sockets, OnOpen(s) \/ Closing(s) PROVE UNCHANGED <<made, handled, result>>
  BY <1>12 DEF OnOpen, Closing, client, server
<1>13. ASSUME NEW r \in requests, ServerRefuses(r) \/ ServerTakes(r) \/ Lost(r)
       PROVE  UNCHANGED <<made, handled, result>>
  BY <1>13 DEF ServerRefuses, ServerTakes, Lost, client
<1>14. ASSUME SessionEnds \/ Checks \/ UNCHANGED vars PROVE UNCHANGED <<made, handled, result>>
  BY <1>14 DEF SessionEnds, Checks, CheckHandled, CheckAnswered, vars, client, server
<1> QED
  BY <1>5, <1>6, <1>7, <1>8, <1>9, <1>10, <1>11, <1>12, <1>13, <1>14
  DEF Next, Page, Browser, Server

\* The client and the server's end implement what the pages rely on: a call is
\* settled at most once, answered only after it was handled, exactly once, and
\* refused only if it never is.
THEOREM PromiseIsKept == Spec => PromiseKept
BY InitPromise, StepPromise, Invariance, PTL DEF Spec, PromiseKept, Promise!Spec
=============================================================================
