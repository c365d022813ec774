------------------------------- MODULE WebApi -------------------------------
(***************************************************************************)
(* SimpleAdmin.Api (development/simpleadmin/www/js/simpleadmin-core.js):   *)
(* the calls of every page over one WebSocket, with the server's end       *)
(* (src/server.rs, ws_loop) as far as the page can see it.                 *)
(*                                                                         *)
(* A request and a reply are messages in flight; the server runs requests  *)
(* side by side, so replies come in any order.  A connection is lost at    *)
(* any time, with what it carried; what the server has read it handles.    *)
(* ws is the browser's handle, connectPromise the attempt under way: both  *)
(* may already belong to a newer connection when an older one tells of its *)
(* end.                                                                    *)
(*                                                                         *)
(* Abstracted: paths, headers, bodies and statuses but 429 (a call is an   *)
(* identity; an answer with an error status is an answer too), the length  *)
(* of a time limit (a limit may pass at any time), the requests that are   *)
(* not for /api/ and go through fetch.                                     *)
(***************************************************************************)
EXTENDS Naturals, Sequences, FiniteSets

CONSTANTS Calls,       \* the calls the pages make
          Sockets,     \* connections, 1..n in the order they are opened
          Concurrency, \* requests the server runs at a time: WS_CONCURRENCY
          NoSocket

ASSUME ConcurrencyAssumption == Concurrency \in Nat \ {0}
ASSUME NoSocketAssumption == NoSocket \notin Sockets

VARIABLES made,           \* calls made so far
          state,          \* readyState of each connection ("unused": not opened yet)
          ws,             \* the handle new requests use
          connectPromise, \* the attempt that new requests join
          joined,         \* the calls that wait for each connection, in order
          nextId,
          pending,        \* the pending map: [id, call]
          requests,       \* in flight to the server: [id, call, socket]
          running,        \* at the server: [id, call, socket]
          replies,        \* in flight to the page: [id, call, socket, status]
          handled,        \* calls the server handled: carried out, or answered with an error
          result,         \* how each call was settled
          session,        \* the login is valid at the server
          sessionCheck,   \* the plain HTTP question, or its answer on the way
          page            \* "here", or "login" after location.replace

client == <<ws, connectPromise, joined, nextId, pending>>
server == <<requests, running, replies, handled>>
login == <<session, sessionCheck, page>>
vars == <<made, state, client, server, result, login>>

-----------------------------------------------------------------------------

States == {"unused", "connecting", "open", "closing", "closed"}
Live == page = "here"

Init ==
  /\ made = {} /\ result = [c \in Calls |-> "none"]
  /\ state = [s \in Sockets |-> "unused"]
  /\ ws = NoSocket /\ connectPromise = NoSocket
  /\ joined = [s \in Sockets |-> <<>>]
  /\ nextId = 1 /\ pending = {}
  /\ requests = {} /\ running = {} /\ replies = {} /\ handled = {}
  /\ session = TRUE /\ sessionCheck = "none" /\ page = "here"

\* Mutant: a reply is taken for the oldest request, as if they came in order.
OldestItem(id) == {p \in pending : \A q \in pending : p.id <= q.id}

Item(id) == {p \in pending : p.id = id}

\* rejectAll and the promises of failed calls.
Failed(C) == [c \in Calls |-> IF c \in C THEN "failed" ELSE result[c]]

Entries(s, calls) ==
  {[id |-> nextId + i - 1, call |-> calls[i], socket |-> s] : i \in 1..Len(calls)}

\* The continuation of connect() in request(): every waiting call gets an id,
\* its place in the map and its timer, and is sent.
SendAll(s, calls) ==
  LET sent == Entries(s, calls) IN
  /\ nextId' = nextId + Len(calls)
  /\ pending' = pending \union {[id |-> e.id, call |-> e.call] : e \in sent}
  /\ requests' = requests \union sent

\* The connection to use: a new one unless there is one open or under way.
Reusable == ws # NoSocket /\ state[ws] = "open"

Fresh(s) == /\ state[s] = "unused"
            /\ \A t \in Sockets : t < s => state[t] # "unused"

Joinable == connectPromise # NoSocket

RequestNow(c) ==
  /\ Live /\ c \notin made
  /\ Reusable
  /\ SendAll(ws, <<c>>)
  /\ made' = made \union {c}
  /\ UNCHANGED <<state, ws, connectPromise, joined, running, replies, handled, result, login>>

RequestJoins(c) ==
  /\ Live /\ c \notin made
  /\ ~Reusable /\ Joinable
  /\ joined' = [joined EXCEPT ![connectPromise] = Append(@, c)]
  /\ made' = made \union {c}
  /\ UNCHANGED <<state, ws, connectPromise, nextId, pending, server, result, login>>

RequestConnects(c, s) ==
  /\ Live /\ c \notin made
  /\ ~Reusable /\ ~Joinable
  /\ Fresh(s)
  /\ state' = [state EXCEPT ![s] = "connecting"]
  /\ ws' = s /\ connectPromise' = s
  /\ joined' = [joined EXCEPT ![s] = <<c>>]
  /\ made' = made \union {c}
  /\ UNCHANGED <<nextId, pending, server, result, login>>

OnOpen(s) ==
  /\ Live /\ state[s] = "connecting" /\ session
  /\ state' = [state EXCEPT ![s] = "open"]
  /\ connectPromise' = NoSocket
  /\ SendAll(s, joined[s])
  /\ joined' = [joined EXCEPT ![s] = <<>>]
  /\ UNCHANGED <<made, ws, running, replies, handled, result, login>>

\* Mutant: only the promise of the attempt is rejected.
RejectNone == {}

\* Who is failed by the end of a connection: the whole map, whichever one its
\* requests went over; and the calls that wait for it, if it did not open.
RejectAll == {p.call : p \in pending}
JoinedBy(s) == {joined[s][i] : i \in DOMAIN joined[s]}

\* A handshake that fails fires onerror and onclose in one task.
OnError(s) ==
  /\ Live /\ state[s] = "connecting"
  /\ state' = [state EXCEPT ![s] = "closed"]
  /\ ws' = IF ws = s THEN NoSocket ELSE ws
  /\ connectPromise' = NoSocket
  /\ result' = Failed(RejectAll \union JoinedBy(s))
  /\ pending' = {}
  /\ joined' = [joined EXCEPT ![s] = <<>>]
  /\ sessionCheck' = IF sessionCheck = "none" THEN "asked" ELSE sessionCheck
  /\ UNCHANGED <<made, nextId, server, session, page>>

\* The browser knows that an open connection ends before it says so:
\* readyState is CLOSING while the closing handshake runs.
Closing(s) ==
  /\ Live /\ state[s] = "open"
  /\ state' = [state EXCEPT ![s] = "closing"]
  /\ UNCHANGED <<made, client, server, result, login>>

OnClose(s) ==
  /\ Live /\ state[s] \in {"open", "closing"}
  /\ state' = [state EXCEPT ![s] = "closed"]
  /\ ws' = IF ws = s THEN NoSocket ELSE ws
  /\ connectPromise' = NoSocket
  /\ result' = Failed(RejectAll)
  /\ pending' = {}
  /\ replies' = {r \in replies : r.socket # s}
  /\ UNCHANGED <<made, joined, nextId, requests, running, handled, login>>

\* onmessage: a reply nobody waits for any more is dropped.
OnMessage(r) ==
  /\ Live /\ r \in replies /\ state[r.socket] = "open"
  /\ LET item == Item(r.id) IN
     /\ pending' = pending \ item
     /\ result' = [c \in Calls |-> IF \E p \in item : p.call = c THEN r.status ELSE result[c]]
  /\ replies' = replies \ {r}
  /\ UNCHANGED <<made, state, ws, connectPromise, joined, nextId, requests, running, handled, login>>

\* Mutant: the limit passes but the item is not found.
ExpiredNone(id) == {}

Expired(id) == Item(id)

\* The timer of a request fires: its item goes and its call fails.
Timeout(id) ==
  /\ Live
  /\ \E p \in pending : p.id = id
  /\ pending' = pending \ Expired(id)
  /\ result' = Failed({p.call : p \in Expired(id)})
  /\ UNCHANGED <<made, state, ws, connectPromise, joined, nextId, server, login>>

-----------------------------------------------------------------------------
(* The server: ws_loop and ws_reply.                                       *)

Busy(s) == Cardinality({r \in running : r.socket = s})

Reply(r, status) == [id |-> r.id, call |-> r.call, socket |-> r.socket, status |-> status]

\* A reply for a connection that has ended goes nowhere.
Deliver(r, status) ==
  replies' = IF state[r.socket] = "closed" THEN replies ELSE replies \union {Reply(r, status)}

\* Too many requests at a time: 429 at once.
ServerRefuses(r) ==
  /\ r \in requests /\ Busy(r.socket) >= Concurrency
  /\ requests' = requests \ {r}
  /\ Deliver(r, "refused")
  /\ UNCHANGED <<made, state, client, running, handled, result, login>>

ServerTakes(r) ==
  /\ r \in requests /\ Busy(r.socket) < Concurrency
  /\ requests' = requests \ {r}
  /\ running' = running \union {r}
  /\ UNCHANGED <<made, state, client, replies, handled, result, login>>

\* ws_reply carries the call out, or answers it with an error status (400, 401,
\* 404, 405, 413): handled either way. Its task outlives the connection.
ServerAnswers(r) ==
  /\ r \in running
  /\ running' = running \ {r}
  /\ handled' = handled \union {r.call}
  /\ Deliver(r, "answer")
  /\ UNCHANGED <<made, state, client, requests, result, login>>

\* A request on a broken connection may never reach the server.
Lost(r) ==
  /\ r \in requests /\ state[r.socket] = "closed"
  /\ requests' = requests \ {r}
  /\ UNCHANGED <<made, state, client, running, replies, handled, result, login>>

SessionEnds ==
  /\ session /\ session' = FALSE
  /\ UNCHANGED <<made, state, client, server, result, sessionCheck, page>>

\* The server handles GET /api/get_uptime; no answer at all counts as valid.
CheckHandled ==
  /\ sessionCheck = "asked"
  /\ sessionCheck' \in {"valid", IF session THEN "valid" ELSE "ended"}
  /\ UNCHANGED <<made, state, client, server, result, session, page>>

CheckAnswered ==
  /\ Live /\ sessionCheck \in {"valid", "ended"}
  /\ page' = IF sessionCheck = "ended" THEN "login" ELSE page
  /\ sessionCheck' = "none"
  /\ UNCHANGED <<made, state, client, server, result, session>>

-----------------------------------------------------------------------------

Page == \/ \E c \in Calls : RequestNow(c) \/ RequestJoins(c)
        \/ \E c \in Calls, s \in Sockets : RequestConnects(c, s)
        \/ \E p \in pending : Timeout(p.id)
        \/ \E r \in replies : OnMessage(r)

Browser == \E s \in Sockets : OnOpen(s) \/ OnError(s) \/ Closing(s) \/ OnClose(s)

Server == \/ \E r \in requests : ServerRefuses(r) \/ ServerTakes(r) \/ Lost(r)
          \/ \E r \in running : ServerAnswers(r)
          \/ SessionEnds

Checks == CheckHandled \/ CheckAnswered

Next == Page \/ Browser \/ Server \/ Checks

Spec == Init /\ [][Next]_vars

\* Timers fire; a connection attempt ends one way or the other.  Nothing is
\* asked of the server or of the network.
LiveSpec ==
  /\ Spec
  /\ \A id \in 1..Cardinality(Calls) : WF_vars(Timeout(id))
  /\ \A s \in Sockets : WF_vars(OnOpen(s) \/ OnError(s))

-----------------------------------------------------------------------------

TypeOK ==
  /\ made \subseteq Calls
  /\ state \in [Sockets -> States]
  /\ ws \in Sockets \union {NoSocket}
  /\ connectPromise \in Sockets \union {NoSocket}
  /\ joined \in [Sockets -> Seq(Calls)]
  /\ nextId \in Nat \ {0}
  /\ pending \subseteq [id : 1..(nextId - 1), call : Calls]
  /\ requests \subseteq [id : 1..(nextId - 1), call : Calls, socket : Sockets]
  /\ running \subseteq [id : 1..(nextId - 1), call : Calls, socket : Sockets]
  /\ replies \subseteq [id : 1..(nextId - 1), call : Calls, socket : Sockets,
                        status : {"answer", "refused"}]
  /\ handled \subseteq Calls
  /\ result \in [Calls -> {"none", "answer", "refused", "failed"}]
  /\ session \in BOOLEAN
  /\ sessionCheck \in {"none", "asked", "valid", "ended"}
  /\ page \in {"here", "login"}

\* What the pages rely on (RequestService): with connections lost, reopened
\* and overlapping, replies out of order and late, a call is settled once, and
\* by the reply to its own request.
Promise == INSTANCE RequestService WITH made <- made, handled <- handled, result <- result
PromiseKept == Promise!Spec

\* Every call is settled, unless the page has gone: neither a lost reply nor
\* a connection replaced while it was ending leaves a page waiting.
EveryCallSettles ==
  \A c \in Calls : c \in made ~> (result[c] # "none" \/ page = "login")

\* The promise of a call that waits is in one place: its own entry of the map
\* or the list of a connection still being opened.
NobodyForgotten ==
  \A c \in made : result[c] = "none" =>
    \/ \E p \in pending : p.call = c
    \/ \E s \in Sockets : state[s] = "connecting" /\ c \in JoinedBy(s)

-----------------------------------------------------------------------------
(* The invariant the proofs rest on (WebApiProofs).                        *)

Sent == requests \union running
Tagged == pending \union Sent \union replies

\* An id belongs to one call, wherever it is met.
OneId == \A x, y \in Tagged : x.id = y.id => x.call = y.call

\* A call is at the server, or on its way there, once, and only before it is
\* handled or answered.
SentOnce ==
  /\ \A r \in Sent : /\ r.call \notin handled /\ result[r.call] # "refused"
                     /\ \A q \in replies : q.call # r.call
  /\ \A r, q \in Sent : r.call = q.call => r = q
  /\ requests \intersect running = {}

RepliesAreTrue == \A r \in replies : (r.status = "answer") <=> (r.call \in handled)

\* A call that waits for a connection waits there once and was not sent yet.
NotSent(c) ==
  /\ c \notin handled /\ result[c] = "none"
  /\ \A x \in Tagged : x.call # c

JoinedOnce ==
  /\ \A s \in Sockets : \A i \in DOMAIN joined[s] : NotSent(joined[s][i])
  /\ \A s, t \in Sockets : \A i \in DOMAIN joined[s], j \in DOMAIN joined[t] :
       joined[s][i] = joined[t][j] => s = t /\ i = j

\* A call has one entry in the map, and only while it waits.
PendingWaits ==
  /\ \A p \in pending : result[p.call] = "none"
  /\ \A p, q \in pending : p.call = q.call => p = q

OnlyMade ==
  /\ \A x \in Tagged : x.call \in made
  /\ \A s \in Sockets : \A i \in DOMAIN joined[s] : joined[s][i] \in made
  /\ handled \subseteq made
  /\ \A c \in Calls \ made : result[c] = "none"

AttemptIsConnecting == connectPromise # NoSocket => state[connectPromise] = "connecting"

IndInv ==
  /\ TypeOK /\ OneId /\ SentOnce /\ RepliesAreTrue /\ JoinedOnce /\ PendingWaits
  /\ OnlyMade /\ AttemptIsConnecting /\ NobodyForgotten
=============================================================================
