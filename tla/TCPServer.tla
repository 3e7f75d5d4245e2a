----------------------------- MODULE TCPServer ------------------------------
(***************************************************************************)
(* TCPServer on every broker of the cluster: the accept thread, the fixed  *)
(* pool of worker threads, their queue and condition variable, and stop(). *)
(* Of the requests it models where their handlers block: a follower's      *)
(* worker waits for the leader's answer to a request it forwards, and the  *)
(* leader's worker holds ReplicationManager::mutex_ while it waits for a   *)
(* follower's ACK.  None of these waits has a timeout.                     *)
(*                                                                         *)
(* The roles of the brokers are fixed: a broker that accepts connections   *)
(* is not suspected (Membership), and this module is about brokers that    *)
(* accept.  notify_one_never, read_request_again, stop_quietly and         *)
(* stop_end_early are mutations.                                           *)
(***************************************************************************)
EXTENDS Integers, Sequences, FiniteSetsExt

CONSTANTS
    Servers,       \* broker ids
    Leader,        \* the broker that leads
    PoolSize,      \* PoolSize[s]: worker_count_ of server s
    Clients,
    Home,          \* Home[c]: the server client c connects to
    Heartbeats,    \* bound: the heartbeats sent, as <<sender, receiver>>
    MaxRequests,   \* bound: requests on one client connection
    Stoppable      \* bound: servers that may be told to stop

ASSUME TCPServerAssumption ==
    /\ Servers \subseteq Nat /\ Leader \in Servers
    /\ PoolSize \in [Servers -> Nat \ {0}] /\ MaxRequests \in Nat
    /\ Home \in [Clients -> Servers]
    /\ Heartbeats \subseteq Servers \X Servers /\ Stoppable \subseteq Servers

VARIABLES
    running,           \* TCPServer::running of each server
    listening,         \* servers whose listening socket is open
    accepting,         \* servers whose accept thread has not left its loop
    stopped,           \* servers whose stop() has returned
    accepted,          \* the socket the accept thread holds and has not queued
    pending_clients_,  \* sockets waiting for a worker
    mutex,             \* ReplicationManager::mutex_: the set of its holders
    at,                \* at[w]: where worker w is
    socket,            \* socket[w]: the connection w serves, as a set
    todo,              \* todo[w]: peers w has still to send a REPLICATE to
    phase,             \* phase[n]: where the server's end of connection n is
    inbox,             \* connections that hold a request nobody has read
    answered,          \* connections on which the response has been written
    shut,              \* connections closed by the side that opened them
    requests,          \* requests[c]: requests client c has sent
    responses,         \* responses[c]: responses written to c
    missed             \* history: workers about to block when stop() notified

poolVars == <<running, listening, accepting, stopped, missed, accepted,
              pending_clients_>>
workVars == <<at, socket, todo, mutex>>
connVars == <<phase, inbox, answered, shut, requests, responses>>
vars == <<poolVars, workVars, connVars>>

WorkersOf(s) == {s} \X (1..PoolSize[s])
Workers == UNION {WorkersOf(s) : s \in Servers}

\* Connections: a client's own, and those brokers open for its k-th request or
\* for a heartbeat.
Client(c) == [kind |-> "client", of |-> c, nth |-> 0, to |-> Home[c]]
Forward(c, k) == [kind |-> "forward", of |-> c, nth |-> k, to |-> Leader]
Replicate(c, k, p) == [kind |-> "replicate", of |-> c, nth |-> k, to |-> p]
Commit(c, k, p) == [kind |-> "commit", of |-> c, nth |-> k, to |-> p]
Heartbeat(h) == [kind |-> "heartbeat", of |-> h[1], nth |-> 0, to |-> h[2]]

ClientRequests == Clients \X (1..MaxRequests)

Connections ==
    {Client(c) : c \in Clients} \cup {Heartbeat(h) : h \in Heartbeats}
    \cup {Forward(r[1], r[2]) : r \in ClientRequests}
    \cup {Replicate(r[1], r[2], p) : r \in ClientRequests, p \in Servers}
    \cup {Commit(r[1], r[2], p) : r \in ClientRequests, p \in Servers}

\* handle_client ends after the first request of these.
OneShot(n) == n.kind \notin {"client", "forward"}

Init ==
    /\ running = [s \in Servers |-> TRUE]
    /\ listening = Servers
    /\ accepting = Servers
    /\ stopped = {}
    /\ missed = {}
    /\ accepted = [s \in Servers |-> {}]
    /\ pending_clients_ = [s \in Servers |-> <<>>]
    /\ mutex = [s \in Servers |-> {}]
    /\ at = [w \in Workers |-> "awake"]
    /\ socket = [w \in Workers |-> {}]
    /\ todo = [w \in Workers |-> {}]
    /\ phase = [n \in Connections |-> "unused"]
    /\ inbox = {}
    /\ answered = {}
    /\ shut = {}
    /\ requests = [c \in Clients |-> 0]
    /\ responses = [c \in Clients |-> 0]
-----------------------------------------------------------------------------
(* The sides that connect: clients, and brokers' heartbeat threads.        *)

connect(c) ==
    /\ phase[Client(c)] = "unused"
    /\ Home[c] \in listening
    /\ phase' = [phase EXCEPT ![Client(c)] = "backlog"]
    /\ UNCHANGED <<poolVars, workVars, inbox, answered, shut, requests, responses>>

\* A client sends one request at a time, on a connection it may keep open.
send_request(c) ==
    LET n == Client(c)
    IN  /\ phase[n] \notin {"unused", "closed"} /\ n \notin shut
        /\ requests[c] = responses[c] /\ requests[c] < MaxRequests
        /\ requests' = [requests EXCEPT ![c] = @ + 1]
        /\ inbox' = inbox \cup {n}
        /\ UNCHANGED <<poolVars, workVars, phase, answered, shut, responses>>

disconnect(c) ==
    LET n == Client(c)
    IN  /\ phase[n] \notin {"unused", "closed"} /\ n \notin shut
        /\ requests[c] = responses[c]
        /\ shut' = shut \cup {n}
        /\ UNCHANGED <<poolVars, workVars, phase, inbox, answered, requests, responses>>

\* send_one_shot_to_peer without a response: connect, write, close.  It fails
\* when the peer's server does not listen (any more).
OneShots(ns) ==
    LET sent == {n \in ns : n.to \in listening}
    IN  /\ phase' = [n \in Connections |-> IF n \in sent THEN "backlog" ELSE phase[n]]
        /\ inbox' = inbox \cup sent
        /\ shut' = shut \cup sent

heartbeat_loop(h) ==
    /\ phase[Heartbeat(h)] = "unused"
    /\ h[1] \notin stopped /\ h[2] \in listening
    /\ mutex[h[1]] = {}
    /\ OneShots({Heartbeat(h)})
    /\ UNCHANGED <<poolVars, workVars, answered, requests, responses>>
-----------------------------------------------------------------------------
(* TCPServer::accept_loop.                                                 *)

\* A worker that has found its predicate false holds pending_mutex_ until it
\* blocks.
pending_mutex_free(s) == \A w \in WorkersOf(s) : at[w] # "deciding"

accept_loop_accept(s) ==
    /\ s \in accepting \cap listening
    /\ accepted[s] = {}
    /\ \E n \in Connections :
          /\ n.to = s /\ phase[n] = "backlog"
          /\ phase' = [phase EXCEPT ![n] = "accepted"]
          /\ accepted' = [accepted EXCEPT ![s] = {n}]
    /\ UNCHANGED <<running, listening, accepting, stopped, missed, pending_clients_,
                   workVars, inbox, answered, shut, requests, responses>>

notify_one_never(s) == UNCHANGED at

notify_one(s) ==
    LET blocked == {w \in WorkersOf(s) : at[w] = "blocked"}
    IN  IF blocked = {} THEN UNCHANGED at
        ELSE \E w \in blocked : at' = [at EXCEPT ![w] = "awake"]

\* The push and notify_one.  Nothing can come between them that matters: a
\* worker that looks at the queue in between sees the push.
accept_loop_push(s) ==
    /\ pending_mutex_free(s)
    /\ \E n \in accepted[s] :
          /\ pending_clients_' = [pending_clients_ EXCEPT ![s] = Append(@, n)]
          /\ phase' = [phase EXCEPT ![n] = "pending"]
    /\ accepted' = [accepted EXCEPT ![s] = {}]
    /\ accepting' = IF running[s] THEN accepting ELSE accepting \ {s}
    /\ notify_one(s)
    /\ UNCHANGED <<running, listening, stopped, missed, socket, todo, mutex, inbox,
                   answered, shut, requests, responses>>

\* poll times out or accept fails, and the loop's test finds running cleared.
accept_loop_leave(s) ==
    /\ s \in accepting /\ accepted[s] = {} /\ ~running[s]
    /\ accepting' = accepting \ {s}
    /\ UNCHANGED <<running, listening, stopped, missed, accepted, pending_clients_,
                   workVars, connVars>>
-----------------------------------------------------------------------------
(* TCPServer::worker_loop.                                                 *)

\* The predicate of the wait is false.
worker_decide(w) ==
    /\ at[w] = "awake" /\ pending_mutex_free(w[1])
    /\ pending_clients_[w[1]] = <<>> /\ running[w[1]]
    /\ at' = [at EXCEPT ![w] = "deciding"]
    /\ UNCHANGED <<poolVars, socket, todo, mutex, connVars>>

worker_block(w) ==
    /\ at[w] = "deciding"
    /\ at' = [at EXCEPT ![w] = "blocked"]
    /\ UNCHANGED <<poolVars, socket, todo, mutex, connVars>>

worker_return(w) ==
    /\ at[w] = "awake" /\ pending_mutex_free(w[1])
    /\ pending_clients_[w[1]] = <<>> /\ ~running[w[1]]
    /\ at' = [at EXCEPT ![w] = "returned"]
    /\ UNCHANGED <<poolVars, socket, todo, mutex, connVars>>

\* w closes the connection it serves and goes back for another.
Close(w, n) ==
    /\ phase' = [phase EXCEPT ![n] = "closed"]
    /\ at' = [at EXCEPT ![w] = "awake"]
    /\ socket' = [socket EXCEPT ![w] = {}]

\* pop_front, and handle_client up to its first read; a server that has been
\* told to stop closes the connection unread.
worker_take(w) ==
    LET n == Head(pending_clients_[w[1]])
    IN  /\ at[w] = "awake" /\ pending_mutex_free(w[1])
        /\ pending_clients_[w[1]] # <<>>
        /\ pending_clients_' = [pending_clients_ EXCEPT ![w[1]] = Tail(@)]
        /\ IF running[w[1]]
           THEN /\ phase' = [phase EXCEPT ![n] = "served"]
                /\ at' = [at EXCEPT ![w] = "reading"]
                /\ socket' = [socket EXCEPT ![w] = {n}]
           ELSE Close(w, n)
        /\ UNCHANGED <<running, listening, accepting, stopped, missed, accepted,
                       todo, mutex, inbox, answered, shut, requests, responses>>
-----------------------------------------------------------------------------
(* TCPServer::handle_client and process_request.                           *)

read_request_again(w) ==
    /\ at[w] = "reading"
    /\ \E n \in socket[w] : n \in inbox
    /\ at' = [at EXCEPT ![w] = "processing"]
    /\ UNCHANGED <<poolVars, socket, todo, mutex, connVars>>

read_request(w) ==
    /\ at[w] = "reading"
    /\ \E n \in socket[w] : n \in inbox /\ inbox' = inbox \ {n}
    /\ at' = [at EXCEPT ![w] = "processing"]
    /\ UNCHANGED <<poolVars, socket, todo, mutex, phase, answered, shut, requests,
                   responses>>

\* The other side has closed: read_frame fails.
read_request_eof(w) ==
    /\ at[w] = "reading"
    /\ \E n \in socket[w] : n \in shut \ inbox /\ Close(w, n)
    /\ UNCHANGED <<poolVars, todo, mutex, inbox, answered, shut, requests, responses>>

\* The response is written; handle_client reads again or closes.
Respond(w, n) ==
    /\ IF n.kind = "client"
       THEN /\ responses' = [responses EXCEPT ![n.of] = @ + 1]
            /\ UNCHANGED answered
       ELSE answered' = answered \cup {n} /\ UNCHANGED responses
    /\ IF OneShot(n) \/ ~running[w[1]]
       THEN Close(w, n)
       ELSE at' = [at EXCEPT ![w] = "reading"] /\ UNCHANGED <<phase, socket>>

\* A REPLICATE: append and ACK, without mutex_.
process_replicate(w) ==
    /\ at[w] = "processing"
    /\ \E n \in socket[w] : n.kind = "replicate" /\ Respond(w, n)
    /\ UNCHANGED <<poolVars, todo, mutex, inbox, shut, requests>>

\* A request that takes mutex_ for a moment and is answered where it arrives:
\* HEARTBEAT and COMMIT, and a client's FETCH.
process_locally(w) ==
    /\ at[w] = "processing"
    /\ mutex[w[1]] = {}
    /\ \E n \in socket[w] :
          n.kind \in {"heartbeat", "commit", "client"} /\ Respond(w, n)
    /\ UNCHANGED <<poolVars, todo, mutex, inbox, shut, requests>>

\* The request of a client connection or of the one it is forwarded on.
Nth(n) == IF n.kind = "client" THEN requests[n.of] ELSE n.nth

\* Broker::forward_to_leader: connect and write, then wait for the response.
forward_to_leader(w) ==
    /\ at[w] = "processing" /\ w[1] # Leader
    /\ \E n \in socket[w] :
          /\ n.kind = "client"
          /\ IF Leader \in listening
             THEN /\ phase' = [phase EXCEPT ![Forward(n.of, Nth(n))] = "backlog"]
                  /\ inbox' = inbox \cup {Forward(n.of, Nth(n))}
                  /\ at' = [at EXCEPT ![w] = "forwarding"]
                  /\ UNCHANGED <<socket, answered, responses>>
             ELSE Respond(w, n) /\ UNCHANGED inbox
    /\ UNCHANGED <<poolVars, todo, mutex, shut, requests>>

\* What the waiting side of connection n sees: a response, or a closed socket.
Settled(n) == n \in answered \/ phase[n] = "closed"

forward_to_leader_done(w) ==
    /\ at[w] = "forwarding"
    /\ \E n \in socket[w] :
          /\ Settled(Forward(n.of, Nth(n)))
          /\ shut' = shut \cup {Forward(n.of, Nth(n))}
          /\ Respond(w, n)
    /\ UNCHANGED <<poolVars, todo, mutex, inbox, requests>>
-----------------------------------------------------------------------------
(* PRODUCE on the leader, as far as its locks and waits go.                *)

replicate_begin(w) ==
    /\ at[w] = "processing" /\ w[1] = Leader
    /\ mutex[w[1]] = {}
    /\ \E n \in socket[w] : ~OneShot(n)
    /\ mutex' = [mutex EXCEPT ![w[1]] = {w}]
    /\ todo' = [todo EXCEPT ![w] = Servers \ {w[1]}]
    /\ at' = [at EXCEPT ![w] = "replicating"]
    /\ UNCHANGED <<poolVars, socket, connVars>>

\* The first peer that listens; the others refuse the connection.
replicate_send(w) ==
    LET up == todo[w] \cap listening
    IN  /\ at[w] = "replicating" /\ up # {}
        /\ \E n \in socket[w] :
              LET r == Replicate(n.of, Nth(n), Min(up))
              IN  phase' = [phase EXCEPT ![r] = "backlog"] /\ inbox' = inbox \cup {r}
        /\ todo' = [todo EXCEPT ![w] = {p \in @ : p >= Min(up)}]
        /\ at' = [at EXCEPT ![w] = "waiting"]
        /\ UNCHANGED <<poolVars, socket, mutex, answered, shut, requests, responses>>

replicate_done(w) ==
    /\ at[w] = "waiting"
    /\ \E n \in socket[w] :
          LET r == Replicate(n.of, Nth(n), Min(todo[w]))
          IN  Settled(r) /\ shut' = shut \cup {r}
    /\ todo' = [todo EXCEPT ![w] = @ \ {Min(@)}]
    /\ at' = [at EXCEPT ![w] = "replicating"]
    /\ UNCHANGED <<poolVars, socket, mutex, phase, inbox, answered, requests, responses>>

replicate_end(w) ==
    /\ at[w] = "replicating" /\ todo[w] \cap listening = {}
    /\ todo' = [todo EXCEPT ![w] = {}]
    /\ mutex' = [mutex EXCEPT ![w[1]] = {}]
    /\ at' = [at EXCEPT ![w] = "committing"]
    /\ UNCHANGED <<poolVars, socket, connVars>>

\* Broker::handle_produce once replicate_message has returned: without a quorum
\* it answers; with one it marks the offset committed and broadcasts COMMITs,
\* under mutex_ again.
broadcast_commit(w) ==
    /\ at[w] = "committing"
    /\ \/ UNCHANGED <<phase, inbox, shut>>
       \/ /\ mutex[w[1]] = {}
          /\ \E n \in socket[w] :
                OneShots({Commit(n.of, Nth(n), p) : p \in Servers \ {w[1]}})
    /\ at' = [at EXCEPT ![w] = "responding"]
    /\ UNCHANGED <<poolVars, socket, todo, mutex, answered, requests, responses>>

send_response(w) ==
    /\ at[w] = "responding"
    /\ \E n \in socket[w] : Respond(w, n)
    /\ UNCHANGED <<poolVars, todo, mutex, inbox, shut, requests>>
-----------------------------------------------------------------------------
(* TCPServer::stop, called by main on a signal.                            *)

stop_quietly(s) ==
    /\ s \in Stoppable /\ running[s]
    /\ running' = [running EXCEPT ![s] = FALSE]
    /\ UNCHANGED <<listening, accepting, stopped, missed, accepted, pending_clients_,
                   workVars, connVars>>

\* running and notify_all, without pending_mutex_.
stop(s) ==
    /\ s \in Stoppable /\ running[s]
    /\ running' = [running EXCEPT ![s] = FALSE]
    /\ at' = [w \in Workers |-> IF w[1] = s /\ at[w] = "blocked" THEN "awake" ELSE at[w]]
    /\ missed' = missed \cup {w \in WorkersOf(s) : at[w] = "deciding"}
    /\ UNCHANGED <<listening, accepting, stopped, accepted, pending_clients_, socket,
                   todo, mutex, connVars>>

\* The listening socket is closed, which resets the connections in its backlog.
stop_close(s) ==
    /\ ~running[s] /\ s \in listening
    /\ listening' = listening \ {s}
    /\ phase' = [n \in Connections |-> IF n.to = s /\ phase[n] = "backlog"
                                       THEN "closed" ELSE phase[n]]
    /\ UNCHANGED <<running, accepting, stopped, missed, accepted, pending_clients_,
                   workVars, inbox, answered, shut, requests, responses>>

\* The accept thread and the workers can be joined.
Joined(s) ==
    s \notin listening \cup accepting /\ \A w \in WorkersOf(s) : at[w] = "returned"

stop_end_early(s) ==
    /\ Joined(s) /\ s \notin stopped
    /\ stopped' = stopped \cup {s}
    /\ UNCHANGED <<running, listening, accepting, missed, accepted, pending_clients_,
                   workVars, connVars>>

\* What is still queued once they have been joined is closed.
stop_end(s) ==
    /\ Joined(s) /\ s \notin stopped
    /\ stopped' = stopped \cup {s}
    /\ phase' = [n \in Connections |-> IF n \in Range(pending_clients_[s])
                                       THEN "closed" ELSE phase[n]]
    /\ pending_clients_' = [pending_clients_ EXCEPT ![s] = <<>>]
    /\ UNCHANGED <<running, listening, accepting, missed, accepted, workVars, inbox,
                   answered, shut, requests, responses>>
-----------------------------------------------------------------------------
Worker(w) ==
    \/ worker_decide(w) \/ worker_block(w) \/ worker_return(w) \/ worker_take(w)
    \/ read_request(w) \/ read_request_eof(w)
    \/ process_replicate(w) \/ process_locally(w)
    \/ forward_to_leader(w) \/ forward_to_leader_done(w)
    \/ replicate_begin(w) \/ replicate_send(w) \/ replicate_done(w)
    \/ replicate_end(w) \/ broadcast_commit(w) \/ send_response(w)

AcceptThread(s) == accept_loop_accept(s) \/ accept_loop_push(s) \/ accept_loop_leave(s)
StopThread(s) == stop_close(s) \/ stop_end(s)

Next ==
    \/ \E w \in Workers : Worker(w)
    \/ \E s \in Servers : AcceptThread(s) \/ stop(s) \/ StopThread(s)
    \/ \E c \in Clients : connect(c) \/ send_request(c) \/ disconnect(c)
    \/ \E h \in Heartbeats : heartbeat_loop(h)

Spec == Init /\ [][Next]_vars

\* Every thread of the servers is scheduled.  Clients may stay idle for ever.
FairSpec ==
    /\ Spec
    /\ \A w \in Workers : WF_vars(Worker(w))
    /\ \A s \in Servers : WF_vars(AcceptThread(s)) /\ WF_vars(StopThread(s))
-----------------------------------------------------------------------------
Points == {"awake", "deciding", "blocked", "returned", "reading", "processing",
           "forwarding", "replicating", "waiting", "committing", "responding"}

\* Every variable has its type; no client gets more responses than it sent
\* requests.
TypeOK ==
    /\ running \in [Servers -> BOOLEAN]
    /\ listening \cup accepting \cup stopped \subseteq Servers
    /\ \A s \in Servers : accepted[s] \subseteq Connections
    /\ pending_clients_ \in [Servers -> Seq(Connections)]
    /\ mutex \in [Servers -> SUBSET Workers]
    /\ at \in [Workers -> Points] /\ missed \subseteq Workers
    /\ \A w \in Workers : socket[w] \subseteq Connections /\ todo[w] \subseteq Servers
    /\ phase \in [Connections -> {"unused", "backlog", "accepted", "pending",
                                  "served", "closed"}]
    /\ inbox \cup answered \cup shut \subseteq Connections
    /\ requests \in [Clients -> 0..MaxRequests]
    /\ \A c \in Clients : responses[c] \in 0..requests[c]

\* A socket has one owner from accept to close: the accept thread, one place in
\* the queue, or one worker of its server, so it is never served or closed twice
\* and none is left behind by a stop() that has returned.
SocketOwned ==
    \A n \in Connections :
        LET s == n.to
            queued == {i \in DOMAIN pending_clients_[s] : pending_clients_[s][i] = n}
            serving == {w \in Workers : n \in socket[w]}
        IN  /\ phase[n] = "accepted" <=> n \in accepted[s]
            /\ Cardinality(queued) = (IF phase[n] = "pending" THEN 1 ELSE 0)
            /\ Cardinality(serving) = (IF phase[n] = "served" THEN 1 ELSE 0)
            /\ serving \subseteq WorkersOf(s)
            /\ s \in stopped => phase[n] \in {"unused", "closed"}

\* w waits for a request on a client's open connection.
ServesIdleClient(w) ==
    at[w] = "reading" /\ \E n \in socket[w] : n.kind = "client" /\ n \notin shut \cup inbox

\* Connections are queued at s, and each of its workers has returned, waits for
\* the leader or waits for an idle client.
Starved(s) ==
    /\ pending_clients_[s] # <<>>
    /\ \A w \in WorkersOf(s) : at[w] \in {"returned", "forwarding"} \/ ServesIdleClient(w)

SomeStarved == \E s \in Servers : Starved(s)

\* A request is answered or its connection closed, whatever clients, heartbeats
\* and a stopping server do, unless some server is starved for ever.
AnsweredOrStarved ==
    \A c \in Clients :
        requests[c] > responses[c] ~>
            \/ requests[c] = responses[c] \/ phase[Client(c)] = "closed"
            \/ []SomeStarved

\* A request is answered or its connection closed (README.md:160: followers
\* forward producers' requests to the leader).
Answered ==
    \A c \in Clients :
        requests[c] > responses[c] ~>
            requests[c] = responses[c] \/ phase[Client(c)] = "closed"

\* stop() returns.  Three things alone can keep it waiting: a worker that blocked
\* just after notify_all, having tested running before it was cleared; a client
\* that keeps its connection open; and a starved server, which may be this one:
\* its accept thread queues a connection when all workers have returned but those
\* that wait for the leader, which waits for an answer on that connection.
StopReturns ==
    \A s \in Servers :
        ~running[s] ~> \/ s \in stopped
                       \/ [](SomeStarved \/ \E w \in WorkersOf(s) :
                                \/ w \in missed /\ at[w] = "blocked"
                                \/ ServesIdleClient(w))
-----------------------------------------------------------------------------
(* The inductive invariant behind SocketOwned.                             *)

Free == {"awake", "deciding", "blocked", "returned"}
Busy == Points \ (Free \cup {"reading"})
Phases == {"unused", "backlog", "accepted", "pending", "served", "closed"}

PoolTypes ==
    /\ running \in [Servers -> BOOLEAN]
    /\ listening \subseteq Servers /\ accepting \subseteq Servers
    /\ stopped \subseteq Servers /\ missed \subseteq Workers
    /\ accepted \in [Servers -> SUBSET Connections]
    /\ pending_clients_ \in [Servers -> Seq(Connections)]
    /\ mutex \in [Servers -> SUBSET Workers]
    /\ at \in [Workers -> Points]
    /\ socket \in [Workers -> SUBSET Connections]
    /\ todo \in [Workers -> SUBSET Servers]
    /\ phase \in [Connections -> Phases]
    /\ inbox \subseteq Connections /\ answered \subseteq Connections
    /\ shut \subseteq Connections
    /\ requests \in [Clients -> 0..MaxRequests] /\ responses \in [Clients -> Nat]

\* What the accept thread of s and its queue hold, they alone hold.
QueueInv(s) ==
    /\ \A n \in accepted[s] :
          n.to = s /\ phase[n] = "accepted" /\ accepted[s] = {n} /\ s \in accepting
    /\ \A i \in DOMAIN pending_clients_[s] :
          pending_clients_[s][i].to = s /\ phase[pending_clients_[s][i]] = "pending"
    /\ \A i, j \in DOMAIN pending_clients_[s] :
          pending_clients_[s][i] = pending_clients_[s][j] => i = j
    /\ s \in stopped => /\ s \notin listening \cup accepting
                        /\ pending_clients_[s] = <<>>
                        /\ \A w \in WorkersOf(s) : at[w] = "returned"

\* A connection that is not closed has the owner its phase says.
OwnerInv(n) ==
    /\ phase[n] = "backlog" => n.to \in listening
    /\ phase[n] = "accepted" => n \in accepted[n.to]
    /\ phase[n] = "pending" => \E i \in DOMAIN pending_clients_[n.to] :
                                  pending_clients_[n.to][i] = n
    /\ phase[n] = "served" => \E w \in Workers : n \in socket[w]
    /\ n \in inbox => phase[n] # "unused"

\* No broker has replicated request k of client c, or broadcast its commit.
NotBegun(c, k) ==
    \A p \in Servers : /\ phase[Replicate(c, k, p)] = "unused"
                       /\ phase[Commit(c, k, p)] = "unused"

\* Each request uses connections of its own, and uses them once.
ClientInv(c) ==
    /\ responses[c] <= requests[c]
    /\ \A k \in 1..MaxRequests :
          /\ k > requests[c] \/ Home[c] = Leader => phase[Forward(c, k)] = "unused"
          /\ phase[Forward(c, k)] = "unused" /\ (Home[c] # Leader \/ k > requests[c])
                => NotBegun(c, k)
          /\ Forward(c, k) \in inbox => NotBegun(c, k)
    /\ Client(c) \in inbox =>
          /\ responses[c] < requests[c] /\ NotBegun(c, requests[c])
          /\ phase[Forward(c, requests[c])] = "unused"

\* What worker w serves, it alone serves; while it replicates a request, the
\* connections it has still to open are unused.
WorkerInv(w) ==
    /\ at[w] \in Free <=> socket[w] = {}
    /\ \A n \in socket[w] :
          /\ n.to = w[1] /\ phase[n] = "served" /\ socket[w] = {n}
          /\ \A v \in Workers : n \in socket[v] => v = w
          /\ at[w] \in Busy =>
                n \notin inbox /\ (n.kind = "client" => responses[n.of] < requests[n.of])
          /\ at[w] = "processing" =>
                /\ n.kind = "client" => phase[Forward(n.of, Nth(n))] = "unused"
                /\ ~OneShot(n) => NotBegun(n.of, Nth(n))
          /\ at[w] \in {"replicating", "waiting", "committing"} =>
                /\ w[1] = Leader /\ ~OneShot(n)
                /\ \A p \in Servers : phase[Commit(n.of, Nth(n), p)] = "unused"
          /\ at[w] = "forwarding" => n.kind = "client"
          /\ at[w] = "replicating" =>
                \A p \in todo[w] : phase[Replicate(n.of, Nth(n), p)] = "unused"
          /\ at[w] = "waiting" =>
                /\ todo[w] # {}
                /\ \A p \in todo[w] \ {Min(todo[w])} :
                      phase[Replicate(n.of, Nth(n), p)] = "unused"

\* What the threads of the servers together keep: a socket has the owner its
\* phase says and no other, and a request opens each of its connections once.
PoolInv ==
    /\ PoolTypes
    /\ \A s \in Servers : QueueInv(s)
    /\ \A n \in Connections : OwnerInv(n)
    /\ \A c \in Clients : ClientInv(c)
    /\ \A w \in Workers : WorkerInv(w)
=============================================================================
