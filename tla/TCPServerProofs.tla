--------------------------- MODULE TCPServerProofs --------------------------
(***************************************************************************)
(* The safety of TCPServer for every set of servers and clients, every     *)
(* pool size, every number of requests on a connection and every choice of *)
(* servers that stop: PoolInv is inductive, and from it follow type        *)
(* correctness and that every socket has one owner.                        *)
(***************************************************************************)
EXTENDS TCPServer, FiniteSetTheorems, WellFoundedInduction, TLAPS

\* What push_back and pop_front do to a queue.
LEMMA SequenceElements ==
    ASSUME NEW S, NEW q \in Seq(S)
    PROVE  /\ Len(q) \in Nat /\ DOMAIN q = 1..Len(q)
           /\ \A i \in 1..Len(q) : q[i] \in S
  OBVIOUS

\* push_back on a queue.
LEMMA AppendFacts ==
    ASSUME NEW S, NEW q \in Seq(S), NEW e \in S
    PROVE  /\ Append(q, e) \in Seq(S) /\ DOMAIN Append(q, e) = 1..(Len(q) + 1)
           /\ \A i \in 1..(Len(q) + 1) : Append(q, e)[i] = IF i = Len(q) + 1 THEN e ELSE q[i]
  OBVIOUS

\* pop_front on a queue.
LEMMA TailFacts ==
    ASSUME NEW S, NEW q \in Seq(S), q # <<>>
    PROVE  /\ Len(q) \in Nat \ {0} /\ Head(q) = q[1] /\ Tail(q) \in Seq(S)
           /\ DOMAIN Tail(q) = 1..(Len(q) - 1)
           /\ \A i \in 1..(Len(q) - 1) : Tail(q)[i] = q[i + 1]
  OBVIOUS

\* The fields of a connection say which one it is.
LEMMA ConnectionKinds ==
    ASSUME NEW n \in Connections
    PROVE  /\ n.to \in Servers
           /\ n.kind \in {"client", "forward", "replicate", "commit", "heartbeat"}
           /\ n.kind = "client" => n.of \in Clients /\ n = Client(n.of)
           /\ n.kind = "forward" =>
                 n.of \in Clients /\ n.nth \in 1..MaxRequests /\ n = Forward(n.of, n.nth)
  <1>1. CASE \E c \in Clients : n = Client(c)
    BY <1>1, TCPServerAssumption DEF Client
  <1>2. CASE \E h \in Heartbeats : n = Heartbeat(h)
    BY <1>2, TCPServerAssumption DEF Heartbeat
  <1>3. CASE \E r \in ClientRequests : n = Forward(r[1], r[2])
    BY <1>3, TCPServerAssumption DEF Forward, ClientRequests
  <1>4. CASE \E r \in ClientRequests, p \in Servers : n = Replicate(r[1], r[2], p)
    BY <1>4 DEF Replicate, ClientRequests
  <1>5. CASE \E r \in ClientRequests, p \in Servers : n = Commit(r[1], r[2], p)
    BY <1>5 DEF Commit, ClientRequests
  <1>. QED  BY <1>1, <1>2, <1>3, <1>4, <1>5 DEF Connections

\* The connections of a client and of its k-th request.
LEMMA ClientConnection ==
    ASSUME NEW c \in Clients
    PROVE  /\ Client(c) \in Connections
           /\ Client(c).kind = "client" /\ Client(c).of = c /\ Client(c).to = Home[c]
           /\ Home[c] \in Servers
  BY TCPServerAssumption DEF Client, Connections

\* The connections a request makes the servers open.
LEMMA RequestConnections ==
    ASSUME NEW c \in Clients, NEW k \in 1..MaxRequests
    PROVE  /\ Forward(c, k) \in Connections
           /\ Forward(c, k).kind = "forward" /\ Forward(c, k).of = c
           /\ Forward(c, k).nth = k /\ Forward(c, k).to = Leader
           /\ \A p \in Servers :
                 /\ Replicate(c, k, p) \in Connections
                 /\ Replicate(c, k, p).kind = "replicate"
                 /\ Replicate(c, k, p).of = c /\ Replicate(c, k, p).nth = k
                 /\ Replicate(c, k, p).to = p
                 /\ Commit(c, k, p) \in Connections
                 /\ Commit(c, k, p).kind = "commit"
                 /\ Commit(c, k, p).of = c /\ Commit(c, k, p).nth = k
                 /\ Commit(c, k, p).to = p
  <1>1. <<c, k>> \in ClientRequests /\ <<c, k>>[1] = c /\ <<c, k>>[2] = k
    BY Zenon DEF ClientRequests
  <1>2. Forward(c, k) \in Connections
    BY <1>1 DEF Connections
  <1>3. ASSUME NEW p \in Servers
        PROVE  Replicate(c, k, p) \in Connections /\ Commit(c, k, p) \in Connections
    BY <1>1 DEF Connections
  <1>. QED  BY <1>2, <1>3, Zenon DEF Forward, Replicate, Commit

\* The connection of a heartbeat.
LEMMA HeartbeatConnection ==
    ASSUME NEW h \in Heartbeats
    PROVE  /\ Heartbeat(h) \in Connections /\ Heartbeat(h).kind = "heartbeat"
           /\ Heartbeat(h).to = h[2] /\ h[2] \in Servers
  BY TCPServerAssumption DEF Heartbeat, Connections

\* A worker belongs to one server.
LEMMA WorkerServer ==
    ASSUME NEW w \in Workers
    PROVE  /\ w[1] \in Servers /\ w \in WorkersOf(w[1])
           /\ \A s \in Servers : w \in WorkersOf(s) => s = w[1]
  BY DEF Workers, WorkersOf

\* The workers of a server.
LEMMA ServerWorkers ==
    ASSUME NEW s \in Servers
    PROVE  WorkersOf(s) \subseteq Workers /\ \A w \in WorkersOf(s) : w[1] = s
  BY Zenon DEF Workers, WorkersOf
-----------------------------------------------------------------------------
(* What a step that leaves a queue, a client or a worker alone keeps.      *)

\* No socket changes hands; connections may be opened to servers that listen.
LEMMA OwnersKept ==
    ASSUME PoolInv,
           UNCHANGED <<listening, accepting, stopped, accepted, pending_clients_, socket>>,
           \A n \in Connections :
              \/ phase'[n] = phase[n]
              \/ phase[n] = "unused" /\ phase'[n] = "backlog" /\ n.to \in listening,
           \A n \in Connections : n \in inbox' => n \in inbox \/ phase'[n] # "unused",
           \A w \in Workers : at[w] = "returned" => at'[w] = "returned"
    PROVE  (\A s \in Servers : QueueInv(s)') /\ (\A n \in Connections : OwnerInv(n)')
  <1>1. PoolTypes
    BY Zenon DEF PoolInv
  <1>2. ASSUME NEW s \in Servers PROVE QueueInv(s)'
    <2>1. QueueInv(s) /\ WorkersOf(s) \subseteq Workers
      BY ServerWorkers, Zenon DEF PoolInv
    <2>2. accepted[s] \subseteq Connections
          /\ \A i \in DOMAIN pending_clients_[s] : pending_clients_[s][i] \in Connections
      BY <1>1, SequenceElements DEF PoolTypes
    <2>. QED  BY <2>1, <2>2, ZenonT(40) DEF QueueInv
  <1>3. ASSUME NEW n \in Connections PROVE OwnerInv(n)'
    <2>1. OwnerInv(n)
      BY Zenon DEF PoolInv
    <2>. QED  BY <2>1, Zenon DEF OwnerInv
  <1>. QED  BY <1>2, <1>3, Zenon

\* A client none of whose requests begins a connection or is sent, and which is
\* answered, if at all, when a request of its is being served.
LEMMA ClientKept ==
    ASSUME PoolTypes, NEW c \in Clients, ClientInv(c),
           \A n \in Connections :
              n.kind \in {"forward", "replicate", "commit"} /\ n.of = c =>
                 (phase'[n] = "unused" <=> phase[n] = "unused"),
           \A n \in Connections :
              n.kind \in {"client", "forward"} /\ n.of = c /\ n \in inbox' => n \in inbox,
           requests'[c] = requests[c], responses'[c] <= requests[c],
           Client(c) \in inbox' => responses'[c] = responses[c]
    PROVE  ClientInv(c)'
  <1>1. ASSUME NEW k \in 1..MaxRequests
        PROVE  /\ phase'[Forward(c, k)] = "unused" <=> phase[Forward(c, k)] = "unused"
               /\ NotBegun(c, k) <=> NotBegun(c, k)'
               /\ Forward(c, k) \in inbox' => Forward(c, k) \in inbox
    BY RequestConnections DEF NotBegun
  <1>2. Client(c) \in inbox' => Client(c) \in inbox
    BY ClientConnection, Zenon
  <1>3. requests[c] \in 0..MaxRequests /\ responses[c] \in Nat
    BY Zenon DEF PoolTypes
  <1>4. ASSUME Client(c) \in inbox
        PROVE  requests[c] \in 1..MaxRequests
    BY <1>3, <1>4 DEF ClientInv
  <1>5. ASSUME NEW k \in 1..MaxRequests, k = requests[c] 
        PROVE  NotBegun(c, requests[c]) => NotBegun(c, requests[c])'
    BY <1>1, <1>5, Zenon DEF NotBegun
  <1>. QED  BY <1>1, <1>2, <1>4, <1>5, Zenon DEF ClientInv

\* The connection a worker has is served, by this worker alone.
LEMMA ServedPhase ==
    ASSUME PoolInv, NEW w \in Workers, NEW n \in socket[w]
    PROVE  /\ n \in Connections /\ phase[n] = "served" /\ socket[w] = {n}
           /\ \A v \in Workers : n \in socket[v] => v = w
  <1>1. n \in Connections /\ WorkerInv(w)
    BY Zenon DEF PoolInv, PoolTypes
  <1>. QED  BY <1>1, Zenon DEF WorkerInv

\* The request a worker is busy with is one the client has sent.
LEMMA ServedRequest ==
    ASSUME PoolInv, NEW w \in Workers, NEW n \in socket[w]
    PROVE  /\ n \in Connections /\ WorkerInv(w)
           /\ ~OneShot(n) =>
                 /\ n.of \in Clients /\ ClientInv(n.of)
                 /\ n.kind = "client" \/ n.kind = "forward"
                 /\ n.kind = "client" => n = Client(n.of) /\ Nth(n) = requests[n.of]
                 /\ n.kind = "forward" => n = Forward(n.of, n.nth) /\ Nth(n) = n.nth
                 /\ at[w] \in Busy => Nth(n) \in 1..MaxRequests
  <1>1. n \in Connections /\ WorkerInv(w) /\ PoolTypes
    BY Zenon DEF PoolInv, PoolTypes
  <1>2. ASSUME n.kind = "client"
        PROVE  /\ n.of \in Clients /\ ClientInv(n.of) /\ n = Client(n.of)
               /\ Nth(n) = requests[n.of]
               /\ at[w] \in Busy => Nth(n) \in 1..MaxRequests
    <2>1. n.of \in Clients /\ n = Client(n.of)
      BY <1>1, <1>2, ConnectionKinds, Zenon
    <2>2. requests[n.of] \in 0..MaxRequests /\ responses[n.of] \in Nat
      BY <1>1, <2>1, Zenon DEF PoolTypes
    <2>3. at[w] \in Busy => responses[n.of] < requests[n.of]
      BY <1>1, <1>2, Zenon DEF WorkerInv
    <2>. QED  BY <1>2, <2>1, <2>2, <2>3 DEF PoolInv, Nth
  <1>3. ASSUME n.kind = "forward"
        PROVE  /\ n.of \in Clients /\ ClientInv(n.of) /\ n = Forward(n.of, n.nth)
               /\ Nth(n) = n.nth /\ n.nth \in 1..MaxRequests
    BY <1>1, <1>3, ConnectionKinds, Zenon DEF PoolInv, Nth
  <1>. QED  BY <1>1, <1>2, <1>3, Zenon DEF OneShot

\* Two workers do not open connections for one request: a client's request is
\* either served where it arrives or forwarded.
Opening == {"processing", "replicating", "waiting", "committing"}

\* Two workers that open connections for the same request are one.
LEMMA OneWorkerPerRequest ==
    ASSUME PoolInv, NEW v \in Workers, NEW w \in Workers,
           NEW m \in socket[v], NEW n \in socket[w], ~OneShot(m), ~OneShot(n),
           at[v] \in Opening, at[w] \in Opening, m.of = n.of, Nth(m) = Nth(n)
    PROVE  v = w
  <1>1. WorkerInv(v) /\ WorkerInv(w) /\ at[v] \in Busy /\ at[w] \in Busy
    BY Zenon DEF PoolInv, Opening, Busy, Free, Points
  <1>2. ASSUME m = n PROVE v = w
    BY <1>1, <1>2, Zenon DEF WorkerInv
  <1>3. ASSUME NEW x \in Workers, NEW y \in Workers, NEW i \in socket[x], NEW j \in socket[y],
               WorkerInv(x), WorkerInv(y), ~OneShot(i), ~OneShot(j), at[x] \in Opening,
               at[y] \in Busy, at[x] \in Busy,
               i.of = j.of, Nth(i) = Nth(j), i.kind = "client", j.kind = "forward"
        PROVE  FALSE
    <2>1. /\ j = Forward(j.of, Nth(j)) /\ phase[j] = "served"
          /\ i = Client(i.of) /\ i.of \in Clients /\ ClientInv(i.of) /\ i.to = x[1]
          /\ Nth(j) \in 1..MaxRequests
      BY <1>3, ServedRequest DEF WorkerInv
    <2>2. phase[Forward(i.of, Nth(i))] = "served"
      BY <1>3, <2>1, Zenon
    <2>3. CASE at[x] = "processing"
      BY <1>3, <2>2, <2>3, Zenon DEF WorkerInv
    <2>4. CASE at[x] # "processing"
      <3>1. x[1] = Leader
        BY <1>3, <2>4, Zenon DEF WorkerInv, Opening
      <3>2. Home[i.of] = Leader
        BY <2>1, <3>1, ClientConnection, Zenon
      <3>. QED  BY <1>3, <2>1, <2>2, <3>2, Zenon DEF ClientInv
    <2>. QED  BY <2>3, <2>4, Zenon
  <1>4. (m.kind = "client" \/ m.kind = "forward") /\ (n.kind = "client" \/ n.kind = "forward")
    BY ServedRequest, Zenon
  <1>5. CASE m.kind = n.kind
    BY <1>2, <1>4, <1>5, ServedRequest, Zenon
  <1>. QED  BY <1>1, <1>3, <1>4, <1>5, Zenon

\* A worker none of whose connections is read, answered or closed, and for
\* whose request nobody opens a connection.
LEMMA WorkerKept ==
    ASSUME PoolInv, NEW w \in Workers,
           at'[w] = at[w], socket'[w] = socket[w], todo'[w] = todo[w],
           \A n \in socket[w] :
              /\ phase'[n] = "served"
              /\ \A v \in Workers : n \in socket'[v] => n \in socket[v]
              /\ at[w] \in Busy /\ n \in inbox' => n \in inbox
              /\ at[w] \in Busy /\ n.kind = "client" =>
                    requests'[n.of] = requests[n.of] /\ responses'[n.of] = responses[n.of]
              /\ at[w] \in Opening /\ ~OneShot(n) =>
                    \A m \in Connections :
                       /\ m.kind \in {"forward", "replicate", "commit"}
                       /\ m.of = n.of /\ m.nth = Nth(n) /\ phase[m] = "unused"
                       => phase'[m] = "unused"
    PROVE  WorkerInv(w)'
  <1>1. WorkerInv(w) /\ at[w] \in Points
    BY Zenon DEF PoolInv, PoolTypes
  <1>2. SUFFICES ASSUME NEW n \in socket[w]
        PROVE  /\ n.to = w[1] /\ phase'[n] = "served" /\ socket'[w] = {n}
               /\ \A v \in Workers : n \in socket'[v] => v = w
               /\ at[w] \in Busy =>
                     n \notin inbox' /\ (n.kind = "client" => responses'[n.of] < requests'[n.of])
               /\ at[w] = "processing" =>
                     /\ n.kind = "client" => phase'[Forward(n.of, Nth(n)')] = "unused"
                     /\ ~OneShot(n) => NotBegun(n.of, Nth(n))'
               /\ at[w] \in {"replicating", "waiting", "committing"} =>
                     /\ w[1] = Leader /\ ~OneShot(n)
                     /\ \A p \in Servers : phase'[Commit(n.of, Nth(n)', p)] = "unused"
               /\ at[w] = "forwarding" => n.kind = "client"
               /\ at[w] = "replicating" =>
                     \A p \in todo[w] : phase'[Replicate(n.of, Nth(n)', p)] = "unused"
               /\ at[w] = "waiting" =>
                     /\ todo[w] # {}
                     /\ \A p \in todo[w] \ {Min(todo[w])} :
                           phase'[Replicate(n.of, Nth(n)', p)] = "unused"
    BY <1>1 DEF WorkerInv, Nth, OneShot
  <1>3. at[w] \in Busy => Nth(n)' = Nth(n)
    BY Zenon DEF Nth
  <1>4. at[w] \in Opening => at[w] \in Busy
    BY Zenon DEF Opening, Busy, Free, Points
  <1>5. todo[w] \subseteq Servers
    BY Zenon DEF PoolInv, PoolTypes
  <1>6. CASE at[w] \in Opening /\ ~OneShot(n)
    <2>1. n.of \in Clients /\ Nth(n) \in 1..MaxRequests
      BY <1>4, <1>6, ServedRequest, Zenon
    <2>2. /\ phase[Forward(n.of, Nth(n))] = "unused" => phase'[Forward(n.of, Nth(n))] = "unused"
          /\ \A p \in Servers :
                /\ phase[Replicate(n.of, Nth(n), p)] = "unused" =>
                      phase'[Replicate(n.of, Nth(n), p)] = "unused"
                /\ phase[Commit(n.of, Nth(n), p)] = "unused" =>
                      phase'[Commit(n.of, Nth(n), p)] = "unused"
      BY <1>6, <2>1, RequestConnections
    <2>3. NotBegun(n.of, Nth(n)) => NotBegun(n.of, Nth(n))'
      BY <1>3, <1>4, <1>6, <2>2, ZenonT(40) DEF NotBegun
    <2>. QED  BY <1>1, <1>3, <1>4, <1>5, <1>6, <2>2, <2>3 DEF WorkerInv
  <1>7. CASE ~(at[w] \in Opening /\ ~OneShot(n))
    BY <1>1, <1>7, Zenon DEF WorkerInv, Opening, OneShot
  <1>. QED  BY <1>6, <1>7, Zenon
-----------------------------------------------------------------------------
(* The sides that connect.                                                 *)

\* Connections are opened, none of them for a client's request.
LEMMA OpenKeeps ==
    ASSUME PoolInv, NEW m \in Connections, phase[m] = "unused",
           m.kind \in {"client", "heartbeat"}, m.to \in listening,
           phase' = [phase EXCEPT ![m] = "backlog"],
           UNCHANGED <<poolVars, workVars, answered, requests, responses>>,
           shut' \subseteq Connections,
           inbox' = inbox \/ (m.kind = "heartbeat" /\ inbox' = inbox \cup {m})
    PROVE  PoolInv'
  <1>0. PoolTypes
    BY Zenon DEF PoolInv
  <1>1. PoolTypes'
    BY <1>0, Zenon DEF PoolTypes, poolVars, workVars, Phases
  <1>2. \A n \in Connections : phase'[n] = IF n = m THEN "backlog" ELSE phase[n]
    BY <1>0, Zenon DEF PoolTypes
  <1>3. (\A s \in Servers : QueueInv(s)') /\ (\A n \in Connections : OwnerInv(n)')
    BY <1>2, OwnersKept DEF poolVars, workVars, PoolInv, OwnerInv
  <1>4. ASSUME NEW c \in Clients PROVE ClientInv(c)'
    BY <1>0, <1>2, <1>4, ClientKept DEF PoolInv, ClientInv
  <1>5. ASSUME NEW w \in Workers PROVE WorkerInv(w)'
    <2>1. ASSUME NEW n \in socket[w]
          PROVE  n \in Connections /\ phase[n] = "served" /\ n # m
      BY ServedRequest DEF WorkerInv
    <2>. QED  BY <1>2, <2>1, WorkerKept, Zenon DEF workVars
  <1>. QED  BY <1>1, <1>3, <1>4, <1>5, Zenon DEF PoolInv

\* A client connects.
LEMMA ConnectKeeps ==
    ASSUME PoolInv, NEW c \in Clients, connect(c)
    PROVE  PoolInv'
  BY OpenKeeps, ClientConnection, Zenon DEF connect, PoolInv, PoolTypes

\* A broker sends a heartbeat.
LEMMA HeartbeatKeeps ==
    ASSUME PoolInv, NEW h \in Heartbeats, heartbeat_loop(h)
    PROVE  PoolInv'
  <1>1. PoolTypes
    BY Zenon DEF PoolInv
  <1>2. {n \in {Heartbeat(h)} : n.to \in listening} = {Heartbeat(h)}
    BY HeartbeatConnection, Zenon DEF heartbeat_loop
  <1>3. /\ phase' = [phase EXCEPT ![Heartbeat(h)] = "backlog"]
        /\ inbox' = inbox \cup {Heartbeat(h)} /\ shut' = shut \cup {Heartbeat(h)}
    BY <1>1, <1>2, Zenon DEF heartbeat_loop, OneShots, PoolTypes
  <1>. QED  BY <1>1, <1>3, OpenKeeps, HeartbeatConnection, Zenon DEF heartbeat_loop, PoolTypes

\* No thread takes or gives up anything.
LEMMA IdleKeeps ==
    ASSUME PoolInv, PoolTypes',
           UNCHANGED <<listening, stopped, accepted, pending_clients_, workVars, phase, inbox,
                       requests, responses>>,
           \A s \in Servers : s \in accepting /\ accepted[s] # {} => s \in accepting',
           accepting' \subseteq accepting
    PROVE  PoolInv'
  <1>1. ASSUME NEW s \in Servers PROVE QueueInv(s)'
    <2>1. QueueInv(s)
      BY Zenon DEF PoolInv
    <2>. QED  BY <2>1 DEF QueueInv, workVars
  <1>2. ASSUME NEW n \in Connections PROVE OwnerInv(n)'
    <2>1. OwnerInv(n)
      BY Zenon DEF PoolInv
    <2>. QED  BY <2>1 DEF OwnerInv, workVars
  <1>3. ASSUME NEW c \in Clients PROVE ClientInv(c)'
    BY ClientKept DEF PoolInv, ClientInv
  <1>4. ASSUME NEW w \in Workers PROVE WorkerInv(w)'
    <2>1. ASSUME NEW n \in socket[w] PROVE phase[n] = "served"
      BY ServedRequest, Zenon DEF WorkerInv
    <2>. QED  BY <2>1, WorkerKept DEF workVars
  <1>. QED  BY <1>1, <1>2, <1>3, <1>4, Zenon DEF PoolInv

\* A client closes its connection.
LEMMA DisconnectKeeps ==
    ASSUME PoolInv, NEW c \in Clients, disconnect(c)
    PROVE  PoolInv'
  <1>1. Client(c) \in Connections
    BY ClientConnection, Zenon
  <1>2. PoolTypes'
    BY <1>1 DEF disconnect, PoolInv, PoolTypes, poolVars, workVars
  <1>. QED  BY <1>2, IdleKeeps DEF disconnect, poolVars

\* The client that sends has no request under way: no worker is busy with it.
LEMMA SendRequestKeeps ==
    ASSUME PoolInv, NEW c \in Clients, send_request(c)
    PROVE  PoolInv'
  <1>0. PoolTypes /\ ClientInv(c)
    BY Zenon DEF PoolInv
  <1>. DEFINE n == Client(c)
  <1>1. /\ n \in Connections /\ n.kind = "client" /\ n.of = c
        /\ requests[c] \in 0..MaxRequests /\ requests[c] < MaxRequests
        /\ requests[c] = responses[c] /\ phase[n] # "unused"
        /\ UNCHANGED <<poolVars, workVars, phase, answered, shut, responses>>
        /\ inbox' = inbox \cup {n}
        /\ \A d \in Clients : requests'[d] = IF d = c THEN requests[c] + 1 ELSE requests[d]
    BY <1>0, ClientConnection, Zenon DEF send_request, PoolTypes
  <1>2. PoolTypes'
    <2>1. requests' \in [Clients -> 0..MaxRequests]
      BY <1>0, <1>1, TCPServerAssumption DEF send_request, PoolTypes
    <2>. QED  BY <1>0, <1>1, <2>1, Zenon DEF PoolTypes, poolVars, workVars
  <1>3. (\A s \in Servers : QueueInv(s)') /\ (\A m \in Connections : OwnerInv(m)')
    BY <1>1, OwnersKept, Zenon DEF poolVars, workVars
  <1>4. ASSUME NEW d \in Clients, d # c PROVE ClientInv(d)'
    BY <1>0, <1>1, <1>4, ClientKept, Zenon DEF PoolInv, ClientInv
  <1>5. ClientInv(c)'
    <2>1. ASSUME NEW k \in 1..MaxRequests PROVE (NotBegun(c, k)' <=> NotBegun(c, k))
      BY <1>1, Zenon DEF NotBegun
    <2>2. requests[c] + 1 \in 1..MaxRequests /\ requests'[c] = requests[c] + 1
      BY <1>1, TCPServerAssumption
    <2>3. /\ phase[Forward(c, requests[c] + 1)] = "unused" /\ NotBegun(c, requests[c] + 1)
      BY <1>0, <1>1, <2>2 DEF ClientInv
    <2>4. NotBegun(c, requests[c])'
      BY <1>1, <2>2, <2>3, Zenon DEF NotBegun
    <2>5. \A k \in 1..MaxRequests : Forward(c, k) \in inbox' => Forward(c, k) \in inbox
      BY <1>1, RequestConnections
    <2>. QED  BY <1>0, <1>1, <2>1, <2>2, <2>3, <2>4, <2>5 DEF ClientInv
  <1>6. ASSUME NEW w \in Workers PROVE WorkerInv(w)'
    <2>1. ASSUME NEW m \in socket[w]
          PROVE  /\ m \in Connections /\ phase[m] = "served"
                 /\ at[w] \in Busy => m # n
                 /\ at[w] \in Busy /\ m.kind = "client" => m.of # c /\ m.of \in Clients
      <3>1. m \in Connections /\ WorkerInv(w)
        BY ServedRequest, Zenon
      <3>2. at[w] \in Busy /\ m.kind = "client" => responses[m.of] < requests[m.of]
        BY <3>1, Zenon DEF WorkerInv
      <3>3. m.kind = "client" => m.of \in Clients
        BY <3>1, ConnectionKinds, Zenon
      <3>. QED  BY <1>1, <3>1, <3>2, <3>3 DEF WorkerInv
    <2>. QED  BY <1>1, <2>1, WorkerKept, Zenon DEF workVars
  <1>. QED  BY <1>2, <1>3, <1>4, <1>5, <1>6, Zenon DEF PoolInv
-----------------------------------------------------------------------------
(* The accept thread.                                                      *)

\* The accept thread accepts a connection.
LEMMA AcceptKeeps ==
    ASSUME PoolInv, NEW s \in Servers, accept_loop_accept(s)
    PROVE  PoolInv'
  <1>0. PoolTypes
    BY Zenon DEF PoolInv
  <1>1. PICK n \in Connections :
           /\ n.to = s /\ phase[n] = "backlog"
           /\ phase' = [phase EXCEPT ![n] = "accepted"]
           /\ accepted' = [accepted EXCEPT ![s] = {n}]
    BY Zenon DEF accept_loop_accept
  <1>2. /\ s \in accepting /\ s \in listening /\ accepted[s] = {}
        /\ UNCHANGED <<running, listening, accepting, stopped, missed, pending_clients_,
                       workVars, inbox, answered, shut, requests, responses>>
        /\ \A m \in Connections : phase'[m] = IF m = n THEN "accepted" ELSE phase[m]
        /\ \A t \in Servers : accepted'[t] = IF t = s THEN {n} ELSE accepted[t]
    BY <1>0, <1>1, Zenon DEF accept_loop_accept, PoolTypes
  <1>3. PoolTypes'
    BY <1>0, <1>1, <1>2 DEF PoolTypes, workVars, Phases
  <1>4. ASSUME NEW t \in Servers PROVE QueueInv(t)'
    <2>1. /\ QueueInv(t) /\ accepted[t] \subseteq Connections
          /\ \A i \in DOMAIN pending_clients_[t] : pending_clients_[t][i] \in Connections
      BY <1>0, SequenceElements DEF PoolTypes, PoolInv
    <2>2. \A i \in DOMAIN pending_clients_[t] : pending_clients_[t][i] # n
      BY <1>1, <2>1, Zenon DEF QueueInv
    <2>. QED  BY <1>1, <1>2, <2>1, <2>2 DEF QueueInv, workVars
  <1>5. ASSUME NEW m \in Connections PROVE OwnerInv(m)'
    <2>1. OwnerInv(m) /\ m.to \in Servers
      BY ConnectionKinds, Zenon DEF PoolInv
    <2>. QED  BY <1>1, <1>2, <2>1 DEF OwnerInv, workVars
  <1>6. ASSUME NEW c \in Clients PROVE ClientInv(c)'
    BY <1>0, <1>1, <1>2, ClientKept DEF PoolInv, ClientInv
  <1>7. ASSUME NEW w \in Workers PROVE WorkerInv(w)'
    <2>1. ASSUME NEW m \in socket[w]
          PROVE  m \in Connections /\ phase[m] = "served" /\ m # n
      BY <1>1, ServedRequest, Zenon DEF WorkerInv
    <2>. QED  BY <1>1, <1>2, <2>1, WorkerKept, Zenon DEF workVars
  <1>. QED  BY <1>3, <1>4, <1>5, <1>6, <1>7, Zenon DEF PoolInv

\* The queue gets the socket at its end, where it was not.
LEMMA PushKeeps ==
    ASSUME PoolInv, NEW s \in Servers, accept_loop_push(s)
    PROVE  PoolInv'
  <1>0. PoolTypes /\ QueueInv(s)
    BY Zenon DEF PoolInv
  <1>1. PICK n \in accepted[s] :
           /\ pending_clients_' = [pending_clients_ EXCEPT ![s] = Append(@, n)]
           /\ phase' = [phase EXCEPT ![n] = "pending"]
    BY Zenon DEF accept_loop_push
  <1>. DEFINE q == pending_clients_[s]
  <1>2. /\ n \in Connections /\ n.to = s /\ phase[n] = "accepted" /\ accepted[s] = {n}
        /\ s \in accepting
        /\ q \in Seq(Connections) /\ Len(q) \in Nat /\ Append(q, n) \in Seq(Connections)
        /\ UNCHANGED <<running, listening, stopped, missed, socket, todo, mutex, inbox,
                       answered, shut, requests, responses>>
        /\ accepting' \subseteq accepting /\ accepting \ {s} \subseteq accepting'
        /\ \A m \in Connections : phase'[m] = IF m = n THEN "pending" ELSE phase[m]
        /\ \A t \in Servers : accepted'[t] = IF t = s THEN {} ELSE accepted[t]
        /\ \A t \in Servers : pending_clients_'[t] =
                                 IF t = s THEN Append(q, n) ELSE pending_clients_[t]
        /\ notify_one(s)
    BY <1>0, <1>1, SequenceElements, AppendFacts DEF accept_loop_push, PoolTypes, QueueInv
  <1>3. /\ at' \in [Workers -> Points]
        /\ \A w \in Workers : at'[w] = at[w] \/ (at[w] = "blocked" /\ at'[w] = "awake")
    <2>1. WorkersOf(s) \subseteq Workers /\ at \in [Workers -> Points]
      BY <1>0, ServerWorkers, Zenon DEF PoolTypes
    <2>2. CASE UNCHANGED at
      BY <2>1, <2>2, Zenon
    <2>3. CASE \E w \in WorkersOf(s) : at[w] = "blocked" /\ at' = [at EXCEPT ![w] = "awake"]
      BY <2>1, <2>3, Zenon DEF Points
    <2>. QED  BY <1>2, <2>2, <2>3, Zenon DEF notify_one
  <1>4. PoolTypes'
    <2>1. /\ pending_clients_' \in [Servers -> Seq(Connections)]
          /\ accepted' \in [Servers -> SUBSET Connections]
          /\ phase' \in [Connections -> Phases]
      BY <1>0, <1>1, <1>2, Zenon DEF accept_loop_push, PoolTypes, Phases
    <2>. QED  BY <1>0, <1>2, <1>3, <2>1, Zenon DEF PoolTypes
  <1>5. /\ DOMAIN q = 1..Len(q) /\ DOMAIN Append(q, n) = 1..(Len(q) + 1)
        /\ \A i \in 1..(Len(q) + 1) : Append(q, n)[i] = IF i = Len(q) + 1 THEN n ELSE q[i]
        /\ \A i \in 1..Len(q) : q[i] \in Connections
    BY <1>2, SequenceElements, AppendFacts
  <1>6. \A i \in 1..Len(q) : q[i] # n
    BY <1>0, <1>2, <1>5 DEF QueueInv
  <1>7. QueueInv(s)'
    <2>1. \A i \in 1..(Len(q) + 1) : Append(q, n)[i].to = s /\ phase'[Append(q, n)[i]] = "pending"
      BY <1>0, <1>2, <1>5 DEF QueueInv
    <2>2. ASSUME NEW i \in 1..(Len(q) + 1), NEW j \in 1..(Len(q) + 1),
                 Append(q, n)[i] = Append(q, n)[j]
          PROVE  i = j
      <3>1. CASE i = Len(q) + 1
        BY <1>2, <1>5, <1>6, <2>2, <3>1
      <3>2. CASE j = Len(q) + 1
        BY <1>2, <1>5, <1>6, <2>2, <3>2
      <3>3. CASE i \in 1..Len(q) /\ j \in 1..Len(q)
        <4>1. q[i] = q[j]
          BY <1>2, <1>5, <2>2, <3>3
        <4>. QED  BY <1>0, <1>5, <3>3, <4>1, Zenon DEF QueueInv
      <3>. QED  BY <1>2, <3>1, <3>2, <3>3
    <2>3. s \notin stopped
      BY <1>0, <1>2, Zenon DEF QueueInv
    <2>4. /\ accepted'[s] = {} /\ stopped' = stopped /\ s \notin stopped'
          /\ pending_clients_'[s] = Append(q, n)
          /\ DOMAIN pending_clients_'[s] = 1..(Len(q) + 1)
      BY <1>2, <1>5, <2>3, Zenon
    <2>5. \A i, j \in DOMAIN pending_clients_'[s] :
             pending_clients_'[s][i] = pending_clients_'[s][j] => i = j
      BY <2>2, <2>4, Zenon
    <2>6. \A i \in DOMAIN pending_clients_'[s] :
             pending_clients_'[s][i].to = s /\ phase'[pending_clients_'[s][i]] = "pending"
      BY <2>1, <2>4, Zenon
    <2>. QED  BY <2>4, <2>5, <2>6, Zenon DEF QueueInv
  <1>8. ASSUME NEW t \in Servers, t # s PROVE QueueInv(t)'
    <2>1. /\ QueueInv(t) /\ accepted[t] \subseteq Connections
          /\ \A i \in DOMAIN pending_clients_[t] : pending_clients_[t][i] \in Connections
          /\ WorkersOf(t) \subseteq Workers
      BY <1>0, SequenceElements, ServerWorkers DEF PoolTypes, PoolInv
    <2>2. (\A i \in DOMAIN pending_clients_[t] : pending_clients_[t][i] # n) /\ n \notin accepted[t]
      BY <1>2, <1>8, <2>1, Zenon DEF QueueInv
    <2>. QED  BY <1>2, <1>3, <1>8, <2>1, <2>2 DEF QueueInv
  <1>9. ASSUME NEW m \in Connections PROVE OwnerInv(m)'
    <2>1. OwnerInv(m) /\ m.to \in Servers
      BY ConnectionKinds, Zenon DEF PoolInv
    <2>2. CASE m = n
      <3>1. Len(q) + 1 \in DOMAIN Append(q, n) /\ Append(q, n)[Len(q) + 1] = n
        BY <1>2, <1>5, SMTT(40)
      <3>. QED  BY <1>2, <2>1, <2>2, <3>1, Zenon DEF OwnerInv
    <2>3. CASE m # n
      <3>1. ASSUME phase[m] = "pending"
            PROVE  \E i \in DOMAIN pending_clients_'[m.to] : pending_clients_'[m.to][i] = m
        <4>1. PICK i \in DOMAIN pending_clients_[m.to] : pending_clients_[m.to][i] = m
          BY <2>1, <3>1, Zenon DEF OwnerInv
        <4>2. CASE m.to = s
          <5>1. i \in DOMAIN Append(q, n) /\ Append(q, n)[i] = m
            BY <1>2, <1>5, <4>1, <4>2
          <5>. QED  BY <1>2, <4>2, <5>1, Zenon
        <4>. QED  BY <1>2, <2>1, <4>1, <4>2, Zenon
      <3>. QED  BY <1>2, <2>1, <2>3, <3>1 DEF OwnerInv
    <2>. QED  BY <2>2, <2>3, Zenon
  <1>10. ASSUME NEW c \in Clients PROVE ClientInv(c)'
    BY <1>0, <1>2, ClientKept, Zenon DEF PoolInv, ClientInv
  <1>11. ASSUME NEW w \in Workers PROVE WorkerInv(w)'
    <2>1. ASSUME NEW m \in socket[w]
          PROVE  m \in Connections /\ phase[m] = "served" /\ m # n
      BY <1>2, ServedRequest DEF WorkerInv
    <2>2. CASE at'[w] = at[w]
      BY <1>2, <2>1, <2>2, WorkerKept
    <2>3. CASE at[w] = "blocked" /\ at'[w] = "awake"
      <3>1. socket[w] = {}
        BY <2>3, Zenon DEF PoolInv, WorkerInv, Free
      <3>. QED  BY <1>2, <2>3, <3>1, Zenon DEF WorkerInv, Free
    <2>. QED  BY <1>3, <2>2, <2>3, Zenon
  <1>. QED  BY <1>4, <1>7, <1>8, <1>9, <1>10, <1>11, Zenon DEF PoolInv

\* The accept thread leaves its loop.
LEMMA LeaveKeeps ==
    ASSUME PoolInv, NEW s \in Servers, accept_loop_leave(s)
    PROVE  PoolInv'
  <1>1. PoolTypes'
    BY DEF accept_loop_leave, PoolInv, PoolTypes, workVars, connVars
  <1>. QED  BY <1>1, IdleKeeps DEF accept_loop_leave, connVars
-----------------------------------------------------------------------------
(* The workers: waiting, taking a socket, reading and responding.          *)

\* Only worker w moves, and no connection is opened, closed or changes hands.
LEMMA MoveKeeps ==
    ASSUME PoolInv, NEW w \in Workers, NEW x \in Points, at[w] # "returned",
           at' = [at EXCEPT ![w] = x],
           UNCHANGED <<poolVars, socket, phase, answered, requests, responses>>,
           inbox' \subseteq inbox, shut' \subseteq Connections,
           mutex' \in [Servers -> SUBSET Workers], todo' \in [Workers -> SUBSET Servers],
           \A v \in Workers : v # w => todo'[v] = todo[v],
           WorkerInv(w)'
    PROVE  PoolInv'
  <1>0. PoolTypes
    BY Zenon DEF PoolInv
  <1>1. /\ at' \in [Workers -> Points]
        /\ \A v \in Workers : at'[v] = IF v = w THEN x ELSE at[v]
    BY <1>0, Zenon DEF PoolTypes
  <1>2. PoolTypes'
    BY <1>0, <1>1, Zenon DEF PoolTypes, poolVars
  <1>3. (\A s \in Servers : QueueInv(s)') /\ (\A n \in Connections : OwnerInv(n)')
    BY <1>1, OwnersKept, Zenon DEF poolVars
  <1>4. ASSUME NEW c \in Clients PROVE ClientInv(c)'
    BY <1>0, ClientKept, Zenon DEF PoolInv, ClientInv
  <1>5. ASSUME NEW v \in Workers, v # w PROVE WorkerInv(v)'
    <2>1. ASSUME NEW n \in socket[v] PROVE phase[n] = "served"
      BY ServedPhase, Zenon
    <2>. QED  BY <1>1, <1>5, <2>1, WorkerKept, Zenon
  <1>. QED  BY <1>2, <1>3, <1>4, <1>5, Zenon DEF PoolInv

\* A worker evaluates the predicate of its wait, blocks or returns.
LEMMA WaitKeeps ==
    ASSUME PoolInv, NEW w \in Workers, worker_decide(w) \/ worker_block(w) \/ worker_return(w)
    PROVE  PoolInv'
  <1>0. PoolTypes /\ WorkerInv(w)
    BY Zenon DEF PoolInv
  <1>1. PICK x \in {"deciding", "blocked", "returned"} : at' = [at EXCEPT ![w] = x]
    BY Zenon DEF worker_decide, worker_block, worker_return
  <1>2. /\ at[w] \in {"awake", "deciding"}
        /\ UNCHANGED <<poolVars, socket, todo, mutex, connVars>>
    BY Zenon DEF worker_decide, worker_block, worker_return
  <1>3. at'[w] \in Free /\ socket'[w] = {} /\ x \in Points
    BY <1>0, <1>1, <1>2, Zenon DEF WorkerInv, Free, Points, PoolTypes
  <1>4. WorkerInv(w)'
    BY <1>3, Zenon DEF WorkerInv
  <1>. QED  BY <1>0, <1>1, <1>2, <1>3, <1>4, MoveKeeps, Zenon DEF connVars, PoolTypes

\* The request a worker takes from a client has not been begun anywhere.
LEMMA ReadKeeps ==
    ASSUME PoolInv, NEW w \in Workers, read_request(w)
    PROVE  PoolInv'
  <1>0. PoolTypes /\ WorkerInv(w)
    BY Zenon DEF PoolInv
  <1>1. PICK n \in socket[w] : n \in inbox /\ inbox' = inbox \ {n}
    BY Zenon DEF read_request
  <1>2. /\ at[w] = "reading" /\ at' = [at EXCEPT ![w] = "processing"]
        /\ UNCHANGED <<poolVars, socket, todo, mutex, phase, answered, shut, requests,
                       responses>>
        /\ at'[w] = "processing" /\ "processing" \in Points
    BY <1>0, Zenon DEF read_request, PoolTypes, Points
  <1>3. n \in Connections /\ socket[w] = {n} /\ Nth(n)' = Nth(n)
    BY <1>0, <1>2, ServedRequest, Zenon DEF WorkerInv, Nth
  <1>4. n.kind = "client" =>
           /\ responses[n.of] < requests[n.of] /\ NotBegun(n.of, Nth(n))
           /\ phase[Forward(n.of, Nth(n))] = "unused"
    BY <1>1, <1>3, ServedRequest, Zenon DEF OneShot, ClientInv
  <1>5. n.kind = "forward" => NotBegun(n.of, Nth(n))
    BY <1>1, <1>3, ServedRequest, ConnectionKinds DEF OneShot, ClientInv
  <1>6. ~OneShot(n) => NotBegun(n.of, Nth(n))'
    BY <1>2, <1>3, <1>4, <1>5, Zenon DEF OneShot, NotBegun
  <1>7. WorkerInv(w)'
    BY <1>0, <1>1, <1>2, <1>3, <1>4, <1>6 DEF WorkerInv, Free
  <1>. QED  BY <1>0, <1>1, <1>2, <1>7, MoveKeeps, Zenon DEF PoolTypes

\* Worker w has answered the request of n, or not, and closes n or reads again.
LEMMA ServeKeeps ==
    ASSUME PoolInv, NEW w \in Workers, NEW n \in socket[w], at[w] \notin Free,
           \/ Close(w, n)
           \/ at' = [at EXCEPT ![w] = "reading"] /\ UNCHANGED <<phase, socket>>,
           UNCHANGED <<poolVars, todo, mutex, inbox, requests>>,
           answered' \subseteq Connections, shut' \subseteq Connections,
           \/ UNCHANGED responses
           \/ /\ n.kind = "client" /\ at[w] \in Busy
              /\ responses' = [responses EXCEPT ![n.of] = @ + 1]
    PROVE  PoolInv'
  <1>0. PoolTypes /\ WorkerInv(w)
    BY Zenon DEF PoolInv
  <1>1. n \in Connections /\ phase[n] = "served" /\ socket[w] = {n}
        /\ n.to = w[1] /\ \A v \in Workers : n \in socket[v] => v = w
    BY <1>0, ServedRequest, Zenon DEF WorkerInv
  <1>2. PICK x \in {"awake", "reading"} :
           /\ at' = [at EXCEPT ![w] = x]
           /\ x = "awake" => /\ phase' = [phase EXCEPT ![n] = "closed"]
                             /\ socket' = [socket EXCEPT ![w] = {}]
           /\ x = "reading" => UNCHANGED <<phase, socket>>
    BY Zenon DEF Close
  <1>3. /\ \A v \in Workers : at'[v] = IF v = w THEN x ELSE at[v]
        /\ \A v \in Workers : socket'[v] = IF v = w /\ x = "awake" THEN {} ELSE socket[v]
        /\ \A m \in Connections :
              phase'[m] = IF m = n /\ x = "awake" THEN "closed" ELSE phase[m]
        /\ at' \in [Workers -> Points] /\ socket' \in [Workers -> SUBSET Connections]
        /\ phase' \in [Connections -> Phases]
    BY <1>0, <1>2, Zenon DEF PoolTypes, Points, Phases
  <1>4. /\ responses' \in [Clients -> Nat]
        /\ \A c \in Clients :
              \/ responses'[c] = responses[c]
              \/ /\ n = Client(c) /\ n \notin inbox /\ responses[c] < requests[c]
                 /\ responses'[c] = responses[c] + 1
    <2>1. CASE UNCHANGED responses
      BY <1>0, <2>1, Zenon DEF PoolTypes
    <2>2. CASE /\ n.kind = "client" /\ at[w] \in Busy
               /\ responses' = [responses EXCEPT ![n.of] = @ + 1]
      <3>1. /\ n.of \in Clients /\ n = Client(n.of) /\ n \notin inbox
            /\ responses[n.of] < requests[n.of]
        BY <1>0, <1>1, <2>2, ConnectionKinds, Zenon DEF WorkerInv
      <3>. QED  BY <1>0, <2>2, <3>1 DEF PoolTypes
    <2>. QED  BY <2>1, <2>2, Zenon
  <1>5. PoolTypes'
    BY <1>0, <1>3, <1>4, Zenon DEF PoolTypes, poolVars
  <1>6. ASSUME NEW s \in Servers PROVE QueueInv(s)'
    <2>1. /\ QueueInv(s) /\ accepted[s] \subseteq Connections /\ WorkersOf(s) \subseteq Workers
          /\ \A i \in DOMAIN pending_clients_[s] : pending_clients_[s][i] \in Connections
      BY <1>0, SequenceElements, ServerWorkers DEF PoolTypes, PoolInv
    <2>2. (\A i \in DOMAIN pending_clients_[s] : pending_clients_[s][i] # n) /\ n \notin accepted[s]
      BY <1>1, <2>1, Zenon DEF QueueInv
    <2>. QED  BY <1>3, <2>1, <2>2, ZenonT(40) DEF QueueInv, poolVars, Free
  <1>7. ASSUME NEW m \in Connections PROVE OwnerInv(m)'
    <2>1. OwnerInv(m)
      BY Zenon DEF PoolInv
    <2>. QED  BY <1>1, <1>3, <2>1, Zenon DEF OwnerInv, poolVars
  <1>8. ASSUME NEW c \in Clients PROVE ClientInv(c)'
    <2>1. responses'[c] <= requests[c]
      BY <1>0, <1>4 DEF PoolInv, ClientInv, PoolTypes
    <2>. QED  BY <1>0, <1>1, <1>3, <1>4, <2>1, ClientKept, Zenon DEF PoolInv
  <1>9. ASSUME NEW v \in Workers, v # w PROVE WorkerInv(v)'
    <2>1. ASSUME NEW m \in socket[v]
          PROVE  /\ m \in Connections /\ phase[m] = "served" /\ m # n
                 /\ m.kind = "client" => m.of \in Clients /\ m = Client(m.of)
      BY <1>1, <1>9, ServedRequest, ConnectionKinds DEF WorkerInv
    <2>2. \A m \in socket[v] : m.kind = "client" => responses'[m.of] = responses[m.of]
      BY <1>4, <2>1, Zenon
    <2>. QED  BY <1>1, <1>3, <1>9, <2>1, <2>2, WorkerKept
  <1>10. WorkerInv(w)'
    BY <1>0, <1>1, <1>3 DEF WorkerInv, Free, Busy
  <1>. QED  BY <1>5, <1>6, <1>7, <1>8, <1>9, <1>10, Zenon DEF PoolInv

\* A worker reads the end of its connection.
LEMMA EofKeeps ==
    ASSUME PoolInv, NEW w \in Workers, read_request_eof(w)
    PROVE  PoolInv'
  <1>1. PICK n \in socket[w] : Close(w, n)
    BY Zenon DEF read_request_eof
  <1>. QED  BY <1>1, ServeKeeps, Zenon DEF read_request_eof, Free, PoolInv, PoolTypes

\* A worker sends its response.
LEMMA RespondKeeps ==
    ASSUME PoolInv, NEW w \in Workers, NEW n \in socket[w], at[w] \in Busy, Respond(w, n),
           UNCHANGED <<poolVars, todo, mutex, inbox, requests>>, shut' \subseteq Connections
    PROVE  PoolInv'
  <1>1. n \in Connections /\ answered' \subseteq Connections /\ at[w] \notin Free
    BY ServedRequest DEF Respond, Busy, PoolInv, PoolTypes
  <1>. QED  BY <1>1, ServeKeeps, Zenon DEF Respond

\* A worker serves a request without another broker, or responds.
LEMMA ProcessKeeps ==
    ASSUME PoolInv, NEW w \in Workers,
           process_replicate(w) \/ process_locally(w) \/ send_response(w)
    PROVE  PoolInv'
  <1>1. PICK n \in socket[w] : Respond(w, n)
    BY Zenon DEF process_replicate, process_locally, send_response
  <1>2. /\ at[w] \in {"processing", "responding"}
        /\ UNCHANGED <<poolVars, todo, mutex, inbox, shut, requests>>
    BY Zenon DEF process_replicate, process_locally, send_response
  <1>3. at[w] \in Busy /\ shut \subseteq Connections
    BY <1>2, Zenon DEF Busy, Points, Free, PoolInv, PoolTypes
  <1>. QED  BY <1>1, <1>2, <1>3, RespondKeeps, Zenon

\* forward_to_leader gets its answer, or loses its connection.
LEMMA ForwardDoneKeeps ==
    ASSUME PoolInv, NEW w \in Workers, forward_to_leader_done(w)
    PROVE  PoolInv'
  <1>1. PICK n \in socket[w] :
           shut' = shut \cup {Forward(n.of, Nth(n))} /\ Respond(w, n)
    BY Zenon DEF forward_to_leader_done
  <1>2. at[w] = "forwarding" /\ at[w] \in Busy /\ shut \subseteq Connections
    BY Zenon DEF forward_to_leader_done, Busy, Points, Free, PoolInv, PoolTypes
  <1>3. n.kind = "client"
    BY <1>2, ServedRequest, Zenon DEF WorkerInv
  <1>4. Forward(n.of, Nth(n)) \in Connections
    BY <1>2, <1>3, ServedRequest, RequestConnections, Zenon DEF OneShot
  <1>. QED  BY <1>1, <1>2, <1>4, RespondKeeps, Zenon DEF forward_to_leader_done
-----------------------------------------------------------------------------
(* The workers: taking a socket from the queue.                            *)

\* The head of the queue goes to the worker, which alone has it.
LEMMA TakeKeeps ==
    ASSUME PoolInv, NEW w \in Workers, worker_take(w)
    PROVE  PoolInv'
  <1>. DEFINE s == w[1]
              q == pending_clients_[s]
              n == Head(q)
  <1>0. PoolTypes /\ WorkerInv(w) /\ s \in Servers /\ QueueInv(s)
    BY WorkerServer, Zenon DEF PoolInv
  <1>1. /\ q \in Seq(Connections) /\ q # <<>> /\ Len(q) \in Nat \ {0}
        /\ n = q[1] /\ n \in Connections /\ Tail(q) \in Seq(Connections)
        /\ DOMAIN q = 1..Len(q) /\ DOMAIN Tail(q) = 1..(Len(q) - 1)
        /\ \A i \in 1..(Len(q) - 1) : Tail(q)[i] = q[i + 1]
        /\ \A i \in 1..Len(q) : q[i] \in Connections
    <2>1. q \in Seq(Connections) /\ q # <<>>
      BY <1>0, Zenon DEF PoolTypes, worker_take
    <2>. QED  BY <2>1, SequenceElements, TailFacts
  <1>2. /\ n.to = s /\ phase[n] = "pending" /\ at[w] = "awake" /\ socket[w] = {}
        /\ \A i \in 1..Len(q) : q[i] = n => i = 1
    <2>1. 1 \in DOMAIN q
      BY <1>1
    <2>2. at[w] = "awake" /\ socket[w] = {}
      BY <1>0, Zenon DEF worker_take, WorkerInv, Free
    <2>. QED  BY <1>0, <1>1, <2>1, <2>2 DEF QueueInv
  <1>. HIDE DEF n, q
  <1>3. PICK x \in {"awake", "reading"} :
           /\ at' = [at EXCEPT ![w] = x]
           /\ phase' = [phase EXCEPT ![n] = IF x = "reading" THEN "served" ELSE "closed"]
           /\ socket' = [socket EXCEPT ![w] = IF x = "reading" THEN {n} ELSE {}]
    BY Zenon DEF worker_take, Close, n, q
  <1>4. /\ \A v \in Workers : at'[v] = IF v = w THEN x ELSE at[v]
        /\ \A v \in Workers : v # w => socket'[v] = socket[v]
        /\ socket'[w] = IF x = "reading" THEN {n} ELSE {}
        /\ \A m \in Connections : m # n => phase'[m] = phase[m]
        /\ phase'[n] = IF x = "reading" THEN "served" ELSE "closed"
        /\ at' \in [Workers -> Points] /\ socket' \in [Workers -> SUBSET Connections]
        /\ phase' \in [Connections -> Phases]
    BY <1>0, <1>1, <1>3 DEF PoolTypes, Points, Phases
  <1>5. /\ UNCHANGED <<running, listening, accepting, stopped, missed, accepted,
                       todo, mutex, inbox, answered, shut, requests, responses>>
        /\ pending_clients_' \in [Servers -> Seq(Connections)]
        /\ \A t \in Servers : pending_clients_'[t] =
                                 IF t = s THEN Tail(q) ELSE pending_clients_[t]
    BY <1>0, <1>1, Zenon DEF worker_take, PoolTypes, q
  <1>6. PoolTypes'
    BY <1>0, <1>4, <1>5, Zenon DEF PoolTypes
  <1>7. QueueInv(s)'
    <2>1. n \notin accepted[s] /\ accepted[s] \subseteq Connections /\ WorkersOf(s) \subseteq Workers
      BY <1>0, <1>2, ServerWorkers, Zenon DEF QueueInv, PoolTypes
    <2>2. s \notin stopped
      BY <1>0, <1>1, Zenon DEF QueueInv, q
    <2>3. /\ \A i \in 1..Len(q) : q[i].to = s /\ phase[q[i]] = "pending"
          /\ \A i, j \in 1..Len(q) : q[i] = q[j] => i = j
      BY <1>0, <1>1, Zenon DEF QueueInv, q
    <2>4. ASSUME NEW i \in 1..(Len(q) - 1)
          PROVE  Tail(q)[i].to = s /\ phase'[Tail(q)[i]] = "pending"
      <3>1. i + 1 \in 1..Len(q) /\ i + 1 # 1 /\ Tail(q)[i] = q[i + 1]
        BY <1>1
      <3>. QED  BY <1>1, <1>2, <1>4, <2>3, <3>1
    <2>5. ASSUME NEW i \in 1..(Len(q) - 1), NEW j \in 1..(Len(q) - 1), Tail(q)[i] = Tail(q)[j]
          PROVE  i = j
      BY <1>1, <2>3, <2>5
    <2>6. pending_clients_'[s] = Tail(q) /\ accepted' = accepted /\ s \notin stopped'
      BY <1>0, <1>5, <2>2, Zenon
    <2>7. \A m \in accepted'[s] :
             m.to = s /\ phase'[m] = "accepted" /\ accepted'[s] = {m} /\ s \in accepting'
      BY <1>0, <1>4, <1>5, <2>1 DEF QueueInv
    <2>8. \A i, j \in DOMAIN pending_clients_'[s] :
             pending_clients_'[s][i] = pending_clients_'[s][j] => i = j
      BY <1>1, <2>5, <2>6, Zenon
    <2>9. \A i \in DOMAIN pending_clients_'[s] :
             pending_clients_'[s][i].to = s /\ phase'[pending_clients_'[s][i]] = "pending"
      BY <1>1, <2>4, <2>6, Zenon
    <2>. QED  BY <2>6, <2>7, <2>8, <2>9, Zenon DEF QueueInv
  <1>8. ASSUME NEW t \in Servers, t # s PROVE QueueInv(t)'
    <2>1. /\ QueueInv(t) /\ accepted[t] \subseteq Connections /\ WorkersOf(t) \subseteq Workers
          /\ \A i \in DOMAIN pending_clients_[t] : pending_clients_[t][i] \in Connections
          /\ w \notin WorkersOf(t)
      BY <1>0, <1>8, SequenceElements, ServerWorkers, WorkerServer DEF PoolTypes, PoolInv
    <2>2. (\A i \in DOMAIN pending_clients_[t] : pending_clients_[t][i] # n) /\ n \notin accepted[t]
      BY <1>2, <1>8, <2>1, Zenon DEF QueueInv
    <2>. QED  BY <1>4, <1>5, <1>8, <2>1, <2>2 DEF QueueInv
  <1>9. ASSUME NEW m \in Connections PROVE OwnerInv(m)'
    <2>1. OwnerInv(m) /\ m.to \in Servers
      BY ConnectionKinds, Zenon DEF PoolInv
    <2>2. CASE m = n
      BY <1>4, <1>5, <2>1, <2>2, <1>2, Zenon DEF OwnerInv
    <2>3. CASE m # n
      <3>1. ASSUME phase[m] = "pending"
            PROVE  \E i \in DOMAIN pending_clients_'[m.to] : pending_clients_'[m.to][i] = m
        <4>1. PICK i \in DOMAIN pending_clients_[m.to] : pending_clients_[m.to][i] = m
          BY <2>1, <3>1, Zenon DEF OwnerInv
        <4>2. CASE m.to = s
          <5>1. i \in 1..Len(q) /\ q[i] = m /\ i # 1
            BY <1>1, <2>3, <4>1, <4>2, Zenon DEF q
          <5>2. i - 1 \in 1..(Len(q) - 1) /\ Tail(q)[i - 1] = m
            BY <1>1, <5>1
          <5>. QED  BY <1>1, <1>5, <2>1, <4>2, <5>2, Zenon
        <4>. QED  BY <1>5, <2>1, <4>1, <4>2, Zenon
      <3>2. ASSUME phase[m] = "served" PROVE \E v \in Workers : m \in socket'[v]
        BY <1>2, <1>4, <2>1, <3>2, Zenon DEF OwnerInv
      <3>. QED  BY <1>4, <1>5, <2>1, <2>3, <3>1, <3>2, Zenon DEF OwnerInv
    <2>. QED  BY <2>2, <2>3, Zenon
  <1>10. ASSUME NEW c \in Clients PROVE ClientInv(c)'
    BY <1>0, <1>1, <1>2, <1>4, <1>5, ClientKept DEF PoolInv, ClientInv
  <1>11. ASSUME NEW v \in Workers PROVE n \notin socket[v]
    BY <1>2, ServedPhase, Zenon
  <1>12. ASSUME NEW v \in Workers, v # w PROVE WorkerInv(v)'
    <2>1. ASSUME NEW m \in socket[v]
          PROVE  m \in Connections /\ phase[m] = "served" /\ m # n
      <3>1. m \in Connections /\ phase[m] = "served"
        BY ServedPhase, Zenon
      <3>2. m # n
        BY <1>11, Zenon
      <3>. QED  BY <3>1, <3>2, Zenon
    <2>. QED  BY <1>2, <1>4, <1>5, <1>12, <2>1, WorkerKept
  <1>13. WorkerInv(w)'
    <2>1. CASE x = "awake"
      <3>1. at'[w] \in Free /\ socket'[w] = {}
        BY <1>4, <2>1 DEF Free
      <3>. QED  BY <3>1 DEF WorkerInv
    <2>2. CASE x = "reading"
      <3>1. /\ at'[w] = "reading" /\ socket'[w] = {n} /\ phase'[n] = "served" /\ n.to = w[1]
            /\ \A v \in Workers : n \in socket'[v] => v = w
        BY <1>2, <1>4, <1>11, <2>2
      <3>2. at'[w] \notin Free /\ at'[w] \notin Busy
        BY <3>1 DEF Free, Busy
      <3>. QED  BY <3>1, <3>2 DEF WorkerInv
    <2>. QED  BY <2>1, <2>2
  <1>. QED  BY <1>6, <1>7, <1>8, <1>9, <1>10, <1>12, <1>13, Zenon DEF PoolInv
-----------------------------------------------------------------------------
(* The workers: opening connections for a request.                         *)

\* Worker w opens connections of the request it serves.
LEMMA RequestOpens ==
    ASSUME PoolInv, NEW w \in Workers, NEW n \in socket[w], ~OneShot(n), at[w] \in Opening,
           NEW O \in SUBSET Connections,
           \A m \in O : /\ m.kind \in {"forward", "replicate", "commit"}
                        /\ m.of = n.of /\ m.nth = Nth(n)
                        /\ phase[m] = "unused" /\ m.to \in listening,
           \A m \in Connections : phase'[m] = IF m \in O THEN "backlog" ELSE phase[m],
           phase' \in [Connections -> Phases],
           inbox' = inbox \cup O, shut' \subseteq Connections,
           NEW x \in Points, at' = [at EXCEPT ![w] = x],
           todo' \in [Workers -> SUBSET Servers],
           \A v \in Workers : v # w => todo'[v] = todo[v],
           UNCHANGED <<poolVars, socket, mutex, answered, requests, responses>>,
           WorkerInv(w)', ClientInv(n.of)'
    PROVE  PoolInv'
  <1>0. PoolTypes /\ n.of \in Clients /\ at[w] # "returned"
    BY ServedRequest, Zenon DEF PoolInv, Opening
  <1>1. /\ at' \in [Workers -> Points]
        /\ \A v \in Workers : at'[v] = IF v = w THEN x ELSE at[v]
    BY <1>0, Zenon DEF PoolTypes
  <1>2. PoolTypes'
    BY <1>0, <1>1, Zenon DEF PoolTypes, poolVars
  <1>3. (\A s \in Servers : QueueInv(s)') /\ (\A m \in Connections : OwnerInv(m)')
    BY <1>0, <1>1, OwnersKept, Zenon DEF poolVars
  <1>4. ASSUME NEW c \in Clients, c # n.of PROVE ClientInv(c)'
    BY <1>0, <1>4, ClientKept DEF PoolInv, ClientInv
  <1>5. ASSUME NEW v \in Workers, v # w PROVE WorkerInv(v)'
    <2>1. ASSUME NEW m \in socket[v] PROVE m \in Connections /\ phase[m] = "served" /\ m \notin O
      BY ServedPhase, Zenon
    <2>2. ASSUME NEW m \in socket[v], at[v] \in Opening, ~OneShot(m), NEW o \in O,
                 o.of = m.of, o.nth = Nth(m)
          PROVE  FALSE
      BY <1>5, <2>2, OneWorkerPerRequest, Zenon
    <2>. QED  BY <1>1, <1>5, <2>1, <2>2, WorkerKept, Zenon
  <1>. QED  BY <1>0, <1>2, <1>3, <1>4, <1>5, Zenon DEF PoolInv

\* The leader opens connections to replicate or commit a request: it is the
\* client's own server, or the request has been forwarded and read.
LEMMA LeaderOpensKeepsClient ==
    ASSUME PoolInv, NEW w \in Workers, NEW n \in socket[w],
           at[w] \in {"replicating", "waiting", "committing"},
           NEW O \in SUBSET Connections,
           \A m \in O : m.kind \in {"replicate", "commit"} /\ m.of = n.of /\ m.nth = Nth(n),
           \A m \in Connections : phase'[m] = IF m \in O THEN "backlog" ELSE phase[m],
           inbox' = inbox \cup O, UNCHANGED <<requests, responses>>
    PROVE  ClientInv(n.of)'
  <1>. DEFINE c == n.of
              k == Nth(n)
  <1>1. /\ ~OneShot(n) /\ w[1] = Leader /\ n.to = Leader /\ phase[n] = "served"
        /\ n \notin inbox /\ at[w] \in Busy /\ n \in Connections
    BY ServedRequest DEF WorkerInv, Busy, Points, Free
  <1>2. /\ c \in Clients /\ ClientInv(c) /\ k \in 1..MaxRequests
        /\ n.kind = "client" \/ n.kind = "forward"
        /\ n.kind = "client" => n = Client(c) /\ k = requests[c]
        /\ n.kind = "forward" => n = Forward(c, k)
    BY <1>1, ServedRequest, Zenon
  <1>3. n.kind = "client" => Home[c] = Leader /\ Forward(c, k) \notin inbox
    <2>1. SUFFICES ASSUME n.kind = "client" PROVE Home[c] = Leader /\ Forward(c, k) \notin inbox
      BY Zenon
    <2>2. Home[c] = Leader
      BY <1>1, <1>2, <2>1, ClientConnection
    <2>3. phase[Forward(c, k)] = "unused" /\ Forward(c, k) \in Connections
      BY <1>2, <2>2, RequestConnections, Zenon DEF ClientInv
    <2>. QED  BY <2>2, <2>3, Zenon DEF PoolInv, OwnerInv
  <1>. HIDE DEF c, k
  <1>4. ASSUME NEW j \in 1..MaxRequests
        PROVE  /\ phase'[Forward(c, j)] = phase[Forward(c, j)]
               /\ Forward(c, j) \in inbox' <=> Forward(c, j) \in inbox
               /\ j # k /\ NotBegun(c, j) => NotBegun(c, j)'
    BY <1>2, RequestConnections DEF NotBegun, c, k
  <1>5. Client(c) \in inbox' => Client(c) \in inbox
    BY <1>2, ClientConnection, Zenon DEF c
  <1>6. Forward(c, k) \notin inbox
    BY <1>1, <1>2, <1>3, Zenon
  <1>7. Client(c) \in inbox => requests[c] # k /\ requests[c] \in 1..MaxRequests
    <2>1. SUFFICES ASSUME Client(c) \in inbox
                   PROVE  requests[c] # k /\ requests[c] \in 1..MaxRequests
      BY Zenon
    <2>2. n.kind = "forward" /\ phase[Forward(c, requests[c])] = "unused"
          /\ responses[c] < requests[c]
      BY <1>1, <1>2, <2>1, Zenon DEF ClientInv
    <2>3. requests[c] \in 0..MaxRequests /\ responses[c] \in Nat
      BY <1>2, Zenon DEF PoolInv, PoolTypes
    <2>. QED  BY <1>1, <1>2, <2>2, <2>3
  <1>8. NotBegun(c, requests[c]) /\ requests[c] # k /\ requests[c] \in 1..MaxRequests
           => NotBegun(c, requests[c])'
    BY <1>4, Zenon DEF NotBegun
  <1>9. ASSUME NEW j \in 1..MaxRequests
        PROVE  /\ j > requests[c] \/ Home[c] = Leader => phase'[Forward(c, j)] = "unused"
               /\ Forward(c, j) \in inbox' => NotBegun(c, j)'
               /\ phase'[Forward(c, j)] = "unused" /\ (Home[c] # Leader \/ j > requests[c])
                     => NotBegun(c, j)'
    <2>1. /\ j > requests[c] \/ Home[c] = Leader => phase[Forward(c, j)] = "unused"
          /\ Forward(c, j) \in inbox => NotBegun(c, j)
          /\ phase[Forward(c, j)] = "unused" /\ (Home[c] # Leader \/ j > requests[c])
                => NotBegun(c, j)
      BY <1>2, Zenon DEF ClientInv
    <2>2. CASE j # k
      BY <1>4, <2>1, <2>2, Zenon
    <2>3. CASE j = k
      <3>1. k <= requests[c]
        <4>1. requests[c] \in 0..MaxRequests
          BY <1>2, Zenon DEF PoolInv, PoolTypes
        <4>2. n.kind = "forward" => ~(k > requests[c])
          BY <1>1, <1>2, Zenon DEF ClientInv
        <4>. QED  BY <1>2, <4>1, <4>2
      <3>2. requests[c] \in 0..MaxRequests
        BY <1>2, Zenon DEF PoolInv, PoolTypes
      <3>3. ~(phase[Forward(c, k)] = "unused" /\ (Home[c] # Leader \/ k > requests[c]))
        BY <1>1, <1>2, <1>3, <3>1, <3>2
      <3>. QED  BY <1>4, <1>6, <2>1, <2>3, <3>3, Zenon
    <2>. QED  BY <2>2, <2>3, Zenon
  <1>10. ClientInv(c)'
    BY <1>2, <1>4, <1>5, <1>7, <1>8, <1>9, Zenon DEF ClientInv
  <1>. QED  BY <1>10, Zenon DEF c

\* forward_to_leader connects to the leader.
LEMMA ForwardKeeps ==
    ASSUME PoolInv, NEW w \in Workers, forward_to_leader(w)
    PROVE  PoolInv'
  <1>0. PoolTypes /\ WorkerInv(w)
    BY Zenon DEF PoolInv
  <1>1. /\ at[w] = "processing" /\ w[1] # Leader /\ at[w] \in Busy /\ at[w] \in Opening
        /\ UNCHANGED <<poolVars, todo, mutex, shut, requests>>
    BY Zenon DEF forward_to_leader, Busy, Points, Free, Opening
  <1>2. PICK n \in socket[w] :
           /\ n.kind = "client"
           /\ IF Leader \in listening
              THEN /\ phase' = [phase EXCEPT ![Forward(n.of, Nth(n))] = "backlog"]
                   /\ inbox' = inbox \cup {Forward(n.of, Nth(n))}
                   /\ at' = [at EXCEPT ![w] = "forwarding"]
                   /\ UNCHANGED <<socket, answered, responses>>
              ELSE Respond(w, n) /\ UNCHANGED inbox
    BY Zenon DEF forward_to_leader
  <1>3. CASE Leader \notin listening
    BY <1>0, <1>1, <1>2, <1>3, RespondKeeps, Zenon DEF PoolTypes
  <1>4. CASE Leader \in listening
    <2>. DEFINE c == n.of
                k == Nth(n)
                f == Forward(c, k)
    <2>1. /\ c \in Clients /\ ClientInv(c) /\ n = Client(c) /\ k = requests[c] /\ ~OneShot(n)
          /\ k \in 1..MaxRequests /\ n \in Connections
      BY <1>1, <1>2, ServedRequest, Zenon DEF OneShot
    <2>2. /\ f \in Connections /\ f.kind = "forward" /\ f.of = c /\ f.nth = k /\ f.to = Leader
          /\ f # n
      BY <1>2, <2>1, RequestConnections, SMTT(40)
    <2>3. /\ n \notin inbox /\ responses[c] < requests[c] /\ phase[f] = "unused"
          /\ NotBegun(c, k) /\ n.to = w[1] /\ phase[n] = "served" /\ socket[w] = {n}
          /\ \A v \in Workers : n \in socket[v] => v = w
      BY <1>0, <1>1, <1>2, <2>1, Zenon DEF WorkerInv
    <2>4. Home[c] # Leader
      BY <1>1, <2>1, <2>3, ClientConnection, Zenon
    <2>5. /\ phase' \in [Connections -> Phases]
          /\ \A m \in Connections : phase'[m] = IF m \in {f} THEN "backlog" ELSE phase[m]
          /\ inbox' = inbox \cup {f} /\ at' = [at EXCEPT ![w] = "forwarding"]
          /\ UNCHANGED <<socket, answered, responses>>
          /\ at'[w] = "forwarding" /\ "forwarding" \in Points
      BY <1>0, <1>2, <1>4, <2>2, Zenon DEF PoolTypes, Phases, Points
    <2>6. WorkerInv(w)'
      BY <1>1, <1>2, <2>1, <2>2, <2>3, <2>5, Zenon DEF WorkerInv, Free
    <2>7. ClientInv(c)'
      <3>1. ASSUME NEW j \in 1..MaxRequests
            PROVE  /\ NotBegun(c, j)' <=> NotBegun(c, j)
                   /\ j # k => /\ phase'[Forward(c, j)] = phase[Forward(c, j)]
                               /\ Forward(c, j) \in inbox' => Forward(c, j) \in inbox
        <4>1. Forward(c, j) \in Connections /\ (j # k => Forward(c, j) # f)
          BY <2>1, <2>2, RequestConnections
        <4>2. \A p \in Servers : /\ Replicate(c, j, p) \in Connections \ {f}
                                 /\ Commit(c, j, p) \in Connections \ {f}
          BY <2>1, <2>2, RequestConnections
        <4>. QED  BY <2>5, <4>1, <4>2, Zenon DEF NotBegun
      <3>2. Client(c) \notin inbox'
        BY <2>1, <2>2, <2>3, <2>5, Zenon
      <3>3. ~(k > requests[c])
        BY <2>1
      <3>4. phase'[f] = "backlog"
        BY <2>2, <2>5, Zenon
      <3>. QED  BY <1>1, <2>1, <2>3, <2>4, <2>5, <3>1, <3>2, <3>3, <3>4, Zenon DEF ClientInv
    <2>. HIDE DEF f, k, c
    <2>8. ClientInv(n.of)' /\ f.of = n.of /\ f.nth = Nth(n) /\ {f} \in SUBSET Connections
      BY <2>2, <2>7, Zenon DEF c, k
    <2>9. todo' \in [Workers -> SUBSET Servers] /\ shut' \subseteq Connections
      BY <1>0, <1>1, Zenon DEF PoolTypes
    <2>. QED  BY <1>1, <1>4, <2>1, <2>2, <2>3, <2>5, <2>6, <2>8, <2>9, RequestOpens, ZenonT(40)
  <1>. QED  BY <1>3, <1>4, Zenon

\* A worker that replicates or commits keeps its request for itself.
LEMMA ReplicatingWorker ==
    ASSUME NEW w \in Workers, WorkerInv(w), at[w] \in Busy,
           at'[w] \in {"replicating", "committing"},
           UNCHANGED <<socket, phase, inbox, requests, responses>>,
           \A n \in socket[w] :
              /\ w[1] = Leader /\ ~OneShot(n)
              /\ \A p \in Servers : phase[Commit(n.of, Nth(n), p)] = "unused"
              /\ at'[w] = "replicating" =>
                    \A p \in todo'[w] : phase[Replicate(n.of, Nth(n), p)] = "unused"
    PROVE  WorkerInv(w)'
  <1>1. /\ at'[w] \in Busy /\ at'[w] \notin Free /\ at[w] \notin Free
        /\ at'[w] \notin {"processing", "forwarding", "waiting"}
    BY Zenon DEF Busy, Free, Points
  <1>2. /\ socket' = socket /\ phase' = phase /\ inbox' = inbox
        /\ requests' = requests /\ responses' = responses
    BY Zenon
  <1>3. socket'[w] # {}
    BY <1>1, <1>2, Zenon DEF WorkerInv
  <1>4. ASSUME NEW n \in socket'[w]
        PROVE  /\ n.to = w[1] /\ phase'[n] = "served" /\ socket'[w] = {n}
               /\ \A v \in Workers : n \in socket'[v] => v = w
               /\ n \notin inbox' /\ (n.kind = "client" => responses'[n.of] < requests'[n.of])
    BY <1>2, <1>4, Zenon DEF WorkerInv
  <1>5. ASSUME NEW n \in socket'[w]
        PROVE  /\ Nth(n)' = Nth(n)
               /\ w[1] = Leader /\ ~OneShot(n)
               /\ \A p \in Servers : phase'[Commit(n.of, Nth(n)', p)] = "unused"
               /\ at'[w] = "replicating" =>
                     \A p \in todo'[w] : phase'[Replicate(n.of, Nth(n)', p)] = "unused"
    <2>1. Nth(n)' = Nth(n)
      BY <1>2, Zenon DEF Nth
    <2>. QED  BY <1>2, <1>5, <2>1
  <1>. QED  BY <1>1, <1>3, <1>4, <1>5, ZenonT(40) DEF WorkerInv

\* The leader begins to replicate.
LEMMA ReplicateBeginKeeps ==
    ASSUME PoolInv, NEW w \in Workers, replicate_begin(w)
    PROVE  PoolInv'
  <1>0. PoolTypes /\ WorkerInv(w) /\ w[1] \in Servers
    BY WorkerServer, Zenon DEF PoolInv
  <1>1. /\ at[w] = "processing" /\ at' = [at EXCEPT ![w] = "replicating"]
        /\ UNCHANGED <<poolVars, socket, connVars>> /\ w[1] = Leader
        /\ at'[w] = "replicating" /\ "replicating" \in Points
        /\ mutex' \in [Servers -> SUBSET Workers] /\ todo' \in [Workers -> SUBSET Servers]
        /\ \A v \in Workers : v # w => todo'[v] = todo[v]
    BY <1>0, Zenon DEF replicate_begin, PoolTypes, Points
  <1>2. PICK n \in socket[w] : ~OneShot(n)
    BY Zenon DEF replicate_begin
  <1>3. /\ socket[w] = {n} /\ Nth(n)' = Nth(n) /\ NotBegun(n.of, Nth(n))
        /\ at[w] \notin Free /\ at[w] \in Busy
    BY <1>0, <1>1, <1>2, Zenon DEF WorkerInv, Nth, connVars, Free, Busy, Points
  <1>4. WorkerInv(w)'
    <2>1. ASSUME NEW m \in socket[w]
          PROVE  /\ w[1] = Leader /\ ~OneShot(m)
                 /\ \A q \in Servers : phase[Commit(m.of, Nth(m), q)] = "unused"
                 /\ at'[w] = "replicating" =>
                       \A q \in todo'[w] : phase[Replicate(m.of, Nth(m), q)] = "unused"
      BY <1>0, <1>1, <1>2, <1>3, <2>1, ZenonT(40) DEF NotBegun, PoolTypes
    <2>2. at[w] \in Busy /\ at'[w] \in {"replicating", "committing"}
      BY <1>1, Zenon DEF Free, Busy, Points
    <2>3. UNCHANGED <<socket, phase, inbox, requests, responses>>
      BY <1>1, Zenon DEF connVars
    <2>. QED  BY <1>0, <2>1, <2>2, <2>3, ReplicatingWorker, Zenon
  <1>. QED  BY <1>0, <1>1, <1>4, MoveKeeps, Zenon DEF connVars, PoolTypes

\* The leader has replicated to every peer.
LEMMA ReplicateEndKeeps ==
    ASSUME PoolInv, NEW w \in Workers, replicate_end(w)
    PROVE  PoolInv'
  <1>0. PoolTypes /\ WorkerInv(w) /\ w[1] \in Servers
    BY WorkerServer, Zenon DEF PoolInv
  <1>1. /\ at[w] = "replicating" /\ at' = [at EXCEPT ![w] = "committing"]
        /\ UNCHANGED <<poolVars, socket, connVars>>
        /\ at'[w] = "committing" /\ "committing" \in Points
        /\ mutex' \in [Servers -> SUBSET Workers] /\ todo' \in [Workers -> SUBSET Servers]
        /\ \A v \in Workers : v # w => todo'[v] = todo[v]
    BY <1>0, Zenon DEF replicate_end, PoolTypes, Points
  <1>2. \A n \in socket[w] : Nth(n)' = Nth(n)
    BY <1>1, Zenon DEF Nth, connVars
  <1>3. WorkerInv(w)'
    <2>1. ASSUME NEW m \in socket[w]
          PROVE  /\ w[1] = Leader /\ ~OneShot(m)
                 /\ \A q \in Servers : phase[Commit(m.of, Nth(m), q)] = "unused"
                 /\ at'[w] = "replicating" =>
                       \A q \in todo'[w] : phase[Replicate(m.of, Nth(m), q)] = "unused"
      BY <1>0, <1>1, <2>1, Zenon DEF WorkerInv
    <2>2. at[w] \in Busy /\ at'[w] \in {"replicating", "committing"}
      BY <1>1, Zenon DEF Free, Busy, Points
    <2>3. UNCHANGED <<socket, phase, inbox, requests, responses>>
      BY <1>1, Zenon DEF connVars
    <2>. QED  BY <1>0, <2>1, <2>2, <2>3, ReplicatingWorker, Zenon
  <1>. QED  BY <1>0, <1>1, <1>3, MoveKeeps, Zenon DEF connVars, PoolTypes


(* The workers: replicating a request and broadcasting its commit.        *)
\* Min picks the least element of a non-empty set of broker ids: the next peer
\* of the loop over the peers.
LEMMA MinOfServers ==
    ASSUME NEW S \in SUBSET Servers, S # {}
    PROVE  Min(S) \in S /\ \A y \in S : Min(S) <= y
  <1>1. S \in SUBSET Nat
    BY TCPServerAssumption, Zenon
  <1>2. PICK x \in S : \A y \in S : ~(<<y, x>> \in OpToRel(<, Nat))
    BY <1>1, NatLessThanWellFounded, WFMin, Zenon
  <1>3. ASSUME NEW y \in S, y < x PROVE FALSE
    <2>1. y \in Nat /\ x \in Nat
      BY <1>1, Zenon
    <2>2. <<y, x>> \in OpToRel(<, Nat)
      BY <1>3, <2>1, Zenon DEF OpToRel
    <2>. QED  BY <1>2, <2>2, Zenon
  <1>4. \A y \in S : x <= y
    BY <1>1, <1>3
  <1>. QED  BY <1>4, Zenon DEF Min

\* The leader connects to the next peer.
LEMMA ReplicateSendKeeps ==
    ASSUME PoolInv, NEW w \in Workers, replicate_send(w)
    PROVE  PoolInv'
  <1>. DEFINE p == Min(todo[w] \cap listening)
              rest == {q \in todo[w] : q >= p}
  <1>0. PoolTypes /\ WorkerInv(w) /\ todo[w] \subseteq Servers /\ listening \subseteq Servers
    BY Zenon DEF PoolInv, PoolTypes
  <1>1. /\ at[w] = "replicating" /\ at' = [at EXCEPT ![w] = "waiting"]
        /\ UNCHANGED <<poolVars, socket, mutex, answered, shut, requests, responses>>
        /\ todo' = [todo EXCEPT ![w] = rest] /\ todo[w] \cap listening # {}
        /\ at'[w] = "waiting" /\ "waiting" \in Points /\ at[w] \in Opening /\ at[w] \in Busy
        /\ at[w] \notin Free
    BY <1>0, Zenon DEF replicate_send, PoolTypes, Points, Opening, Busy, Free
  <1>2. p \in todo[w] /\ p \in listening /\ p \in Servers
    BY <1>0, <1>1, MinOfServers, Zenon
  <1>3. PICK n \in socket[w] :
           /\ phase' = [phase EXCEPT ![Replicate(n.of, Nth(n), p)] = "backlog"]
           /\ inbox' = inbox \cup {Replicate(n.of, Nth(n), p)}
    BY Zenon DEF replicate_send
  <1>. HIDE DEF p
  <1>. DEFINE r == Replicate(n.of, Nth(n), p)
  <1>4. /\ rest \subseteq Servers /\ rest # {} /\ Min(rest) = p
    <2>1. Servers \subseteq Nat
      BY TCPServerAssumption, Zenon
    <2>2. rest \subseteq Servers /\ p \in rest /\ \A y \in rest : p <= y
      BY <1>0, <1>2, <2>1
    <2>3. Min(rest) \in rest /\ \A y \in rest : Min(rest) <= y
      BY <2>2, MinOfServers, Zenon
    <2>. HIDE DEF rest
    <2>4. p \in Nat /\ Min(rest) \in Nat /\ p <= Min(rest) /\ Min(rest) <= p
      BY <2>1, <2>2, <2>3, Zenon
    <2>5. Min(rest) = p
      BY <2>4
    <2>. QED  BY <2>2, <2>5, Zenon
  <1>. HIDE DEF rest
  <1>5. /\ ~OneShot(n) /\ n.of \in Clients /\ Nth(n) \in 1..MaxRequests /\ n \in Connections
        /\ socket[w] = {n} /\ w[1] = Leader /\ phase[n] = "served" /\ n \notin inbox
        /\ n.kind = "client" \/ n.kind = "forward"
    BY <1>0, <1>1, ServedRequest, ZenonT(40) DEF WorkerInv
  <1>6. /\ r \in Connections /\ r.kind = "replicate" /\ r.of = n.of /\ r.nth = Nth(n)
        /\ r.to = p /\ r # n /\ phase[r] = "unused"
    <2>1. /\ r \in Connections /\ r.kind = "replicate" /\ r.of = n.of /\ r.nth = Nth(n)
          /\ r.to = p
      <3>. DEFINE c == n.of
                  k == Nth(n)
                  o == Replicate(c, k, p)
      <3>1. c \in Clients /\ k \in 1..MaxRequests
        BY <1>5, Zenon
      <3>. HIDE DEF c, k
      <3>2. o \in Connections /\ o.kind = "replicate" /\ o.of = c /\ o.nth = k /\ o.to = p
        BY <1>2, <3>1, RequestConnections, SMTT(40)
      <3>. QED  BY <3>2, Zenon DEF c, k
    <2>2. phase[r] = "unused"
      BY <1>0, <1>1, <1>2, Zenon DEF WorkerInv
    <2>. HIDE DEF r
    <2>3. r # n
      BY <1>5, <2>1
    <2>. QED  BY <2>1, <2>2, <2>3, Zenon
  <1>. HIDE DEF r
  <1>7. /\ phase' \in [Connections -> Phases]
        /\ \A m \in Connections : phase'[m] = IF m \in {r} THEN "backlog" ELSE phase[m]
        /\ inbox' = inbox \cup {r}
    BY <1>0, <1>3, <1>6, Zenon DEF PoolTypes, Phases, r
  <1>8. /\ todo' \in [Workers -> SUBSET Servers] /\ todo'[w] = rest
        /\ \A v \in Workers : v # w => todo'[v] = todo[v]
    BY <1>0, <1>1, <1>4, Zenon DEF PoolTypes
  <1>9. WorkerInv(w)'
    <2>1. Nth(n)' = Nth(n)
      BY <1>1, Zenon DEF Nth
    <2>2. ASSUME NEW q \in rest \ {p}
          PROVE  phase'[Replicate(n.of, Nth(n), q)] = "unused"
      <3>1. q \in todo[w] /\ phase[Replicate(n.of, Nth(n), q)] = "unused"
        BY <1>0, <1>1, Zenon DEF WorkerInv, rest
      <3>2. Replicate(n.of, Nth(n), q) \in Connections \ {r}
        BY <1>0, <1>5, <1>6, <2>2, <3>1, RequestConnections
      <3>. QED  BY <1>7, <3>1, <3>2, Zenon
    <2>3. ASSUME NEW q \in Servers
          PROVE  phase'[Commit(n.of, Nth(n), q)] = "unused"
      <3>1. phase[Commit(n.of, Nth(n), q)] = "unused"
        BY <1>0, <1>1, Zenon DEF WorkerInv
      <3>2. Commit(n.of, Nth(n), q) \in Connections \ {r}
        BY <1>5, <1>6, RequestConnections
      <3>. QED  BY <1>7, <3>1, <3>2, Zenon
    <2>4. n.kind = "client" => responses[n.of] < requests[n.of]
      BY <1>0, <1>1, Zenon DEF WorkerInv
    <2>5. n.to = w[1] /\ \A v \in Workers : n \in socket[v] => v = w
      BY <1>0, Zenon DEF WorkerInv
    <2>. QED  BY <1>1, <1>4, <1>5, <1>6, <1>7, <1>8, <2>1, <2>2, <2>3, <2>4, <2>5
              DEF WorkerInv, Free
  <1>10. ClientInv(n.of)'
    BY <1>1, <1>6, <1>7, LeaderOpensKeepsClient, Zenon
  <1>11. shut' \subseteq Connections
    BY <1>0, <1>1, Zenon DEF PoolTypes
  <1>. QED  BY <1>1, <1>2, <1>5, <1>6, <1>7, <1>8, <1>9, <1>10, <1>11, RequestOpens, ZenonT(40)

\* The peer has answered or is gone.
LEMMA ReplicateDoneKeeps ==
    ASSUME PoolInv, NEW w \in Workers, replicate_done(w)
    PROVE  PoolInv'
  <1>. DEFINE p == Min(todo[w])
  <1>0. PoolTypes /\ WorkerInv(w) /\ todo[w] \subseteq Servers
    BY Zenon DEF PoolInv, PoolTypes
  <1>1. PICK n \in socket[w] : shut' = shut \cup {Replicate(n.of, Nth(n), p)}
    BY Zenon DEF replicate_done
  <1>2. /\ at[w] = "waiting" /\ at' = [at EXCEPT ![w] = "replicating"]
        /\ UNCHANGED <<poolVars, socket, mutex, phase, inbox, answered, requests, responses>>
        /\ at'[w] = "replicating" /\ "replicating" \in Points /\ at[w] \in Busy
        /\ todo' \in [Workers -> SUBSET Servers] /\ todo'[w] = todo[w] \ {p}
        /\ \A v \in Workers : v # w => todo'[v] = todo[v]
        /\ mutex' \in [Servers -> SUBSET Workers]
    BY <1>0, Zenon DEF replicate_done, PoolTypes, Points, Busy, Free
  <1>3. p \in Servers
    BY <1>0, <1>1, <1>2, MinOfServers, Zenon DEF WorkerInv
  <1>4. shut' \subseteq Connections
    <2>1. ~OneShot(n) /\ shut \subseteq Connections
      BY <1>0, <1>2, Zenon DEF WorkerInv, PoolTypes
    <2>. QED  BY <1>1, <1>2, <1>3, <2>1, ServedRequest, RequestConnections
  <1>5. \A m \in socket[w] : Nth(m)' = Nth(m)
    BY <1>2, Zenon DEF Nth
  <1>6. WorkerInv(w)'
    <2>1. ASSUME NEW m \in socket[w]
          PROVE  /\ w[1] = Leader /\ ~OneShot(m)
                 /\ \A q \in Servers : phase[Commit(m.of, Nth(m), q)] = "unused"
                 /\ at'[w] = "replicating" =>
                       \A q \in todo'[w] : phase[Replicate(m.of, Nth(m), q)] = "unused"
      BY <1>0, <1>2, <2>1, ZenonT(40) DEF WorkerInv
    <2>2. at[w] \in Busy /\ at'[w] \in {"replicating", "committing"}
      BY <1>2, Zenon DEF Free, Busy, Points
    <2>3. UNCHANGED <<socket, phase, inbox, requests, responses>>
      BY <1>2, Zenon DEF connVars
    <2>. QED  BY <1>0, <2>1, <2>2, <2>3, ReplicatingWorker, Zenon
  <1>. QED  BY <1>0, <1>2, <1>4, <1>6, MoveKeeps, Zenon

\* The leader sends COMMIT to its peers.
LEMMA CommitKeeps ==
    ASSUME PoolInv, NEW w \in Workers, broadcast_commit(w)
    PROVE  PoolInv'
  <1>0. PoolTypes /\ WorkerInv(w)
    BY Zenon DEF PoolInv
  <1>1. /\ at[w] = "committing" /\ at' = [at EXCEPT ![w] = "responding"]
        /\ UNCHANGED <<poolVars, socket, todo, mutex, answered, requests, responses>>
        /\ at'[w] = "responding" /\ "responding" \in Points
        /\ at[w] \in Opening /\ at[w] \in Busy /\ at[w] \notin Free
    BY <1>0, Zenon DEF broadcast_commit, PoolTypes, Points, Opening, Busy, Free
  <1>2. CASE UNCHANGED <<phase, inbox, shut>>
    <2>1. WorkerInv(w)'
      BY <1>0, <1>1, <1>2, Zenon DEF WorkerInv, Free
    <2>. QED  BY <1>0, <1>1, <1>2, <2>1, MoveKeeps, Zenon DEF PoolTypes
  <1>3. CASE \E n \in socket[w] :
                OneShots({Commit(n.of, Nth(n), p) : p \in Servers \ {w[1]}})
    <2>1. PICK n \in socket[w] : OneShots({Commit(n.of, Nth(n), p) : p \in Servers \ {w[1]}})
      BY <1>3, Zenon
    <2>. DEFINE O == {m \in {Commit(n.of, Nth(n), p) : p \in Servers \ {w[1]}} :
                         m.to \in listening}
    <2>2. /\ ~OneShot(n) /\ n.of \in Clients /\ Nth(n) \in 1..MaxRequests /\ n \in Connections
          /\ phase[n] = "served" /\ n \notin inbox
          /\ n.kind = "client" \/ n.kind = "forward"
      BY <1>0, <1>1, ServedRequest, ZenonT(40) DEF WorkerInv
    <2>3. ASSUME NEW m \in O
          PROVE  /\ m \in Connections /\ m.kind = "commit" /\ m.of = n.of /\ m.nth = Nth(n)
                 /\ m.to \in listening /\ phase[m] = "unused" /\ m # n
      <3>1. PICK p \in Servers : m = Commit(n.of, Nth(n), p)
        BY <2>3, Zenon
      <3>. QED  BY <1>0, <1>1, <2>2, <2>3, <3>1, RequestConnections DEF WorkerInv
    <2>4. /\ phase' = [m \in Connections |-> IF m \in O THEN "backlog" ELSE phase[m]]
          /\ inbox' = inbox \cup O /\ shut' = shut \cup O
      BY <2>1, Zenon DEF OneShots
    <2>. HIDE DEF O
    <2>5. /\ phase' \in [Connections -> Phases]
          /\ \A m \in Connections : phase'[m] = IF m \in O THEN "backlog" ELSE phase[m]
          /\ inbox' = inbox \cup O /\ shut' \subseteq Connections /\ O \subseteq Connections
      BY <1>0, <2>3, <2>4, Zenon DEF PoolTypes, Phases
    <2>6. WorkerInv(w)'
      BY <1>0, <1>1, <2>2, <2>3, <2>5 DEF WorkerInv, Free
    <2>7. ClientInv(n.of)'
      BY <1>1, <2>3, <2>5, LeaderOpensKeepsClient, Zenon
    <2>8. todo' \in [Workers -> SUBSET Servers]
      BY <1>0, <1>1, Zenon DEF PoolTypes
    <2>9. \A m \in O : /\ m.kind \in {"forward", "replicate", "commit"}
                       /\ m.of = n.of /\ m.nth = Nth(n)
                       /\ phase[m] = "unused" /\ m.to \in listening
      BY <2>3, Zenon
    <2>10. O \in SUBSET Connections /\ \A v \in Workers : v # w => todo'[v] = todo[v]
      BY <1>1, <2>5, Zenon
    <2>11. UNCHANGED <<poolVars, socket, mutex, answered, requests, responses>>
      BY <1>1, Zenon
    <2>12. at' = [at EXCEPT ![w] = "responding"] /\ "responding" \in Points /\ at[w] \in Opening
      BY <1>1, Zenon
    <2>. QED  BY <2>2, <2>5, <2>6, <2>7, <2>8, <2>9, <2>10, <2>11, <2>12, RequestOpens, Zenon
  <1>. QED  BY <1>2, <1>3, Zenon DEF broadcast_commit
-----------------------------------------------------------------------------
(* TCPServer::stop.                                                        *)

\* stop() clears running.
LEMMA StopKeeps ==
    ASSUME PoolInv, NEW s \in Servers, stop(s)
    PROVE  PoolInv'
  <1>0. PoolTypes
    BY Zenon DEF PoolInv
  <1>1. /\ at' \in [Workers -> Points]
        /\ \A w \in Workers : at'[w] = at[w] \/ (at[w] = "blocked" /\ at'[w] = "awake")
        /\ UNCHANGED <<listening, accepting, stopped, accepted, pending_clients_, socket,
                       todo, mutex, connVars>>
    BY <1>0, Zenon DEF stop, PoolTypes, Points
  <1>2. PoolTypes'
    BY <1>0, <1>1, ServerWorkers, Zenon DEF stop, PoolTypes, connVars
  <1>3. (\A t \in Servers : QueueInv(t)') /\ (\A n \in Connections : OwnerInv(n)')
    BY <1>1, OwnersKept, Zenon DEF connVars
  <1>4. ASSUME NEW c \in Clients PROVE ClientInv(c)'
    BY <1>0, <1>1, ClientKept, Zenon DEF PoolInv, ClientInv, connVars
  <1>5. ASSUME NEW w \in Workers PROVE WorkerInv(w)'
    <2>1. ASSUME NEW m \in socket[w] PROVE phase[m] = "served"
      BY ServedRequest, Zenon DEF WorkerInv
    <2>2. CASE at'[w] = at[w]
      BY <1>1, <2>1, <2>2, WorkerKept, Zenon DEF connVars
    <2>3. CASE at[w] = "blocked" /\ at'[w] = "awake"
      <3>1. socket[w] = {}
        BY <2>3, Zenon DEF PoolInv, WorkerInv, Free
      <3>. QED  BY <1>1, <2>3, <3>1, Zenon DEF WorkerInv, Free
    <2>. QED  BY <1>1, <2>2, <2>3, Zenon
  <1>. QED  BY <1>2, <1>3, <1>4, <1>5, Zenon DEF PoolInv

\* Connections that nobody serves are closed.
LEMMA ResetKeeps ==
    ASSUME PoolInv, NEW O \in SUBSET Connections,
           \A n \in O : phase[n] \notin {"unused", "served"},
           phase' = [n \in Connections |-> IF n \in O THEN "closed" ELSE phase[n]],
           UNCHANGED <<workVars, inbox, requests, responses>>
    PROVE  (\A c \in Clients : ClientInv(c)') /\ (\A w \in Workers : WorkerInv(w)')
  <1>0. PoolTypes
    BY Zenon DEF PoolInv
  <1>1. ASSUME NEW c \in Clients PROVE ClientInv(c)'
    BY <1>0, ClientKept, Zenon DEF PoolInv, ClientInv
  <1>2. ASSUME NEW w \in Workers PROVE WorkerInv(w)'
    <2>1. ASSUME NEW n \in socket[w] PROVE n \in Connections /\ phase[n] = "served" /\ n \notin O
      BY ServedRequest, Zenon DEF WorkerInv
    <2>. QED  BY <2>1, WorkerKept, Zenon DEF workVars
  <1>. QED  BY <1>1, <1>2, Zenon

\* stop() closes the listening socket.
LEMMA StopCloseKeeps ==
    ASSUME PoolInv, NEW s \in Servers, stop_close(s)
    PROVE  PoolInv'
  <1>0. PoolTypes
    BY Zenon DEF PoolInv
  <1>. DEFINE O == {n \in Connections : n.to = s /\ phase[n] = "backlog"}
  <1>1. /\ phase' = [n \in Connections |-> IF n \in O THEN "closed" ELSE phase[n]]
        /\ listening' = listening \ {s}
        /\ UNCHANGED <<running, accepting, stopped, missed, accepted, pending_clients_,
                       workVars, inbox, answered, shut, requests, responses>>
    BY Zenon DEF stop_close
  <1>2. PoolTypes'
    BY <1>0, <1>1, Zenon DEF PoolTypes, workVars, Phases
  <1>3. ASSUME NEW t \in Servers PROVE QueueInv(t)'
    <2>1. /\ QueueInv(t) /\ accepted[t] \subseteq Connections
          /\ \A i \in DOMAIN pending_clients_[t] : pending_clients_[t][i] \in Connections
      BY <1>0, SequenceElements, ZenonT(40) DEF PoolTypes, PoolInv
    <2>. QED  BY <1>1, <2>1, Zenon DEF QueueInv, workVars
  <1>4. ASSUME NEW n \in Connections PROVE OwnerInv(n)'
    <2>1. OwnerInv(n)
      BY Zenon DEF PoolInv
    <2>. QED  BY <1>1, <2>1, Zenon DEF OwnerInv, workVars
  <1>5. (\A c \in Clients : ClientInv(c)') /\ (\A w \in Workers : WorkerInv(w)')
    <2>1. O \in SUBSET Connections /\ \A n \in O : phase[n] \notin {"unused", "served"}
      BY Zenon
    <2>. HIDE DEF O
    <2>. QED  BY <1>1, <2>1, ResetKeeps, Zenon
  <1>. QED  BY <1>2, <1>3, <1>4, <1>5, Zenon DEF PoolInv

\* What the threads that have been joined left is closed.
LEMMA StopEndKeeps ==
    ASSUME PoolInv, NEW s \in Servers, stop_end(s)
    PROVE  PoolInv'
  <1>. DEFINE q == pending_clients_[s]
              O == {q[i] : i \in DOMAIN q}
  <1>0. PoolTypes /\ QueueInv(s)
    BY Zenon DEF PoolInv
  <1>1. /\ phase' = [n \in Connections |-> IF n \in O THEN "closed" ELSE phase[n]]
        /\ \A t \in Servers : pending_clients_'[t] = IF t = s THEN <<>> ELSE pending_clients_[t]
        /\ pending_clients_' \in [Servers -> Seq(Connections)]
        /\ stopped' = stopped \cup {s} /\ Joined(s)
        /\ UNCHANGED <<running, listening, accepting, missed, accepted, workVars, inbox,
                       answered, shut, requests, responses>>
    BY <1>0 DEF stop_end, Range, PoolTypes
  <1>2. O \subseteq Connections /\ \A n \in O : n.to = s /\ phase[n] = "pending"
    BY <1>0, SequenceElements DEF PoolTypes, QueueInv
  <1>3. PoolTypes'
    BY <1>0, <1>1, Zenon DEF PoolTypes, workVars, Phases
  <1>4. ASSUME NEW t \in Servers PROVE QueueInv(t)'
    <2>1. /\ QueueInv(t) /\ accepted[t] \subseteq Connections
          /\ \A i \in DOMAIN pending_clients_[t] : pending_clients_[t][i] \in Connections
      BY <1>0, SequenceElements, ZenonT(40) DEF PoolTypes, PoolInv
    <2>2. CASE t = s
      <3>1. accepted'[s] = {} /\ pending_clients_'[s] = <<>> /\ DOMAIN <<>> = {}
        <4>1. /\ s \notin accepting /\ accepted' = accepted
              /\ pending_clients_'[s] = <<>> /\ QueueInv(s)
          BY <1>0, <1>1, Zenon DEF Joined
        <4>2. accepted'[s] = {}
          BY <4>1, Zenon DEF QueueInv
        <4>3. DOMAIN <<>> = {}
          OBVIOUS
        <4>. QED  BY <4>1, <4>2, <4>3, Zenon
      <3>. QED  BY <1>1, <2>2, <3>1, Zenon DEF QueueInv, Joined, workVars
    <2>3. CASE t # s
      <3>1. /\ \A i \in DOMAIN pending_clients_[t] : pending_clients_[t][i] \notin O
            /\ \A n \in accepted[t] : n \notin O
        BY <1>2, <2>1, <2>3, Zenon DEF QueueInv
      <3>. QED  BY <1>1, <2>1, <2>3, <3>1, Zenon DEF QueueInv, workVars
    <2>. QED  BY <2>2, <2>3, Zenon
  <1>5. ASSUME NEW n \in Connections PROVE OwnerInv(n)'
    <2>1. OwnerInv(n) /\ n.to \in Servers
      BY ConnectionKinds, Zenon DEF PoolInv
    <2>2. phase'[n] = "pending" => phase[n] = "pending" /\ n.to # s
      BY <1>1, <2>1 DEF OwnerInv
    <2>. QED  BY <1>1, <2>1, <2>2, Zenon DEF OwnerInv, workVars
  <1>6. (\A c \in Clients : ClientInv(c)') /\ (\A w \in Workers : WorkerInv(w)')
    <2>. HIDE DEF O
    <2>1. \A n \in O : phase[n] \notin {"unused", "served"}
      BY <1>2, Zenon
    <2>. QED  BY <1>1, <1>2, <2>1, ResetKeeps, Zenon
  <1>. QED  BY <1>3, <1>4, <1>5, <1>6, Zenon DEF PoolInv
-----------------------------------------------------------------------------
(* The theorems.                                                           *)

\* The servers start without connections.
LEMMA PoolInit == Init => PoolInv
  <1>1. SUFFICES ASSUME Init PROVE PoolInv
    BY Zenon
  <1>2. PoolTypes
    BY <1>1, TCPServerAssumption DEF Init, PoolTypes, Points, Phases
  <1>3. ASSUME NEW s \in Servers PROVE QueueInv(s)
    <2>1. accepted[s] = {} /\ pending_clients_[s] = <<>> /\ DOMAIN <<>> = {} /\ stopped = {}
      BY <1>1 DEF Init
    <2>. QED  BY <2>1, Zenon DEF QueueInv
  <1>4. ASSUME NEW n \in Connections PROVE OwnerInv(n)
    BY <1>1, Zenon DEF Init, OwnerInv
  <1>5. ASSUME NEW c \in Clients PROVE ClientInv(c)
    BY <1>1, RequestConnections DEF Init, ClientInv, NotBegun
  <1>6. ASSUME NEW w \in Workers PROVE WorkerInv(w)
    BY <1>1, Zenon DEF Init, WorkerInv, Free
  <1>. QED  BY <1>2, <1>3, <1>4, <1>5, <1>6, Zenon DEF PoolInv

\* Every step keeps PoolInv.
LEMMA PoolStep == PoolInv /\ [Next]_vars => PoolInv'
  <1>1. SUFFICES ASSUME PoolInv, [Next]_vars PROVE PoolInv'
    BY Zenon
  <1>2. CASE UNCHANGED vars
    <2>1. PoolTypes'
      BY <1>1, <1>2 DEF vars, poolVars, workVars, connVars, PoolInv, PoolTypes
    <2>. QED  BY <1>1, <1>2, <2>1, IdleKeeps DEF vars, poolVars, connVars
  <1>3. ASSUME NEW w \in Workers, Worker(w) PROVE PoolInv'
    BY <1>1, <1>3, WaitKeeps, TakeKeeps, ReadKeeps, EofKeeps, ProcessKeeps, ForwardKeeps,
       ForwardDoneKeeps, ReplicateBeginKeeps, ReplicateSendKeeps, ReplicateDoneKeeps,
       ReplicateEndKeeps, CommitKeeps, Zenon DEF Worker
  <1>4. ASSUME NEW s \in Servers, AcceptThread(s) \/ stop(s) \/ StopThread(s) PROVE PoolInv'
    BY <1>1, <1>4, AcceptKeeps, PushKeeps, LeaveKeeps, StopKeeps, StopCloseKeeps, StopEndKeeps, Zenon
       DEF AcceptThread, StopThread
  <1>5. ASSUME NEW c \in Clients, connect(c) \/ send_request(c) \/ disconnect(c) PROVE PoolInv'
    BY <1>1, <1>5, ConnectKeeps, SendRequestKeeps, DisconnectKeeps, Zenon
  <1>6. ASSUME NEW h \in Heartbeats, heartbeat_loop(h) PROVE PoolInv'
    BY <1>1, <1>6, HeartbeatKeeps, Zenon
  <1>. QED  BY <1>1, <1>2, <1>3, <1>4, <1>5, <1>6, Zenon DEF Next

\* PoolInv holds in every reachable state: however accept threads, workers,
\* clients, heartbeats and stop() interleave, a socket has the owner its phase
\* says and no other, and a request opens each of its connections once.
THEOREM PoolInvariant == Spec => []PoolInv
  BY PoolInit, PoolStep, PTL DEF Spec

\* Every variable keeps its type, and a client never gets more responses than it
\* sent requests.
THEOREM TypeCorrect == Spec => []TypeOK
  <1>1. PoolInv => TypeOK
    <2>1. SUFFICES ASSUME PoolInv PROVE TypeOK
      BY Zenon
    <2>2. PoolTypes
      BY <2>1, Zenon DEF PoolInv
    <2>3. ASSUME NEW c \in Clients PROVE responses[c] \in 0..requests[c]
      BY <2>1, <2>2 DEF PoolInv, PoolTypes, ClientInv
    <2>. QED  BY <2>2, <2>3, Zenon DEF PoolTypes, TypeOK, Phases
  <1>. QED  BY <1>1, PoolInvariant, PTL

\* A socket is held by one owner from accept to close: the accept thread, one
\* place of the queue, or one worker of its server; and when stop() has returned
\* none of the server's sockets is open.
THEOREM EverySocketOwned == Spec => []SocketOwned
  <1>1. PoolInv => SocketOwned
    <2>1. SUFFICES ASSUME PoolInv, NEW n \in Connections
                   PROVE  /\ phase[n] = "accepted" <=> n \in accepted[n.to]
                          /\ Cardinality({i \in DOMAIN pending_clients_[n.to] :
                                             pending_clients_[n.to][i] = n})
                                = (IF phase[n] = "pending" THEN 1 ELSE 0)
                          /\ Cardinality({w \in Workers : n \in socket[w]})
                                = (IF phase[n] = "served" THEN 1 ELSE 0)
                          /\ {w \in Workers : n \in socket[w]} \subseteq WorkersOf(n.to)
                          /\ n.to \in stopped => phase[n] \in {"unused", "closed"}
      BY Zenon DEF SocketOwned
    <2>. DEFINE s == n.to
                queued == {i \in DOMAIN pending_clients_[s] : pending_clients_[s][i] = n}
                serving == {w \in Workers : n \in socket[w]}
    <2>2. PoolTypes /\ s \in Servers /\ QueueInv(s) /\ OwnerInv(n) /\ phase[n] \in Phases
      BY <2>1, ConnectionKinds, Zenon DEF PoolInv, PoolTypes
    <2>3. Cardinality({}) = 0 /\ \A e : Cardinality({e}) = 1
      BY FS_EmptySet, FS_Singleton, Zenon
    <2>4. Cardinality(queued) = IF phase[n] = "pending" THEN 1 ELSE 0
      <3>1. CASE phase[n] = "pending"
        <4>1. PICK i \in DOMAIN pending_clients_[s] : pending_clients_[s][i] = n
          BY <2>2, <3>1, Zenon DEF OwnerInv
        <4>2. queued = {i}
          BY <2>2, <4>1, ZenonT(40) DEF QueueInv
        <4>. QED  BY <2>3, <3>1, <4>2, Zenon
      <3>2. CASE phase[n] # "pending"
        <4>1. ASSUME NEW i \in DOMAIN pending_clients_[s] PROVE pending_clients_[s][i] # n
          BY <2>2, <3>2, <4>1, Zenon DEF QueueInv
        <4>2. queued = {}
          BY <4>1, Zenon
        <4>. QED  BY <2>3, <3>2, <4>2, Zenon
      <3>. QED  BY <3>1, <3>2, Zenon
    <2>5. ASSUME NEW w \in serving
          PROVE  /\ phase[n] = "served" /\ w \in WorkersOf(s) /\ at[w] # "returned"
                 /\ \A v \in serving : v = w
      BY <2>1, ServedRequest, WorkerServer DEF WorkerInv, Free
    <2>6. Cardinality(serving) = IF phase[n] = "served" THEN 1 ELSE 0
      <3>1. CASE phase[n] = "served"
        <4>1. PICK w \in serving : TRUE
          BY <2>2, <3>1, Zenon DEF OwnerInv
        <4>2. serving = {w}
          BY <2>5, <4>1, Zenon
        <4>. QED  BY <2>3, <3>1, <4>2, Zenon
      <3>2. CASE phase[n] # "served"
        <4>1. serving = {}
          BY <2>5, <3>2, Zenon
        <4>. QED  BY <2>3, <3>2, <4>1, Zenon
      <3>. QED  BY <3>1, <3>2, Zenon
    <2>7. s \in stopped => phase[n] \in {"unused", "closed"}
      <3>1. SUFFICES ASSUME s \in stopped PROVE phase[n] \in {"unused", "closed"}
        BY Zenon
      <3>2. phase[n] # "backlog" /\ phase[n] # "accepted" /\ phase[n] # "pending"
        <4>1. s \notin listening /\ s \notin accepting /\ pending_clients_[s] = <<>>
          BY <2>2, <3>1, Zenon DEF QueueInv
        <4>2. phase[n] # "backlog" /\ phase[n] # "accepted"
          BY <2>2, <4>1, Zenon DEF OwnerInv, QueueInv
        <4>3. DOMAIN <<>> = {}
          OBVIOUS
        <4>4. phase[n] # "pending"
          BY <2>2, <4>1, <4>3, Zenon DEF OwnerInv
        <4>. QED  BY <4>2, <4>4, Zenon
      <3>3. phase[n] # "served"
        BY <2>2, <2>5, <3>1, Zenon DEF OwnerInv, QueueInv
      <3>. QED  BY <2>2, <3>2, <3>3, Zenon DEF Phases
    <2>8. phase[n] = "accepted" <=> n \in accepted[s]
      BY <2>2, Zenon DEF OwnerInv, QueueInv
    <2>. QED  BY <2>4, <2>5, <2>6, <2>7, <2>8, Zenon
  <1>. QED  BY <1>1, PoolInvariant, PTL
=============================================================================
