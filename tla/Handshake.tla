----------------------------- MODULE Handshake -----------------------------
(***************************************************************************)
(* The threads that connect to the nodes at start-up (handshake.rs).  The  *)
(* messages of one handshake are those of MessageStream; here a node       *)
(* answers all of them, fails, or accepts the connection and stays silent, *)
(* which blocks its thread: the socket has no read timeout yet.            *)
(***************************************************************************)
EXTENDS Config

VARIABLES
    peers,      \* how each address behaves: "up", "down" or "silent"
    workers,    \* the threads: [nodes (left), st]
    sockets     \* the shared list of connections

handshakeVars == <<peers, workers, sockets>>

\* chunks(0) panics: no nodes, with any number of threads.
ChunksPanic(ips) == ips = <<>>

\* ceil(len / n) nodes each; len / 0 is infinite and saturates.
Chunks(ips, n) ==
    LET size == IF n = 0 THEN Len(ips) ELSE (Len(ips) + n - 1) \div n
        End(i) == IF size * i > Len(ips) THEN Len(ips) ELSE size * i
    IN  [i \in 1 .. (Len(ips) + size - 1) \div size |-> SubSeq(ips, size * (i - 1) + 1, End(i))]

\* handshake_with_nodes up to the joins.
SpawnWorkers(ips, n) ==
    LET chunks == Chunks(ips, n)
        amount == IF Len(chunks) < n THEN Len(chunks) ELSE n
    IN  /\ workers' = [i \in 1 .. amount |-> [nodes |-> chunks[i], st |-> "running"]]
        /\ sockets' = <<>> /\ UNCHANGED peers

\* Mutant: the thread stops at the first node it cannot connect to.
StopsAtFailure(i) ==
    /\ workers[i].st = "running" /\ workers[i].nodes # <<>>
    /\ LET node == Head(workers[i].nodes) IN
       /\ peers[node] # "silent"
       /\ sockets' = IF peers[node] = "up" THEN Append(sockets, node) ELSE sockets
       /\ workers' = [workers EXCEPT ![i].nodes = IF peers[node] = "up" THEN Tail(@) ELSE <<>>]
    /\ UNCHANGED peers

\* connect_to_nodes, one node.
ConnectToNode(i) ==
    /\ workers[i].st = "running" /\ workers[i].nodes # <<>>
    /\ LET node == Head(workers[i].nodes) IN
       /\ peers[node] # "silent"
       /\ sockets' = IF peers[node] = "up" THEN Append(sockets, node) ELSE sockets
       /\ workers' = [workers EXCEPT ![i].nodes = Tail(@)]
    /\ UNCHANGED peers

\* Mutant: a thread without connections waits for those of the others.
WaitsForSockets(i) ==
    /\ workers[i].st = "running" /\ workers[i].nodes = <<>> /\ sockets # <<>>
    /\ workers' = [workers EXCEPT ![i].st = "ok"]
    /\ UNCHANGED <<peers, sockets>>

\* connect_to_nodes, after its loop: tests the list all threads push to.
TestSockets(i) ==
    /\ workers[i].st = "running" /\ workers[i].nodes = <<>>
    /\ workers' = [workers EXCEPT ![i].st = IF sockets = <<>> THEN "err" ELSE "ok"]
    /\ UNCHANGED <<peers, sockets>>

WorkerStep(i) == ConnectToNode(i) \/ TestSockets(i)
=============================================================================
