---------------------------- MODULE PeersHandler ----------------------------
(***************************************************************************)
(* The life of the threads that listen to the nodes                        *)
(* (handler/node_message_handler.rs) and of the server that adds one for   *)
(* every connection it accepts (server.rs).  What a message does to the    *)
(* chain and the accounts is in NodeHandlers; here it is handled well, the *)
(* handler returns an error or it panics.                                  *)
(***************************************************************************)
EXTENDS LogWriter, Config

CONSTANTS
    MaxIncoming,    \* bound: connections others open to the server
    MaxFaults       \* bound: peers that leave, failing handlers, I/O errors

ASSUME PeersAssumption == {MaxIncoming, MaxFaults} \subseteq Nat

VARIABLES
    finish,         \* the flag all threads read
    threads,        \* one for each connection: [accepted, timed, at, queue]
    handles,        \* nodes_handle: places in threads
    server,         \* [at, amount, stop]
    incoming,       \* connections opened to the server so far
    backlog,        \* those not accepted yet
    faults

peersVars == <<finish, threads, handles>>
serverVars == <<server, incoming, backlog>>
allPeersVars == <<peersVars, serverVars, faults, logVars>>

PeersInit ==
    /\ finish = FALSE /\ threads = <<>> /\ handles = <<>>
    /\ server = [at |-> "none", amount |-> 0, stop |-> FALSE]
    /\ incoming = 0 /\ backlog = 0 /\ faults = 0

Alive(i) == threads[i].at \notin {"ended", "panicked"}
ServerAlive == server.at \in {"bind", "listening", "handshake"}
Fault == faults < MaxFaults /\ faults' = faults + 1

\* timed: block messages were read from the socket, which set its timeout.
Thread(accepted, timed) == [accepted |-> accepted, timed |-> timed, at |-> "top", queue |-> 0]

\* NodeMessageHandler::new, for the connections the download left.
SpawnThreads(timeouts) ==
    /\ threads' = [i \in DOMAIN timeouts |-> Thread(FALSE, timeouts[i])]
    /\ handles' = [i \in DOMAIN timeouts |-> i]
    /\ UNCHANGED finish

-----------------------------------------------------------------------------
\* The loop of handle_messages_from_node.

Goto(i, at) == threads' = [threads EXCEPT ![i].at = at]
OnlyThreads == UNCHANGED <<finish, handles, serverVars>>
Quietly == UNCHANGED <<faults, logVars>>

LoopTop(i) ==
    /\ threads[i].at = "top"
    /\ \/ finish /\ Goto(i, "ended")
       \/ /\ ~finish
          /\ threads' = [threads EXCEPT ![i].at = "header",
                                        ![i].queue = IF @ > 0 THEN @ - 1 ELSE 0]
    /\ OnlyThreads /\ Quietly

WriteFails(i) ==
    /\ threads[i].at = "top" /\ ~finish /\ threads[i].queue > 0
    /\ Fault /\ Goto(i, "ended") /\ write_in_log({"error"}) /\ OnlyThreads

\* read_header once the flag is set: a header "none", which is ignored.
ReadNone(i) == Goto(i, "top") /\ write_in_log({"message"}) /\ UNCHANGED faults

ReadHeader(i) ==
    /\ threads[i].at = "header"
    /\ \/ finish /\ ReadNone(i)
       \/ ~finish /\ Goto(i, "header_wait") /\ Quietly
    /\ OnlyThreads

HeaderArrives(i) ==
    /\ threads[i].at = "header_wait"
    /\ \/ finish /\ ReadNone(i)
       \/ ~finish /\ Goto(i, "payload") /\ Quietly
    /\ OnlyThreads

\* The handler of a message and the lines it logs, if any.
Handle(i) ==
    \/ /\ Goto(i, "top") /\ UNCHANGED faults
       /\ \E logs \in {{}, {"message"}} : write_in_log(logs)
    \/ Fault /\ Goto(i, "ended") /\ write_in_log({"message", "error"})
    \/ Fault /\ Goto(i, "panicked") /\ write_in_log({})

\* Once the flag is set the payload is left as it is, zeros, and handled.
ReadPayload(i) ==
    /\ threads[i].at = "payload"
    /\ \/ finish /\ Handle(i)
       \/ ~finish /\ Goto(i, "payload_wait") /\ Quietly
    /\ OnlyThreads

PayloadArrives(i) == threads[i].at = "payload_wait" /\ Handle(i) /\ OnlyThreads

\* The read timeout, on the sockets that have one.
WouldBlock(i) ==
    /\ threads[i].timed
    /\ \/ threads[i].at = "header_wait" /\ Goto(i, "top")
       \/ threads[i].at = "payload_wait" /\ Goto(i, "payload")
    /\ OnlyThreads /\ Quietly

PeerLeaves(i) ==
    /\ threads[i].at \in {"header_wait", "payload_wait"}
    /\ Fault /\ Goto(i, "ended") /\ write_in_log({"error"}) /\ OnlyThreads

ThreadStep(i) == LoopTop(i) \/ ReadHeader(i) \/ ReadPayload(i) \/ WouldBlock(i)
PeerStep(i) == WriteFails(i) \/ HeaderArrives(i) \/ PayloadArrives(i) \/ PeerLeaves(i)
-----------------------------------------------------------------------------
\* The thread of the server, NodeServer::listen.

PeerConnects ==
    /\ ServerAlive /\ server.at # "bind" /\ incoming < MaxIncoming
    /\ incoming' = incoming + 1 /\ backlog' = backlog + 1
    /\ UNCHANGED <<server, peersVars, faults, logVars>>

Listen ==
    /\ server.at = "bind" /\ server' = [server EXCEPT !.at = "listening"]
    /\ write_in_log({"info"}) /\ UNCHANGED <<incoming, backlog, peersVars, faults>>

ListenFails ==
    /\ server.at = "bind" /\ Fault /\ server' = [server EXCEPT !.at = "err"]
    /\ UNCHANGED <<incoming, backlog, peersVars, logVars>>

\* Mutant: the test of the channel is inverted.
StopsWithoutMessage ==
    /\ server.at = "listening" /\ ~server.stop /\ server' = [server EXCEPT !.at = "ok"]
    /\ write_in_log({"info"}) /\ UNCHANGED <<incoming, backlog, peersVars, faults>>

\* An iteration that finds the stop message; a new connection is dropped.
StopListening ==
    /\ server.at = "listening" /\ server.stop /\ server' = [server EXCEPT !.at = "ok"]
    /\ write_in_log({"info"}) /\ UNCHANGED <<incoming, backlog, peersVars, faults>>

\* An iteration that accepts: beyond the limit the thread ends.
Accept(max) ==
    /\ server.at = "listening" /\ ~server.stop /\ backlog > 0 /\ backlog' = backlog - 1
    /\ \/ server.amount > max /\ server' = [server EXCEPT !.at = "ok"] /\ write_in_log({})
       \/ /\ server.amount <= max
          /\ server' = [server EXCEPT !.at = "handshake"] /\ write_in_log({"info"})
    /\ UNCHANGED <<incoming, peersVars, faults>>

\* An error of accept or of the handshake ends the thread.
ServerFails ==
    /\ server.at \in {"listening", "handshake"} /\ (server.at = "listening" => ~server.stop)
    /\ Fault /\ server' = [server EXCEPT !.at = "err"]
    /\ UNCHANGED <<incoming, backlog, peersVars, logVars>>

add_connection ==
    /\ threads' = Append(threads, Thread(TRUE, FALSE))
    /\ handles' = Append(handles, Len(threads) + 1)
    /\ UNCHANGED finish

\* The peer's last message of the handshake.  The counter overflows with a
\* panic or, in a release build, wraps.
HandshakeEnds ==
    /\ server.at = "handshake" /\ add_connection /\ write_in_log({"info"})
    /\ \/ /\ server.amount < MaxU8
          /\ server' = [server EXCEPT !.at = "listening", !.amount = @ + 1]
       \/ server.amount = MaxU8 /\ server' = [server EXCEPT !.at = "panicked"]
       \/ server.amount = MaxU8 /\ server' = [server EXCEPT !.at = "listening", !.amount = 0]
    /\ UNCHANGED <<incoming, backlog, faults>>
-----------------------------------------------------------------------------
\* Called by the main thread.

NodeServer_new ==
    /\ server' = [server EXCEPT !.at = "bind"] /\ UNCHANGED <<incoming, backlog>>

\* write_to_node: fails when the thread, and with it the receiver, is gone.
CanWrite(i) == Alive(i)
write_to_node(i) == threads' = [threads EXCEPT ![i].queue = @ + 1] /\ UNCHANGED <<finish, handles>>

SetFinish == finish' = TRUE /\ UNCHANGED <<threads, handles>>
TakeHandles == handles' = <<>> /\ UNCHANGED <<finish, threads>>
=============================================================================
