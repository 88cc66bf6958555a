----------------------------- MODULE Lifecycle -----------------------------
(***************************************************************************)
(* The program from its arguments to its exit (main.rs): configuration,    *)
(* loggers, handshake, initial download, the threads of the nodes and the  *)
(* server, the wallet's broadcasts, and the shutdown.  run_node is the     *)
(* main thread here; with the graphical interface it is a thread of its    *)
(* own, and the program ends when that thread and the interface have       *)
(* ended.                                                                  *)
(***************************************************************************)
EXTENDS Handshake, PeersHandler, FiniteSets

CONSTANTS
    Files,          \* the configuration files, by name: [found, lines]
    Launches,       \* the command lines: [argc, i (the last one is -i), file]
    Resolutions,    \* the answers of the resolver
    Networks,       \* how the addresses may behave
    MaxBroadcasts   \* bound: transactions of the wallet

ASSUME LifecycleAssumption ==
    /\ MaxBroadcasts \in Nat
    /\ \A l \in Launches : l.file \in DOMAIN Files
    /\ \A n \in Networks : n \in [Ips -> {"up", "down", "silent"}]
    /\ \A f \in DOMAIN Files : Files[f].lines \in Seq(ToSet(Files[f].lines))
    /\ \A f \in DOMAIN Files : \A line \in ToSet(Files[f].lines) :
         Len(line.fields) = 2 /\ line.fields[1] = "CUSTOM_NODES_IPS" => line.fields[2].v \in Seq(STRING)
    /\ \A a \in Resolutions : /\ a.addrs \in Seq(ToSet(a.addrs))
                              /\ \A addr \in ToSet(a.addrs) : addr.v4 => addr.ip \in Ips

VARIABLES
    launch,
    pc,             \* where run_node is
    config, ips,    \* its local variables
    place,          \* of the thread, sender or logger its loop is at
    joining,        \* the handles finish has taken
    outbound,       \* how many senders the wallet's copy of the node has
    failed, told,   \* broadcast_to_nodes: failed senders; the last result
    broadcasts,
    window          \* "none", "initial", "main" or "closed"

startVars == <<launch, config, ips, window>>
loopVars == <<place, joining>>
walletVars == <<outbound, failed, told, broadcasts>>
vars == <<pc, startVars, loopVars, walletVars, handshakeVars, allPeersVars>>

Returned == pc \in {"ok", "err", "panicked"}
Exited == Returned /\ window \in {"none", "closed"}

Init ==
    /\ launch \in Launches
    /\ window = IF launch.argc = 3 /\ launch.i THEN "initial" ELSE "none"
    /\ pc = IF window = "none" THEN "config" ELSE "button"
    /\ config = Default /\ ips = <<>> /\ place = 1 /\ joining = <<>>
    /\ outbound = 0 /\ failed = 0 /\ told = "none" /\ broadcasts = 0
    /\ peers \in Networks /\ workers = <<>> /\ sockets = <<>>
    /\ PeersInit /\ LogInit

-----------------------------------------------------------------------------
\* Start-up

\* The start button and wait_for_start_button.
Start ==
    /\ pc = "button" /\ pc' = "config"
    /\ UNCHANGED <<startVars, loopVars, walletVars, handshakeVars, allPeersVars>>

\* main has dropped the argument -i.
ReadConfig ==
    /\ pc = "config"
    /\ LET read == from(IF window = "none" THEN launch.argc ELSE launch.argc - 1, Files[launch.file])
       IN  /\ pc' = IF read.ok THEN "loggers" ELSE "err"
           /\ config' = read.config
    /\ UNCHANGED <<launch, ips, window, loopVars, walletVars, handshakeVars, allPeersVars>>

SetUpLoggers ==
    /\ pc = "loggers"
    /\ \/ pc' = "seed" /\ set_up_loggers /\ UNCHANGED faults
       \/ pc' = "err" /\ Fault /\ UNCHANGED logVars
    /\ UNCHANGED <<startVars, loopVars, walletVars, handshakeVars, peersVars, serverVars>>

GetActiveNodes ==
    /\ pc = "seed"
    /\ \E answer \in Resolutions :
         LET nodes == get_active_nodes_from_dns_seed(config, answer)
         IN  /\ pc' = IF nodes.ok THEN "handshake" ELSE "err"
             /\ ips' = IF nodes.ok THEN nodes.ips ELSE <<>>
    /\ UNCHANGED <<launch, config, window, loopVars, walletVars, handshakeVars, allPeersVars>>

StartHandshake ==
    /\ pc = "handshake"
    /\ \/ ChunksPanic(ips) /\ pc' = "panicked" /\ UNCHANGED handshakeVars
       \/ ~ChunksPanic(ips) /\ pc' = "join_workers" /\ SpawnWorkers(ips, config["N_THREADS"])
    /\ UNCHANGED <<startVars, loopVars, walletVars, allPeersVars>>

\* The joins of handshake_with_nodes, in the order of the threads.
JoinWorker ==
    /\ pc = "join_workers"
    /\ \/ place > Len(workers) /\ pc' = "download" /\ place' = 1
       \/ /\ place <= Len(workers) /\ workers[place].st = "ok"
          /\ place' = place + 1 /\ UNCHANGED pc
       \/ place <= Len(workers) /\ workers[place].st = "err" /\ pc' = "err" /\ UNCHANGED place
    /\ UNCHANGED <<startVars, joining, walletVars, handshakeVars, allPeersVars>>

\* initial_block_download (InitialBlockDownload, SingleNodeDownload), which
\* may never return, by how it can end: an error, a panic, or Ok with some of
\* the connections, those that blocks were read from with a read timeout; and
\* Node::new, which pops all of them.
DownloadAndListen ==
    /\ pc = "download"
    /\ \/ pc' \in {"err", "panicked"} /\ UNCHANGED <<sockets, peersVars, outbound>>
       \/ \E left \in 1 .. Len(sockets) : \E timeouts \in [1 .. left -> BOOLEAN] :
            /\ pc' = "server" /\ SpawnThreads(timeouts)
            /\ sockets' = <<>> /\ outbound' = left
    /\ UNCHANGED <<peers, workers, faults, startVars, loopVars, failed, told, broadcasts, serverVars, logVars>>

StartServer ==
    /\ pc = "server" /\ pc' = "serving" /\ NodeServer_new
    /\ UNCHANGED <<startVars, loopVars, walletVars, handshakeVars, peersVars, faults, logVars>>

-----------------------------------------------------------------------------
\* The wallet and the interface

\* InitializeUITabs, sent after Node::new, opens the main window.
ShowMainWindow ==
    /\ window = "initial" /\ pc \in {"server", "serving"} /\ window' = "main"
    /\ UNCHANGED <<pc, launch, config, ips, loopVars, walletVars, handshakeVars, allPeersVars>>

\* close_main_window_on_exit; the wallet's thread finds the event Finish.
CloseMainWindow ==
    /\ window = "main" /\ window' = "closed"
    /\ UNCHANGED <<pc, launch, config, ips, loopVars, walletVars, handshakeVars, allPeersVars>>

\* Node::broadcast_tx for a transaction of the wallet.
BroadcastTx ==
    /\ pc = "serving" /\ broadcasts < MaxBroadcasts
    /\ pc' = "broadcast" /\ broadcasts' = broadcasts + 1 /\ failed' = 0 /\ place' = 1
    /\ UNCHANGED <<startVars, joining, outbound, told, handshakeVars, allPeersVars>>

\* broadcast_to_nodes, one sender of the wallet's copy of the node.
WriteToNode ==
    /\ pc = "broadcast" /\ place <= outbound
    /\ IF CanWrite(place) THEN write_to_node(place) /\ UNCHANGED failed
       ELSE failed' = failed + 1 /\ UNCHANGED peersVars
    /\ place' = place + 1
    /\ UNCHANGED <<pc, startVars, joining, outbound, told, broadcasts, handshakeVars, serverVars, faults, logVars>>

BroadcastEnds ==
    /\ pc = "broadcast" /\ place > outbound /\ pc' = "serving" /\ place' = 1
    /\ told' = IF failed = outbound THEN "err" ELSE "ok"
    /\ UNCHANGED <<startVars, joining, outbound, failed, broadcasts, handshakeVars, allPeersVars>>

\* handle_ui_events ends: Finish, or the option 0 of the terminal.
StopServing ==
    /\ pc = "serving" /\ window \in {"none", "closed"} /\ pc' = "finish"
    /\ UNCHANGED <<startVars, loopVars, walletVars, handshakeVars, allPeersVars>>

-----------------------------------------------------------------------------
\* shut_down

\* Mutant: the handles are taken before the flag is set.
TakeBeforeFlag ==
    /\ pc \in {"finish", "take"}
    /\ \/ /\ pc = "finish" /\ pc' = "take" /\ joining' = handles /\ place' = 1 /\ TakeHandles
       \/ pc = "take" /\ pc' = "join_threads" /\ SetFinish /\ UNCHANGED loopVars
    /\ UNCHANGED <<startVars, walletVars, handshakeVars, serverVars, faults, logVars>>

\* NodeMessageHandler::finish up to its joins.
Finish ==
    /\ \/ pc = "finish" /\ pc' = "take" /\ SetFinish /\ UNCHANGED loopVars
       \/ /\ pc = "take" /\ pc' = "join_threads" /\ joining' = handles /\ place' = 1 /\ TakeHandles
    /\ UNCHANGED <<startVars, walletVars, handshakeVars, serverVars, faults, logVars>>

\* The joins of finish; the first thread that panicked ends them.
JoinThread ==
    /\ pc = "join_threads"
    /\ \/ place > Len(joining) /\ pc' = "stop" /\ UNCHANGED place
       \/ /\ place <= Len(joining)
          /\ \/ threads[joining[place]].at = "ended" /\ place' = place + 1 /\ UNCHANGED pc
             \/ threads[joining[place]].at = "panicked" /\ pc' = "err" /\ UNCHANGED place
    /\ UNCHANGED <<startVars, joining, walletVars, handshakeVars, allPeersVars>>

\* Mutant: the thread is joined without the stop message.
JoinWithoutStop ==
    /\ pc = "stop" /\ pc' = IF ServerAlive THEN "join_server" ELSE "err"
    /\ UNCHANGED <<startVars, loopVars, walletVars, handshakeVars, allPeersVars>>

\* shutdown_server: the channel is closed if the thread has ended.
StopServer ==
    /\ pc = "stop"
    /\ \/ ServerAlive /\ server' = [server EXCEPT !.stop = TRUE] /\ pc' = "join_server"
       \/ ~ServerAlive /\ pc' = "err" /\ UNCHANGED server
    /\ UNCHANGED <<startVars, loopVars, walletVars, handshakeVars, peersVars, incoming, backlog, faults, logVars>>

JoinServer ==
    /\ pc = "join_server" /\ ~ServerAlive
    /\ pc' = (IF server.at = "ok" THEN "close" ELSE "err") /\ place' = 1
    /\ UNCHANGED <<startVars, joining, walletVars, handshakeVars, allPeersVars>>

LogAt == <<"info", "error", "message">>[place]

\* shutdown_loggers, one logger after the other.
CloseLogger ==
    /\ \/ pc = "close" /\ pc' = "join_logger" /\ SendClosingLine(LogAt) /\ UNCHANGED place
       \/ /\ pc = "join_logger" /\ loggers[LogAt] = "ended" /\ UNCHANGED logVars
          /\ IF place = 3 THEN pc' = "ok" /\ UNCHANGED place
             ELSE pc' = "close" /\ place' = place + 1
    /\ UNCHANGED <<startVars, joining, walletVars, handshakeVars, peersVars, serverVars, faults>>

\* The senders of a log: its own of run_node, one for each thread.
MainHolds(l) == ~Returned /\ l \notin closing
Senders(l) ==
    Cardinality({i \in DOMAIN threads : Alive(i)}) + Cardinality({i \in DOMAIN workers : workers[i].st = "running"})
    + (IF ServerAlive THEN 1 ELSE 0) + (IF MainHolds(l) THEN 1 ELSE 0)
-----------------------------------------------------------------------------
Main == \/ SetUpLoggers \/ GetActiveNodes \/ StartHandshake \/ JoinWorker \/ StartServer
        \/ WriteToNode \/ BroadcastEnds
        \/ Finish \/ JoinThread \/ StopServer \/ JoinServer \/ CloseLogger
User == Start \/ CloseMainWindow \/ BroadcastTx \/ StopServing

WorkerSteps == \E i \in DOMAIN workers : WorkerStep(i) /\ UNCHANGED <<pc, startVars, loopVars, walletVars, allPeersVars>>
Rest == UNCHANGED <<pc, startVars, loopVars, walletVars, handshakeVars>>
ThreadSteps(i) == i \in DOMAIN threads /\ ThreadStep(i) /\ Rest
PeerSteps == \E i \in DOMAIN threads : PeerStep(i) /\ Rest
ServerSteps == (Listen \/ StopListening \/ Accept(config["MAX_CONNECTIONS"])) /\ Rest
IncomingSteps == (PeerConnects \/ ListenFails \/ ServerFails \/ HandshakeEnds) /\ Rest
LoggerSteps == (\E l \in Logs : LoggerEnds(l, Senders(l))) /\ Rest /\ UNCHANGED <<peersVars, serverVars, faults>>

\* When the program exits all its threads stop.
Next == ~Exited /\ ( \/ ReadConfig \/ Main \/ DownloadAndListen \/ ShowMainWindow \/ User
                     \/ WorkerSteps \/ (\E i \in DOMAIN threads : ThreadSteps(i)) \/ ServerSteps \/ LoggerSteps
                     \/ PeerSteps \/ IncomingSteps )

ThreadAt(i) == IF i \in DOMAIN threads THEN threads[i].at ELSE "none"
ThreadCanStep(i) == \/ ThreadAt(i) \in {"top", "header", "payload"}
                    \/ ThreadAt(i) \in {"header_wait", "payload_wait"} /\ threads[i].timed

ServerCanStep == server.at = "bind" \/ (server.at = "listening" /\ (server.stop \/ backlog > 0))
LoggersCanStep == \E l \in Logs : loggers[l] = "open" /\ Senders(l) = 0
FinishWaits == pc = "serving" /\ window = "closed"

\* Every thread runs, and a read with a timeout ends; a user or a peer may
\* never act and the initial download may wait forever, but the wallet finds the event of the closed window.  Weak
\* fairness of ReadConfig, StopServing, ThreadSteps, ServerSteps and
\* LoggerSteps is written out: what they are at stays until they take a step.
Fairness ==
    /\ WF_vars(~Exited /\ Main) /\ WF_vars(~Exited /\ WorkerSteps)
    /\ []<>(pc # "config") /\ []<>~FinishWaits
    /\ \A i \in 1 .. Cardinality(Ips) + MaxIncoming :
         []<>(Exited \/ ~ThreadCanStep(i)) \/ []<><<TRUE>>_(ThreadAt(i))
    /\ []<>(Exited \/ ~ServerCanStep) \/ []<><<TRUE>>_(server.at)
    /\ []<>(Exited \/ ~LoggersCanStep) \/ []<><<TRUE>>_loggers

Spec == Init /\ [][Next]_vars /\ Fairness
-----------------------------------------------------------------------------
\* Properties

Count(seq, e) == Cardinality({i \in DOMAIN seq : seq[i] = e})

\* The lines that are no comments, by their place in the file.
Given == LET lines == Files[launch.file].lines
         IN  [i \in {k \in DOMAIN lines : ~lines[k].comment} |-> lines[i].fields]

\* What the steps of the start-up tell is so.  A configuration file in which no
\* setting is repeated is only accepted if it has all of them, each with the
\* value of its line (from_reader counts lines, so a repeated one can stand for
\* one that is missing).  When handshake_with_nodes returns Ok the list has a
\* connection to every node that answers, as often as it was listed, and is
\* not empty, for every order of the threads; except with N_THREADS=0, which
\* connects to nobody.  A thread reports that no connection could be made only
\* if all its own nodes have failed (connect_to_nodes tests the list of all
\* threads, so the nodes of the other threads may be fine).
StartupOutcome ==
    /\ (pc = "loggers" /\ \A i, j \in DOMAIN Given : Given[i][1] = Given[j][1] => i = j)
       => \A name \in Settings :
             \E i \in DOMAIN Given : Given[i][1] = name /\ config[name] = Given[i][2].v
    /\ (pc = "download" /\ config["N_THREADS"] > 0)
       => /\ sockets # <<>>
          /\ \A ip \in Ips : Count(sockets, ip) = IF peers[ip] = "up" THEN Count(ips, ip) ELSE 0
    /\ \A i \in DOMAIN workers : workers[i].st = "err" =>
          LET chunk == Chunks(ips, config["N_THREADS"])[i] IN \A k \in DOMAIN chunk : peers[chunk[k]] = "down"

Served == {i \in DOMAIN threads : threads[i].accepted}

\* The server serves at most MAX_CONNECTIONS connections, "Amount of connection
\* the server will accept" (nodo.conf).  It does not hold: listen compares with
\* > before it counts the new connection, and serves one more.
ServesAtMost == Cardinality(Served) <= config["MAX_CONNECTIONS"]

ThreadsJoined == {"stop", "join_server", "close", "join_logger", "ok"}

\* Once finish has returned Ok no thread reads from a node, writes to one or
\* handles a message any more, not even one that the server added after the
\* handles had been taken: it finds the flag set.  When run_node returns Ok
\* every thread of the program has ended: those that finish joined, those it
\* did not know of, the server and the loggers.  The closing line is the last
\* line of each log: whoever could write another has ended when
\* shutdown_loggers is called.
ShutdownQuiet ==
    /\ pc \in ThreadsJoined => \A i \in DOMAIN threads : Alive(i) => threads[i].at = "top"
    /\ pc = "ok" => /\ \A i \in DOMAIN threads : ~Alive(i)
                    /\ ~ServerAlive /\ \A i \in DOMAIN workers : workers[i].st # "running"
                    /\ \A l \in Logs : loggers[l] = "ended" /\ l \in closing
    /\ late = {}

\* Errors have a cause.  The shutdown fails only because a thread of a node
\* panicked, because the server failed, or because the server had ended at its
\* limit.  A broadcast fails only when the threads of all nodes connected at
\* start-up are gone, also if they go while it is being sent.
ErrorsCaused ==
    /\ (pc = "err" /\ finish) =>
          \/ \E i \in DOMAIN threads : threads[i].at = "panicked"
          \/ server.at \in {"err", "panicked"}
          \/ server.at = "ok" /\ server.amount > config["MAX_CONNECTIONS"]
    /\ told = "err" => \A i \in 1 .. outbound : ~Alive(i)

\* A peer the program waits for without a timeout.
WaitsForPeer ==
    \/ server.at = "handshake"
    \/ \E i \in DOMAIN threads : ~threads[i].timed /\ threads[i].at \in {"header_wait", "payload_wait"}

\* The start-up comes to an end unless a node stays silent in the handshake or
\* the initial download does not return: it reads headers without a timeout,
\* and waits on a channel that it holds a sender of.
StartupEnds ==
    (\A ip \in Ips : peers[ip] # "silent") /\ []<>(pc # "download")
    => (pc = "config" ~> (pc = "serving" \/ Returned))

\* The shutdown ends and the program exits, unless a peer keeps a thread in
\* a read without timeout: an accepted connection, one that gave no block,
\* or a handshake of the server.
ShutdownEnds == <>[]~WaitsForPeer => (pc = "finish" ~> Exited)
=============================================================================
