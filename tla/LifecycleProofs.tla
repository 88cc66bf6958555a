--------------------------- MODULE LifecycleProofs ---------------------------
(***************************************************************************)
(* Proofs about the life of the program, for every configuration file,     *)
(* every list of nodes, every number of connections, faults and            *)
(* broadcasts.                                                             *)
(***************************************************************************)
EXTENDS Lifecycle, ListLemmas, FiniteSetTheorems

--------------------------------------------------------------------------------
(***************************************************************************)
(* What the configuration file gives.                                      *)
(***************************************************************************)
\* The settings that the threads and the server depend on.
ConfigOK(c) ==
    /\ c["N_THREADS"] \in Nat
    /\ c["MAX_CONNECTIONS"] \in 0 .. MaxU8
    /\ c["CUSTOM_NODES_IPS"] \in Seq(STRING)

NothingRead == [ok |-> TRUE, loaded |-> 0, config |-> Default]

\* from_reader goes through the lines in order.
LEMMA ReadLinesDef ==
    ASSUME NEW lines, Len(lines) \in Nat
    PROVE  /\ ReadLines(lines)[0] = NothingRead
           /\ \A n \in 1 .. Len(lines) :
                ReadLines(lines)[n] = ReadLine(ReadLines(lines)[n - 1], lines[n])
<1> DEFINE N == Len(lines)
           Body(f, k) == [n \in 0 .. k |-> IF n = 0 THEN NothingRead ELSE ReadLine(f[n - 1], lines[n])]
           G == {k \in 0 .. N : \E f : f = Body(f, k)}
<1>1. 0 \in G
  <2> DEFINE g == [n \in 0 .. 0 |-> NothingRead]
  <2>1. g = Body(g, 0)
    OBVIOUS
  <2> HIDE DEF g, Body
  <2>2. \E f : f = Body(f, 0)
    BY <2>1
  <2> QED
    BY <2>2
<1>2. ASSUME NEW k \in 0 .. (N - 1), k \in G PROVE k + 1 \in G
  <2>1. PICK f : f = Body(f, k)
    BY <1>2
  <2> DEFINE g == [n \in 0 .. (k + 1) |-> IF n <= k THEN f[n] ELSE ReadLine(f[k], lines[k + 1])]
  <2>2. g = Body(g, k + 1)
    <3> SUFFICES ASSUME NEW n \in 0 .. (k + 1)
                 PROVE  g[n] = IF n = 0 THEN NothingRead ELSE ReadLine(g[n - 1], lines[n])
      OBVIOUS
    <3>1. CASE n = 0
      BY <2>1, <3>1
    <3>2. CASE n \in 1 .. k
      BY <2>1, <3>2
    <3>3. CASE n = k + 1
      BY <3>3
    <3> QED
      BY <3>1, <3>2, <3>3
  <2> HIDE DEF g, Body
  <2>3. \E f_1 : f_1 = Body(f_1, k + 1)
    BY <2>2
  <2>4. k + 1 \in 0 .. N
    OBVIOUS
  <2> QED
    BY <2>3, <2>4
<1>3. N \in G
  <2>1. N \in Nat
    OBVIOUS
  <2> HIDE DEF G, N
  <2>2. 0 .. N \subseteq G
    BY <1>1, <1>2, <2>1, UpTo
  <2> QED
    BY <2>1, <2>2
<1>4. ReadLines(lines) = CHOOSE f : f = Body(f, N)
  BY DEF ReadLines, NothingRead
<1>5. ReadLines(lines) = Body(ReadLines(lines), N)
  BY <1>3, <1>4
<1> QED
  BY <1>5

ReadOK(r) == /\ DOMAIN r = {"ok", "loaded", "config"}
             /\ DOMAIN r.config = Settings /\ ConfigOK(r.config)
             /\ r.config = [name \in Settings |-> r.config[name]]

\* A line keeps the settings well-typed: load_setting parses before it stores.
LEMMA LineKeepsTypes ==
    ASSUME NEW r, ReadOK(r), NEW line,
           Len(line.fields) = 2 /\ line.fields[1] = "CUSTOM_NODES_IPS"
             => line.fields[2].v \in Seq(STRING)
    PROVE  ReadOK(ReadLine(r, line))
<1>1. CASE ~r.ok \/ line.comment
  BY <1>1 DEF ReadLine
<1> DEFINE notOK == [r EXCEPT !.ok = FALSE]
<1>2. ReadOK(notOK)
  <2>1. notOK.config = r.config /\ DOMAIN notOK = DOMAIN r
    BY DEF ReadOK
  <2> HIDE DEF notOK
  <2> QED
    BY <2>1 DEF ReadOK
<1>3. CASE ~(~r.ok \/ line.comment) /\ Len(line.fields) # 2
  <2>1. ReadLine(r, line) = notOK
    BY <1>3 DEF ReadLine
  <2> HIDE DEF notOK
  <2> QED
    BY <1>2, <2>1
<1>4. CASE ~(~r.ok \/ line.comment) /\ Len(line.fields) = 2
  <2> DEFINE name == line.fields[1]
             value == line.fields[2]
  <2>1. ReadLine(r, line) = load_setting(r, name, value)
    BY <1>4 DEF ReadLine
  <2>2. name = "CUSTOM_NODES_IPS" => value.v \in Seq(STRING)
    BY <1>4
  <2> HIDE DEF name, value
  <2>3. CASE ~(name \in Settings /\ Parses(name, value))
    BY <1>2, <2>1, <2>3 DEF load_setting
  <2>4. CASE name \in Settings /\ Parses(name, value)
    <3> DEFINE c == IF name = "CUSTOM_NODES_IPS" /\ value.v = <<>>
                    THEN r.config ELSE [r.config EXCEPT ![name] = value.v]
    <3>1. /\ load_setting(r, name, value).config = c
          /\ DOMAIN load_setting(r, name, value) = {"ok", "loaded", "config"}
      BY <2>4 DEF load_setting, ReadOK
    <3>2. name = "MAX_CONNECTIONS" => value.v \in 0 .. MaxU8
      BY <2>4 DEF Parses, Texts, Bools, Signed, Unsigned
    <3>3. name = "N_THREADS" => value.v \in Nat
      BY <2>4 DEF Parses, Texts, Bools, Signed, Unsigned
    <3>4. DOMAIN c = Settings /\ c = [s \in Settings |-> c[s]]
      BY DEF ReadOK
    <3>5. \A s \in Settings : c[s] = r.config[s] \/ (s = name /\ c[s] = value.v)
      BY <2>4 DEF ReadOK
    <3>6. {"MAX_CONNECTIONS", "N_THREADS", "CUSTOM_NODES_IPS"} \subseteq Settings
      BY DEF Settings, Unsigned, Texts
    <3> HIDE DEF c
    <3>7. ConfigOK(c)
      BY <2>2, <3>2, <3>3, <3>5, <3>6 DEF ConfigOK, ReadOK
    <3> QED
      BY <2>1, <3>1, <3>4, <3>7 DEF ReadOK
  <2> QED
    BY <2>3, <2>4
<1> QED
  BY <1>1, <1>3, <1>4

\* The settings before the first line.
LEMMA DefaultOK == ConfigOK(Default) /\ ReadOK(NothingRead)
<1>1. {"MAX_CONNECTIONS", "N_THREADS", "CUSTOM_NODES_IPS"} \subseteq Settings
  BY DEF Settings, Unsigned, Texts
<1>2. /\ "N_THREADS" \notin Texts /\ "N_THREADS" \notin Bools
      /\ "MAX_CONNECTIONS" \notin Texts /\ "MAX_CONNECTIONS" \notin Bools
      /\ "CUSTOM_NODES_IPS" \in Texts
  BY DEF Texts, Bools
<1>3. /\ Default["N_THREADS"] = 0 /\ Default["MAX_CONNECTIONS"] = 0
      /\ Default["CUSTOM_NODES_IPS"] = <<>>
  BY <1>1, <1>2 DEF Default
<1>4. ConfigOK(Default)
  <2>1. <<>> \in Seq(STRING)
    OBVIOUS
  <2> QED
    BY <1>3, <2>1, ConfigAssumption DEF ConfigOK
<1>5. DOMAIN Default = Settings /\ Default = [name \in Settings |-> Default[name]]
  BY DEF Default
<1> QED
  BY <1>4, <1>5 DEF ReadOK, NothingRead

\* Whatever the files hold, Config::from leaves settings of their types.
LEMMA ConfigRead ==
    ASSUME NEW f \in DOMAIN Files, NEW argc
    PROVE  ConfigOK(from(argc, Files[f]).config)
<1> DEFINE lines == Files[f].lines
<1>1. lines \in Seq(ToSet(lines)) /\ \A line \in ToSet(lines) :
         Len(line.fields) = 2 /\ line.fields[1] = "CUSTOM_NODES_IPS"
           => line.fields[2].v \in Seq(STRING)
  BY LifecycleAssumption
<1> HIDE DEF lines
<1> DEFINE N == Len(lines)
           G == {n \in 0 .. N : ReadOK(ReadLines(lines)[n])}
<1>2. N \in Nat /\ \A n \in 1 .. N : lines[n] \in ToSet(lines)
  BY <1>1
<1>3. /\ ReadLines(lines)[0] = NothingRead
      /\ \A n \in 1 .. N : ReadLines(lines)[n] = ReadLine(ReadLines(lines)[n - 1], lines[n])
  BY <1>2, ReadLinesDef
<1>4. 0 \in G
  BY <1>2, <1>3, DefaultOK
<1>5. ASSUME NEW n \in 0 .. (N - 1), n \in G PROVE n + 1 \in G
  <2>1. n + 1 \in 1 .. N /\ n + 1 \in 0 .. N /\ (n + 1) - 1 = n
    BY <1>2
  <2>2. ReadLines(lines)[n + 1] = ReadLine(ReadLines(lines)[n], lines[n + 1])
    BY <1>3, <2>1
  <2>3. ReadOK(ReadLines(lines)[n + 1])
    BY <1>1, <1>2, <1>5, <2>1, <2>2, LineKeepsTypes
  <2> QED
    BY <2>1, <2>3
<1>6. ReadOK(ReadLines(lines)[N])
  <2> HIDE DEF G, N
  <2>1. 0 .. N \subseteq G
    BY <1>2, <1>4, <1>5, UpTo
  <2> QED
    BY <1>2, <2>1 DEF G
<1>7. ConfigOK(from_reader(lines).config)
  BY <1>6 DEF from_reader, ReadOK
<1> QED
  BY <1>7, DefaultOK DEF from, lines

\* The nodes to connect to are a list.
LEMMA ActiveNodes ==
    ASSUME NEW c, ConfigOK(c), NEW answer \in Resolutions
    PROVE  get_active_nodes_from_dns_seed(c, answer).ips \in Seq(Ips)
<1> DEFINE addrs == answer.addrs
           v4 == [i \in DOMAIN addrs |-> IF addrs[i].v4 THEN <<addrs[i].ip>> ELSE <<>>]
           list == c["CUSTOM_NODES_IPS"]
           own == [i \in DOMAIN list |-> IF list[i] \in Ips THEN <<list[i]>> ELSE <<>>]
<1>1. /\ addrs \in Seq(ToSet(addrs)) /\ \A a \in ToSet(addrs) : a.v4 => a.ip \in Ips
      /\ list \in Seq(STRING)
  BY LifecycleAssumption DEF ConfigOK
<1> HIDE DEF addrs, list
<1>2. v4 \in Seq(Seq(Ips))
  <2>1. DOMAIN addrs = 1 .. Len(addrs) /\ Len(addrs) \in Nat
    BY <1>1
  <2>2. ASSUME NEW i \in 1 .. Len(addrs) PROVE addrs[i].v4 => addrs[i].ip \in Ips
    <3>1. addrs[i] \in ToSet(addrs)
      BY <1>1
    <3> QED
      BY <1>1, <3>1
  <2>3. \A e \in Ips : <<e>> \in Seq(Ips)
    BY OneElement
  <2>4. <<>> \in Seq(Ips)
    OBVIOUS
  <2>5. ASSUME NEW i \in 1 .. Len(addrs)
        PROVE  (IF addrs[i].v4 THEN <<addrs[i].ip>> ELSE <<>>) \in Seq(Ips)
    BY <2>2, <2>3, <2>4
  <2> QED
    BY <2>1, <2>5
<1>3. own \in Seq(Seq(Ips))
  <2>1. DOMAIN list = 1 .. Len(list) /\ Len(list) \in Nat
    BY <1>1
  <2>3. \A e \in Ips : <<e>> \in Seq(Ips)
    BY OneElement
  <2>4. <<>> \in Seq(Ips)
    OBVIOUS
  <2>5. ASSUME NEW i \in 1 .. Len(list)
        PROVE  (IF list[i] \in Ips THEN <<list[i]>> ELSE <<>>) \in Seq(Ips)
    BY <2>3, <2>4
  <2> QED
    BY <2>1, <2>5
<1>4. FlattenSeq(v4) \in Seq(Ips) /\ FlattenSeq(own) \in Seq(Ips)
  <2> HIDE DEF v4, own
  <2> QED
    BY <1>2, <1>3, FlattenType
<1>5. get_nodes_from_dns_seed(answer) = [ok |-> answer.ok, ips |-> FlattenSeq(v4)]
  BY DEF get_nodes_from_dns_seed, addrs
<1>6. Addresses(c["CUSTOM_NODES_IPS"]) = FlattenSeq(own)
  BY DEF Addresses, list
<1> HIDE DEF v4, own
<1>7. /\ FlattenSeq(v4) \o FlattenSeq(own) \in Seq(Ips)
      /\ <<>> \o FlattenSeq(own) \in Seq(Ips)
  BY <1>4
<1> DEFINE seed == IF c["CONNECT_TO_DNS_NODES"] THEN get_nodes_from_dns_seed(answer)
                   ELSE [ok |-> TRUE, ips |-> <<>>]
<1>8. DOMAIN seed = {"ok", "ips"} /\ (seed.ips = FlattenSeq(v4) \/ seed.ips = <<>>)
  BY <1>5
<1>9. get_active_nodes_from_dns_seed(c, answer) = [seed EXCEPT !.ips = @ \o FlattenSeq(own)]
  BY <1>6 DEF get_active_nodes_from_dns_seed
<1> HIDE DEF seed
<1> QED
  BY <1>7, <1>8, <1>9

--------------------------------------------------------------------------------
(***************************************************************************)
(* The inductive invariant.                                                *)
(***************************************************************************)
BeforeThreads == {"button", "config", "loggers", "seed", "handshake", "join_workers", "download"}
Working == {"server", "serving", "broadcast", "finish"}
Closing == {"close", "join_logger", "ok"}

ThreadPlaces == {"top", "header", "header_wait", "payload", "payload_wait", "ended", "panicked"}
ThreadStates == [accepted : BOOLEAN, timed : BOOLEAN, queue : Nat, at : ThreadPlaces]
ServerPlaces == {"none", "bind", "listening", "handshake", "ok", "err", "panicked"}
WorkerStates == [nodes : Seq(Ips), st : {"running", "ok", "err"}]

TypeInv ==
    /\ pc \in BeforeThreads \cup Working \cup ThreadsJoined
              \cup {"take", "join_threads", "err", "panicked"}
    /\ launch \in Launches
    /\ ConfigOK(config)
    /\ ips \in Seq(Ips)
    /\ place \in Nat \ {0}
    /\ workers \in Seq(WorkerStates)
    /\ threads \in Seq(ThreadStates)
    /\ handles \in Seq(Nat)
    /\ joining \in Seq(Nat)
    /\ DOMAIN server = {"at", "amount", "stop"}
    /\ server.at \in ServerPlaces /\ server.amount \in Nat
    /\ loggers \in [Logs -> {"off", "open", "ended"}]
    /\ closing \in SUBSET Logs
    /\ outbound \in Nat
    /\ failed \in Nat

\* Where run_node is, and what exists by then.
PhaseInv ==
    /\ pc \in BeforeThreads => threads = <<>> /\ outbound = 0 /\ told = "none"
    /\ pc \in BeforeThreads \ {"join_workers"} => place = 1
    /\ pc \in BeforeThreads \cup {"server"} => server.at = "none"
    /\ pc \in (Working \ {"server"}) \cup ThreadsJoined \cup {"take", "join_threads"}
         => server.at # "none"
    /\ server.stop => pc \in {"join_server", "err"} \cup Closing
    /\ pc \in BeforeThreads \cup Working => ~finish
    /\ pc \in ThreadsJoined \cup {"take", "join_threads"} => finish
    /\ pc \in Closing => ~ServerAlive
    /\ closing # {} => pc \in Closing

\* Every thread is among the handles until finish takes them; a thread that is
\* added later begins when the flag is set.
JoinInv ==
    /\ pc \in BeforeThreads \cup Working \cup {"take"} =>
         Len(handles) = Len(threads) /\ \A i \in DOMAIN handles : handles[i] = i
    /\ pc = "join_threads" =>
         /\ Len(joining) <= Len(threads)
         /\ \A k \in DOMAIN joining : joining[k] = k /\ (k < place => threads[k].at = "ended")
         /\ \A i \in DOMAIN threads : i > Len(joining) /\ Alive(i) => threads[i].at = "top"
    /\ pc \in ThreadsJoined => \A i \in DOMAIN threads : Alive(i) => threads[i].at = "top"

\* The threads of the handshake are joined one after the other.
WorkersInv ==
    /\ pc = "join_workers" => \A i \in DOMAIN workers : i < place => workers[i].st = "ok"
    /\ pc \notin {"join_workers", "err", "panicked"} =>
         \A i \in DOMAIN workers : workers[i].st # "running"

AllEnded == /\ \A i \in DOMAIN threads : ~Alive(i)
            /\ ~ServerAlive
            /\ \A i \in DOMAIN workers : workers[i].st # "running"

LogNames == <<"info", "error", "message">>

\* A logger ends after every thread, and the loggers are closed in their order.
LogInv ==
    /\ \A l \in Logs : loggers[l] = "ended" => AllEnded /\ (Returned \/ closing # {})
    /\ pc \in {"close", "join_logger"} =>
         /\ place \in 1 .. 3
         /\ \A k \in 1 .. 3 : k < place => loggers[LogNames[k]] = "ended" /\ LogNames[k] \in closing
    /\ pc = "join_logger" => LogNames[place] \in closing
    /\ pc = "ok" => \A l \in Logs : loggers[l] = "ended" /\ l \in closing
    /\ late = {}

\* While every sender so far has failed, their threads are gone.
BroadcastInv ==
    /\ outbound <= Len(threads)
    /\ pc = "broadcast" =>
         /\ place <= outbound + 1
         /\ failed < place
         /\ failed = place - 1 => \A i \in 1 .. (place - 1) : ~Alive(i)
    /\ told = "err" => \A i \in 1 .. outbound : ~Alive(i)

\* Why the server has ended.
CauseInv ==
    /\ server.at = "ok" /\ ~server.stop => server.amount > config["MAX_CONNECTIONS"]
    /\ pc = "err" /\ finish =>
          \/ \E i \in DOMAIN threads : threads[i].at = "panicked"
          \/ server.at \in {"err", "panicked"}
          \/ server.at = "ok" /\ server.amount > config["MAX_CONNECTIONS"]

\* The counter of the server counts the connections it serves.
ServeInv ==
    /\ server.at = "none" => server.amount = 0 /\ Served = {}
    /\ config["MAX_CONNECTIONS"] < MaxU8 =>
         /\ Cardinality(Served) = server.amount
         /\ server.amount <= config["MAX_CONNECTIONS"] + 1
         /\ server.at = "handshake" => server.amount <= config["MAX_CONNECTIONS"]

LifeInv == TypeInv /\ PhaseInv /\ JoinInv /\ WorkersInv /\ LogInv /\ BroadcastInv /\ CauseInv /\ ServeInv

--------------------------------------------------------------------------------
(***************************************************************************)
(* The steps of the threads that listen to the nodes.                      *)
(***************************************************************************)
\* Thread i may have changed where it is and what waits in its channel.
Moved(i) ==
    /\ threads' \in Seq(ThreadStates) /\ Len(threads') = Len(threads)
    /\ DOMAIN threads' = DOMAIN threads
    /\ threads'[i].accepted = threads[i].accepted
    /\ \A j \in DOMAIN threads \ {i} : threads'[j] = threads[j]

LEMMA NewPlace ==
    ASSUME NEW t \in ThreadStates, NEW at \in ThreadPlaces
    PROVE  /\ [t EXCEPT !.at = at] \in ThreadStates
           /\ [t EXCEPT !.at = at].accepted = t.accepted
           /\ [t EXCEPT !.at = at].at = at
BY DEF ThreadStates

LEMMA NewQueue ==
    ASSUME NEW t \in ThreadStates, NEW q \in Nat
    PROVE  /\ [t EXCEPT !.queue = q] \in ThreadStates
           /\ [t EXCEPT !.queue = q].accepted = t.accepted
           /\ [t EXCEPT !.queue = q].at = t.at
BY DEF ThreadStates

LEMMA NewThread ==
    ASSUME threads \in Seq(ThreadStates), NEW i \in DOMAIN threads, NEW t \in ThreadStates,
           t.accepted = threads[i].accepted, threads' = [threads EXCEPT ![i] = t]
    PROVE  Moved(i) /\ threads'[i] = t
BY DEF Moved

LEMMA GotoMoves ==
    ASSUME threads \in Seq(ThreadStates), NEW i \in DOMAIN threads, NEW at \in ThreadPlaces, Goto(i, at)
    PROVE  Moved(i) /\ threads'[i].at = at
<1> DEFINE t == [threads[i] EXCEPT !.at = at]
<1>1. threads[i] \in ThreadStates
  OBVIOUS
<1>2. t \in ThreadStates /\ t.accepted = threads[i].accepted /\ t.at = at
  BY <1>1, NewPlace
<1>3. threads' = [threads EXCEPT ![i] = t]
  BY DEF Goto
<1> HIDE DEF t
<1> QED
  BY <1>2, <1>3, NewThread

\* What a step of a thread, or of the node it listens to, may do: the thread was
\* there, and once the flag is set it only ends at the top of its loop.
LEMMA ThreadMoves ==
    ASSUME threads \in Seq(ThreadStates), NEW i \in DOMAIN threads, ThreadStep(i) \/ PeerStep(i)
    PROVE  /\ Moved(i) /\ Alive(i)
           /\ finish /\ threads[i].at = "top" => threads'[i].at = "ended" /\ late' = late
           /\ late' \subseteq late \cup closing
           /\ UNCHANGED <<finish, handles, server, loggers, closing>>
<1> USE DEF OnlyThreads, Quietly, serverVars, logVars, write_in_log, ThreadPlaces
<1>1. CASE LoopTop(i)
  <2>1. CASE finish
    <3>1. Goto(i, "ended")
      BY <1>1, <2>1 DEF LoopTop
    <3>2. Moved(i) /\ threads'[i].at = "ended"
      BY <3>1, GotoMoves
    <3> QED
      BY <1>1, <2>1, <3>2 DEF LoopTop, Alive
  <2>2. CASE ~finish
    <3> DEFINE q == IF threads[i].queue > 0 THEN threads[i].queue - 1 ELSE 0
               u == [threads[i] EXCEPT !.at = "header"]
               t == [u EXCEPT !.queue = q]
    <3>1. threads[i] \in ThreadStates
      OBVIOUS
    <3>2. q \in Nat
      BY <3>1 DEF ThreadStates
    <3>3. u \in ThreadStates /\ u.accepted = threads[i].accepted
      BY <3>1, NewPlace
    <3>4. threads' = [threads EXCEPT ![i] = t]
      BY <1>1, <2>2, <3>1 DEF LoopTop, ThreadStates
    <3> HIDE DEF u, q
    <3>5. t \in ThreadStates /\ t.accepted = threads[i].accepted
      BY <3>2, <3>3, NewQueue
    <3> HIDE DEF t
    <3>6. Moved(i)
      BY <3>4, <3>5, NewThread
    <3> QED
      BY <1>1, <2>2, <3>6 DEF LoopTop, Alive
  <2> QED
    BY <2>1, <2>2
<1>2. CASE WriteFails(i)
  <2>1. Goto(i, "ended")
    BY <1>2 DEF WriteFails
  <2>2. Moved(i)
    BY <2>1, GotoMoves
  <2> QED
    BY <1>2, <2>2 DEF WriteFails, Alive
<1>3. CASE ReadHeader(i)
  <2>1. Goto(i, "top") \/ Goto(i, "header_wait")
    BY <1>3 DEF ReadHeader, ReadNone
  <2>2. Moved(i)
    BY <2>1, GotoMoves
  <2> QED
    BY <1>3, <2>2 DEF ReadHeader, ReadNone, Alive
<1>4. CASE HeaderArrives(i)
  <2>1. Goto(i, "top") \/ Goto(i, "payload")
    BY <1>4 DEF HeaderArrives, ReadNone
  <2>2. Moved(i)
    BY <2>1, GotoMoves
  <2> QED
    BY <1>4, <2>2 DEF HeaderArrives, ReadNone, Alive
<1>5. ASSUME Handle(i)
      PROVE  Moved(i) /\ late' \subseteq late \cup closing /\ UNCHANGED <<loggers, closing>>
  <2>1. Goto(i, "top") \/ Goto(i, "ended") \/ Goto(i, "panicked")
    BY <1>5 DEF Handle
  <2>2. Moved(i)
    BY <2>1, GotoMoves
  <2> QED
    BY <1>5, <2>2 DEF Handle
<1>6. CASE ReadPayload(i)
  <2>1. CASE finish
    BY <1>5, <1>6, <2>1 DEF ReadPayload, Alive
  <2>2. CASE ~finish
    <3>1. Goto(i, "payload_wait")
      BY <1>6, <2>2 DEF ReadPayload
    <3>2. Moved(i)
      BY <3>1, GotoMoves
    <3> QED
      BY <1>6, <2>2, <3>2 DEF ReadPayload, Alive
  <2> QED
    BY <2>1, <2>2
<1>7. CASE PayloadArrives(i)
  BY <1>5, <1>7 DEF PayloadArrives, Alive
<1>8. CASE WouldBlock(i)
  <2>1. Goto(i, "top") \/ Goto(i, "payload")
    BY <1>8 DEF WouldBlock
  <2>2. Moved(i)
    BY <2>1, GotoMoves
  <2> QED
    BY <1>8, <2>2 DEF WouldBlock, Alive
<1>9. CASE PeerLeaves(i)
  <2>1. Goto(i, "ended")
    BY <1>9 DEF PeerLeaves
  <2>2. Moved(i)
    BY <2>1, GotoMoves
  <2> QED
    BY <1>9, <2>2 DEF PeerLeaves, Alive
<1> QED
  BY <1>1, <1>2, <1>3, <1>4, <1>6, <1>7, <1>8, <1>9 DEF ThreadStep, PeerStep

\* Which connections were accepted does not change in a step of a thread.
LEMMA MovedServed ==
    ASSUME NEW i \in DOMAIN threads, Moved(i)
    PROVE  Served' = Served
BY DEF Moved, Served

LEMMA ThreadKeepsInv ==
    ASSUME LifeInv, NEW i \in DOMAIN threads, ThreadStep(i) \/ PeerStep(i), Rest
    PROVE  LifeInv'
<1> USE DEF LifeInv
<1>1. threads \in Seq(ThreadStates)
  BY DEF TypeInv
<1>2. /\ Moved(i) /\ Alive(i)
      /\ finish /\ threads[i].at = "top" => threads'[i].at = "ended" /\ late' = late
      /\ late' \subseteq late \cup closing
      /\ UNCHANGED <<finish, handles, server, loggers, closing>>
  BY <1>1, ThreadMoves
<1>3. UNCHANGED <<pc, launch, config, ips, window, place, joining, outbound, failed, told, broadcasts,
                  peers, workers, sockets>>
  BY DEF Rest, startVars, loopVars, walletVars, handshakeVars
<1>4. Served' = Served
  BY <1>2, MovedServed
<1>5. ASSUME NEW j \in DOMAIN threads, Alive(j)' PROVE Alive(j)
  BY <1>2, <1>5 DEF Moved, Alive
<1>6. i \in Nat /\ DOMAIN threads = 1 .. Len(threads) /\ Len(threads) \in Nat
  BY <1>1
<1>7. TypeInv'
  BY <1>2, <1>3 DEF TypeInv, Moved
<1>8. PhaseInv'
  <2>1. threads # <<>>
    BY <1>1
  <2>2. pc \notin BeforeThreads
    BY <2>1 DEF PhaseInv
  <2> QED
    BY <1>2, <1>3, <2>2 DEF PhaseInv, ServerAlive
<1>9. JoinInv'
  <2>1. ASSUME pc \in BeforeThreads \cup Working \cup {"take"}
        PROVE  Len(handles') = Len(threads') /\ \A k \in DOMAIN handles' : handles'[k] = k
    BY <1>2, <1>3, <2>1 DEF JoinInv, Moved
  <2>2. ASSUME pc = "join_threads"
        PROVE  /\ Len(joining') <= Len(threads')
               /\ \A k \in DOMAIN joining' : joining'[k] = k /\ (k < place' => threads'[k].at = "ended")
               /\ \A j \in DOMAIN threads' : j > Len(joining') /\ Alive(j)' => threads'[j].at = "top"
    <3>1. finish
      BY <2>2 DEF PhaseInv, ThreadsJoined
    <3>2. Len(joining') <= Len(threads')
      BY <1>2, <1>3, <2>2 DEF JoinInv, Moved
    <3>3. ASSUME NEW k \in DOMAIN joining'
          PROVE  joining'[k] = k /\ (k < place' => threads'[k].at = "ended")
      <4>1. joining[k] = k /\ (k < place => threads[k].at = "ended") /\ joining' = joining /\ place' = place
        BY <1>3, <2>2 DEF JoinInv
      <4>2. k \in DOMAIN threads
        <5>1. joining \in Seq(Nat) /\ Len(joining) <= Len(threads)
          BY <2>2 DEF JoinInv, TypeInv
        <5> QED
          BY <1>3, <1>6, <5>1
      <4>3. k < place => k # i
        BY <1>2, <4>1 DEF Alive
      <4> QED
        BY <1>2, <4>1, <4>2, <4>3 DEF Moved
    <3>4. ASSUME NEW j \in DOMAIN threads', j > Len(joining'), Alive(j)'
          PROVE  threads'[j].at = "top"
      <4>1. j \in DOMAIN threads /\ j > Len(joining)
        BY <1>2, <1>3, <3>4 DEF Moved
      <4>2. threads[j].at = "top"
        BY <1>5, <2>2, <3>4, <4>1 DEF JoinInv
      <4>3. j # i
        BY <1>2, <3>1, <3>4, <4>2 DEF Alive
      <4> QED
        BY <1>2, <4>1, <4>2, <4>3 DEF Moved
    <3> QED
      BY <3>2, <3>3, <3>4
  <2>3. ASSUME pc \in ThreadsJoined, NEW j \in DOMAIN threads', Alive(j)' PROVE threads'[j].at = "top"
    <3>1. finish
      BY <2>3 DEF PhaseInv
    <3>2. j \in DOMAIN threads
      BY <1>2 DEF Moved
    <3>3. threads[j].at = "top"
      BY <1>5, <2>3, <3>2 DEF JoinInv
    <3>4. j # i
      BY <1>2, <2>3, <3>1, <3>3 DEF Alive
    <3> QED
      BY <1>2, <3>2, <3>3, <3>4 DEF Moved
  <2> QED
    BY <1>3, <2>1, <2>2, <2>3 DEF JoinInv
<1>10. WorkersInv'
  BY <1>3 DEF WorkersInv
<1>11. LogInv'
  <2>1. \A l \in Logs : loggers[l] # "ended"
    BY <1>2 DEF LogInv, AllEnded
  <2>2. late' = late
    <3>1. CASE closing = {}
      BY <1>2, <3>1 DEF LogInv
    <3>2. CASE closing # {}
      <4>1. pc \in Closing
        BY <3>2 DEF PhaseInv
      <4>2. finish /\ threads[i].at = "top"
        BY <1>2, <4>1 DEF PhaseInv, JoinInv, ThreadsJoined, Closing
      <4> QED
        BY <1>2, <4>2
    <3> QED
      BY <3>1, <3>2
  <2> QED
    BY <1>2, <1>3, <2>1, <2>2 DEF LogInv, Logs
<1>12. BroadcastInv'
  <2>1. outbound <= Len(threads) /\ outbound \in Nat /\ place \in Nat \ {0}
    BY DEF BroadcastInv, TypeInv
  <2>2. Len(threads') = Len(threads)
    BY <1>2 DEF Moved
  <2>3. ASSUME NEW m \in Int, m <= outbound, \A j \in 1 .. m : ~Alive(j)
        PROVE  \A j \in 1 .. m : ~Alive(j)'
    BY <1>5, <1>6, <2>1, <2>3
  <2>4. pc = "broadcast" => place - 1 <= outbound
    BY <2>1 DEF BroadcastInv
  <2>5. ASSUME pc = "broadcast", failed = place - 1 PROVE \A j \in 1 .. (place - 1) : ~Alive(j)'
    BY <2>1, <2>3, <2>4, <2>5 DEF BroadcastInv
  <2>6. told = "err" => \A j \in 1 .. outbound : ~Alive(j)'
    BY <2>1, <2>3 DEF BroadcastInv
  <2> QED
    BY <1>3, <2>1, <2>2, <2>5, <2>6 DEF BroadcastInv
<1>13. CauseInv'
  <2>1. \A j \in DOMAIN threads : threads[j].at = "panicked" => j \in DOMAIN threads' /\ threads'[j].at = "panicked"
    BY <1>2 DEF Moved, Alive
  <2> QED
    BY <1>2, <1>3, <2>1 DEF CauseInv
<1>14. ServeInv'
  BY <1>2, <1>3, <1>4 DEF ServeInv
<1> QED
  BY <1>7, <1>8, <1>9, <1>10, <1>11, <1>12, <1>13, <1>14

--------------------------------------------------------------------------------
(***************************************************************************)
(* The steps of the server.                                                *)
(***************************************************************************)
\* The server goes on, or ends for a reason, without adding a connection.
LEMMA ServerKeepsInv ==
    ASSUME LifeInv, Rest, ServerAlive, UNCHANGED <<finish, threads, handles, loggers, closing>>,
           late' \subseteq late \cup closing,
           DOMAIN server' = {"at", "amount", "stop"}, server'.at \in ServerPlaces \ {"none"},
           server'.amount = server.amount, server'.stop = server.stop,
           server'.at = "ok" /\ ~server.stop => server.amount > config["MAX_CONNECTIONS"],
           server'.at = "handshake" =>
             server.at = "handshake" \/ server.amount <= config["MAX_CONNECTIONS"]
    PROVE  LifeInv'
<1> USE DEF LifeInv
<1>1. UNCHANGED <<pc, launch, config, ips, window, place, joining, outbound, failed, told, broadcasts,
                  peers, workers, sockets>>
  BY DEF Rest, startVars, loopVars, walletVars, handshakeVars
<1>2. closing = {} /\ late' = late /\ pc \notin Closing
  BY DEF PhaseInv, LogInv
<1>3. \A l \in Logs : loggers[l] # "ended"
  BY DEF LogInv, AllEnded
<1>4. Served' = Served
  BY DEF Served
<1>5. server.at # "none" /\ server.at \notin {"ok", "err", "panicked"}
  BY DEF ServerAlive
<1>6. TypeInv'
  BY <1>1 DEF TypeInv
<1>7. PhaseInv'
  BY <1>1, <1>2, <1>5 DEF PhaseInv
<1>8. JoinInv'
  BY <1>1 DEF JoinInv, Alive
<1>9. WorkersInv'
  BY <1>1 DEF WorkersInv
<1>10. LogInv'
  BY <1>1, <1>2, <1>3 DEF LogInv, Logs, Closing
<1>11. BroadcastInv'
  BY <1>1 DEF BroadcastInv, Alive
<1>12. CauseInv'
  BY <1>1, <1>5 DEF CauseInv
<1>13. ServeInv'
  BY <1>1, <1>4, <1>5 DEF ServeInv
<1> QED
  BY <1>6, <1>7, <1>8, <1>9, <1>10, <1>11, <1>12, <1>13

LEMMA ServerStepsKeepInv ==
    ASSUME LifeInv, Rest,
           Listen \/ StopListening \/ Accept(config["MAX_CONNECTIONS"]) \/ PeerConnects
             \/ ListenFails \/ ServerFails
    PROVE  LifeInv'
<1>1. DOMAIN server = {"at", "amount", "stop"} /\ server.at \in ServerPlaces
  BY DEF LifeInv, TypeInv
<1> USE DEF write_in_log, peersVars, logVars, ServerAlive, ServerPlaces
<1>2. CASE Listen
  <2>1. /\ server.at = "bind" /\ server' = [server EXCEPT !.at = "listening"]
        /\ late' \subseteq late \cup closing
        /\ UNCHANGED <<finish, threads, handles, loggers, closing>>
    BY <1>2 DEF Listen
  <2>2. /\ DOMAIN server' = {"at", "amount", "stop"} /\ server'.at = "listening"
        /\ server'.amount = server.amount /\ server'.stop = server.stop
    BY <1>1, <2>1
  <2> QED
    BY <2>1, <2>2, ServerKeepsInv
<1>3. CASE StopListening
  <2>1. /\ server.at = "listening" /\ server.stop /\ server' = [server EXCEPT !.at = "ok"]
        /\ late' \subseteq late \cup closing
        /\ UNCHANGED <<finish, threads, handles, loggers, closing>>
    BY <1>3 DEF StopListening
  <2>2. /\ DOMAIN server' = {"at", "amount", "stop"} /\ server'.at = "ok"
        /\ server'.amount = server.amount /\ server'.stop = server.stop
    BY <1>1, <2>1
  <2> QED
    BY <2>1, <2>2, ServerKeepsInv
<1>4. CASE Accept(config["MAX_CONNECTIONS"])
  <2>1. /\ server.at = "listening"
        /\ \/ server.amount > config["MAX_CONNECTIONS"] /\ server' = [server EXCEPT !.at = "ok"]
           \/ server.amount <= config["MAX_CONNECTIONS"] /\ server' = [server EXCEPT !.at = "handshake"]
        /\ late' \subseteq late \cup closing
        /\ UNCHANGED <<finish, threads, handles, loggers, closing>>
    BY <1>4 DEF Accept
  <2>2. /\ DOMAIN server' = {"at", "amount", "stop"}
        /\ \/ server'.at = "ok" /\ server.amount > config["MAX_CONNECTIONS"]
           \/ server'.at = "handshake" /\ server.amount <= config["MAX_CONNECTIONS"]
        /\ server'.amount = server.amount /\ server'.stop = server.stop
    BY <1>1, <2>1
  <2> QED
    BY <2>1, <2>2, ServerKeepsInv
<1>5. CASE PeerConnects
  <2>1. /\ ServerAlive /\ UNCHANGED <<server, finish, threads, handles, loggers, closing, late>>
    BY <1>5 DEF PeerConnects
  <2> QED
    BY <1>1, <2>1, ServerKeepsInv
<1>6. CASE ListenFails \/ ServerFails
  <2>1. /\ ServerAlive /\ server' = [server EXCEPT !.at = "err"]
        /\ UNCHANGED <<finish, threads, handles, loggers, closing, late>>
    BY <1>6 DEF ListenFails, ServerFails
  <2>2. /\ DOMAIN server' = {"at", "amount", "stop"} /\ server'.at = "err"
        /\ server'.amount = server.amount /\ server'.stop = server.stop
    BY <1>1, <2>1
  <2> QED
    BY <2>1, <2>2, ServerKeepsInv
<1> QED
  BY <1>2, <1>3, <1>4, <1>5, <1>6

\* The connections served are finitely many.
LEMMA ServedFinite ==
    ASSUME threads \in Seq(ThreadStates)
    PROVE  IsFiniteSet(Served) /\ Len(threads) + 1 \notin Served
<1>1. DOMAIN threads = 1 .. Len(threads) /\ Len(threads) \in Nat
  OBVIOUS
<1>2. IsFiniteSet(1 .. Len(threads))
  BY <1>1, FS_Interval
<1>3. Served \subseteq 1 .. Len(threads)
  BY <1>1 DEF Served
<1>4. IsFiniteSet(Served)
  BY <1>2, <1>3, FS_Subset
<1> QED
  BY <1>1, <1>3, <1>4

\* add_connection: one more thread, which will be joined or finds the flag set.
LEMMA HandshakeKeepsInv ==
    ASSUME LifeInv, Rest, HandshakeEnds
    PROVE  LifeInv'
<1> USE DEF LifeInv
<1> DEFINE t == Thread(TRUE, FALSE)
           n == Len(threads)
<1>1. UNCHANGED <<pc, launch, config, ips, window, place, joining, outbound, failed, told, broadcasts,
                  peers, workers, sockets>>
  BY DEF Rest, startVars, loopVars, walletVars, handshakeVars
<1>2. /\ server.at = "handshake" /\ UNCHANGED <<finish, loggers, closing>>
      /\ late' \subseteq late \cup closing
      /\ threads' = Append(threads, t) /\ handles' = Append(handles, n + 1)
  BY DEF HandshakeEnds, add_connection, write_in_log
<1>3. t \in ThreadStates /\ t.accepted = TRUE /\ t.at = "top"
  BY DEF Thread, ThreadStates, ThreadPlaces
<1>4. /\ threads \in Seq(ThreadStates) /\ handles \in Seq(Nat) /\ n \in Nat
      /\ DOMAIN server = {"at", "amount", "stop"} /\ server.amount \in Nat /\ ConfigOK(config)
  BY DEF TypeInv
<1> HIDE DEF t
<1>5. /\ threads' \in Seq(ThreadStates) /\ Len(threads') = n + 1
      /\ DOMAIN threads = 1 .. n /\ DOMAIN threads' = 1 .. (n + 1) /\ threads'[n + 1] = t
      /\ \A i \in 1 .. n : threads'[i] = threads[i]
  BY <1>2, <1>3, <1>4
<1>6. /\ handles' \in Seq(Nat) /\ Len(handles') = Len(handles) + 1
      /\ \A i \in 1 .. Len(handles) : handles'[i] = handles[i]
      /\ handles'[Len(handles) + 1] = n + 1 /\ DOMAIN handles' = 1 .. (Len(handles) + 1)
      /\ Len(handles) \in Nat /\ DOMAIN handles = 1 .. Len(handles)
  <2> HIDE DEF n
  <2>1. n + 1 \in Nat
    BY <1>4
  <2> QED
    BY <1>2, <1>4, <2>1
<1> HIDE DEF n
<1>7. closing = {} /\ late' = late /\ pc \notin Closing
      /\ pc \notin BeforeThreads \cup {"server"}
  BY <1>2 DEF PhaseInv, LogInv, ServerAlive
<1>8. \A l \in Logs : loggers[l] # "ended"
  BY <1>2 DEF LogInv, AllEnded, ServerAlive
<1>9. /\ DOMAIN server' = {"at", "amount", "stop"} /\ server'.stop = server.stop
      /\ server'.at \in {"listening", "panicked"} /\ server'.amount \in Nat
      /\ server.amount < MaxU8 => server'.amount = server.amount + 1
  <2>1. \/ server.amount < MaxU8 /\ server' = [server EXCEPT !.at = "listening", !.amount = @ + 1]
        \/ server.amount = MaxU8 /\ server' = [server EXCEPT !.at = "panicked"]
        \/ server.amount = MaxU8 /\ server' = [server EXCEPT !.at = "listening", !.amount = 0]
    BY DEF HandshakeEnds
  <2>2. CASE server.amount < MaxU8 /\ server' = [server EXCEPT !.at = "listening", !.amount = @ + 1]
    BY <1>4, <2>2
  <2>3. CASE server.amount = MaxU8 /\ server' = [server EXCEPT !.at = "panicked"]
    BY <1>4, <2>3
  <2>4. CASE server.amount = MaxU8 /\ server' = [server EXCEPT !.at = "listening", !.amount = 0]
    BY <1>4, <2>4
  <2> QED
    BY <2>1, <2>2, <2>3, <2>4
<1>10. TypeInv'
  BY <1>1, <1>2, <1>5, <1>6, <1>9 DEF TypeInv, ServerPlaces
<1>11. PhaseInv'
  BY <1>1, <1>2, <1>7, <1>9 DEF PhaseInv, ServerAlive
<1>12. JoinInv'
  <2>1. ASSUME pc \in BeforeThreads \cup Working \cup {"take"}
        PROVE  Len(handles') = Len(threads') /\ \A k \in DOMAIN handles' : handles'[k] = k
    <3>1. Len(handles) = n /\ \A k \in 1 .. Len(handles) : handles[k] = k
      BY <1>6, <2>1 DEF JoinInv, n
    <3>2. \A k \in 1 .. (Len(handles) + 1) : k \in 1 .. Len(handles) \/ k = Len(handles) + 1
      BY <1>6
    <3> QED
      BY <1>5, <1>6, <3>1, <3>2
  <2>2. ASSUME pc = "join_threads"
        PROVE  /\ Len(joining) <= n + 1
               /\ \A k \in DOMAIN joining : joining[k] = k /\ (k < place => threads'[k].at = "ended")
               /\ \A j \in 1 .. (n + 1) : j > Len(joining) /\ Alive(j)' => threads'[j].at = "top"
    <3>0. Len(joining) \in Nat /\ DOMAIN joining = 1 .. Len(joining)
      BY DEF TypeInv
    <3>1. /\ Len(joining) <= n
          /\ \A k \in 1 .. Len(joining) : joining[k] = k /\ (k < place => threads[k].at = "ended")
          /\ \A j \in 1 .. n : j > Len(joining) /\ Alive(j) => threads[j].at = "top"
      BY <1>5, <2>2, <3>0 DEF JoinInv, n
    <3>2. \A k \in 1 .. Len(joining) : k \in 1 .. n
      BY <1>4, <3>0, <3>1
    <3>3. \A j \in 1 .. (n + 1) : j \in 1 .. n \/ j = n + 1
      BY <1>4
    <3> QED
      BY <1>3, <1>4, <1>5, <3>0, <3>1, <3>2, <3>3 DEF Alive
  <2>3. ASSUME pc \in ThreadsJoined, NEW j \in 1 .. (n + 1), Alive(j)' PROVE threads'[j].at = "top"
    <3>1. j \in 1 .. n \/ j = n + 1
      BY <1>4
    <3> QED
      BY <1>3, <1>5, <2>3, <3>1 DEF JoinInv, Alive
  <2> QED
    BY <1>1, <1>5, <2>1, <2>2, <2>3 DEF JoinInv
<1>13. WorkersInv'
  BY <1>1 DEF WorkersInv
<1>14. LogInv'
  BY <1>1, <1>2, <1>7, <1>8 DEF LogInv, Logs, Closing
<1>15. BroadcastInv'
  <2>1. outbound <= n /\ outbound \in Nat /\ place \in Nat \ {0}
    BY DEF BroadcastInv, TypeInv, n
  <2>2. ASSUME NEW m \in Int, m <= outbound, \A j \in 1 .. m : ~Alive(j)
        PROVE  \A j \in 1 .. m : ~Alive(j)'
    <3>1. \A j \in 1 .. m : j \in 1 .. n
      BY <1>4, <2>1, <2>2
    <3> QED
      BY <1>5, <2>2, <3>1 DEF Alive
  <2>3. pc = "broadcast" => place - 1 <= outbound
    BY <2>1 DEF BroadcastInv
  <2>4. ASSUME pc = "broadcast", failed = place - 1 PROVE \A j \in 1 .. (place - 1) : ~Alive(j)'
    BY <2>1, <2>2, <2>3, <2>4 DEF BroadcastInv
  <2>5. told = "err" => \A j \in 1 .. outbound : ~Alive(j)'
    BY <2>1, <2>2 DEF BroadcastInv
  <2>6. outbound <= Len(threads')
    BY <1>4, <1>5, <2>1
  <2> QED
    BY <1>1, <2>4, <2>5, <2>6 DEF BroadcastInv
<1>16. CauseInv'
  <2>1. ASSUME pc = "err", finish PROVE \E i \in DOMAIN threads' : threads'[i].at = "panicked"
    <3>1. \E i \in DOMAIN threads : threads[i].at = "panicked"
      BY <1>2, <2>1 DEF CauseInv
    <3>2. \A i \in 1 .. n : i \in 1 .. (n + 1)
      BY <1>4
    <3> QED
      BY <1>5, <3>1, <3>2
  <2> QED
    BY <1>1, <1>2, <1>9, <2>1 DEF CauseInv
<1>17. ServeInv'
  <2>1. Served' = Served \cup {n + 1}
    <3>1. \A i : i \in 1 .. (n + 1) <=> i \in 1 .. n \/ i = n + 1
      BY <1>4
    <3>2. n + 1 \in Served'
      BY <1>3, <1>5, <3>1 DEF Served
    <3>3. \A i \in 1 .. n : i \in Served' <=> i \in Served
      BY <1>5, <3>1 DEF Served
    <3>4. Served' \subseteq 1 .. (n + 1) /\ Served \subseteq 1 .. n
      BY <1>5 DEF Served
    <3> QED
      BY <3>1, <3>2, <3>3, <3>4
  <2>2. Cardinality(Served') = Cardinality(Served) + 1
    <3>1. IsFiniteSet(Served) /\ n + 1 \notin Served
      BY <1>4, ServedFinite DEF n
    <3> QED
      BY <2>1, <3>1, FS_AddElement
  <2>3. ASSUME config["MAX_CONNECTIONS"] < MaxU8
        PROVE  /\ Cardinality(Served') = server'.amount
               /\ server'.amount <= config["MAX_CONNECTIONS"] + 1
    <3>1. /\ Cardinality(Served) = server.amount /\ server.amount <= config["MAX_CONNECTIONS"]
          /\ config["MAX_CONNECTIONS"] \in 0 .. MaxU8
      BY <1>2, <1>4, <2>3 DEF ServeInv, ConfigOK
    <3>2. server.amount < MaxU8
      BY <1>4, <2>3, <3>1, ConfigAssumption
    <3> QED
      BY <1>4, <1>9, <2>2, <3>1, <3>2, ConfigAssumption
  <2> QED
    BY <1>1, <1>9, <2>3 DEF ServeInv
<1> QED
  BY <1>10, <1>11, <1>12, <1>13, <1>14, <1>15, <1>16, <1>17

--------------------------------------------------------------------------------
(***************************************************************************)
(* The threads of the handshake and the loggers.                           *)
(***************************************************************************)
LEMMA WorkerMoves ==
    ASSUME workers \in Seq(WorkerStates), NEW i \in DOMAIN workers, WorkerStep(i)
    PROVE  /\ workers[i].st = "running"
           /\ workers' \in Seq(WorkerStates) /\ DOMAIN workers' = DOMAIN workers
           /\ \A j \in DOMAIN workers \ {i} : workers'[j] = workers[j]
<1>1. workers[i] \in WorkerStates /\ workers[i].st = "running"
  BY DEF WorkerStep, ConnectToNode, TestSockets
<1>2. ASSUME NEW w \in WorkerStates, workers' = [workers EXCEPT ![i] = w]
      PROVE  /\ workers' \in Seq(WorkerStates) /\ DOMAIN workers' = DOMAIN workers
             /\ \A j \in DOMAIN workers \ {i} : workers'[j] = workers[j]
  BY <1>2
<1>3. CASE ConnectToNode(i)
  <2> DEFINE w == [workers[i] EXCEPT !.nodes = Tail(@)]
  <2>1. workers' = [workers EXCEPT ![i] = w] /\ workers[i].nodes # <<>>
    BY <1>3 DEF ConnectToNode
  <2>2. workers[i].nodes \in Seq(Ips)
    BY <1>1 DEF WorkerStates
  <2>3. Tail(workers[i].nodes) \in Seq(Ips)
    <3>1. \A q \in Seq(Ips) : q # <<>> => Tail(q) \in Seq(Ips)
      OBVIOUS
    <3> HIDE DEF w
    <3> QED
      BY <2>1, <2>2, <3>1
  <2>4. w \in WorkerStates
    BY <1>1, <2>3 DEF WorkerStates
  <2> HIDE DEF w
  <2> QED
    BY <1>1, <1>2, <2>1, <2>4
<1>4. CASE TestSockets(i)
  <2> DEFINE w == [workers[i] EXCEPT !.st = IF sockets = <<>> THEN "err" ELSE "ok"]
  <2>1. workers' = [workers EXCEPT ![i] = w]
    BY <1>4 DEF TestSockets
  <2>2. w \in WorkerStates
    BY <1>1 DEF WorkerStates
  <2> HIDE DEF w
  <2> QED
    BY <1>1, <1>2, <2>1, <2>2
<1> QED
  BY <1>3, <1>4 DEF WorkerStep

LEMMA WorkerKeepsInv ==
    ASSUME LifeInv, WorkerSteps
    PROVE  LifeInv'
<1> USE DEF LifeInv
<1>1. PICK i \in DOMAIN workers : WorkerStep(i)
  BY DEF WorkerSteps
<1>2. /\ UNCHANGED <<pc, launch, config, ips, window, place, joining, outbound, failed, told, broadcasts>>
      /\ UNCHANGED <<finish, threads, handles, server, loggers, closing, late>>
  BY DEF WorkerSteps, startVars, loopVars, walletVars, allPeersVars, peersVars, serverVars, logVars
<1>3. workers \in Seq(WorkerStates)
  BY DEF TypeInv
<1>4. /\ workers[i].st = "running"
      /\ workers' \in Seq(WorkerStates) /\ DOMAIN workers' = DOMAIN workers
      /\ \A j \in DOMAIN workers \ {i} : workers'[j] = workers[j]
  BY <1>1, <1>3, WorkerMoves
<1>5. \A l \in Logs : loggers[l] # "ended"
  BY <1>1, <1>4 DEF LogInv, AllEnded
<1>6. Served' = Served
  BY <1>2 DEF Served
<1>7. TypeInv'
  BY <1>2, <1>4 DEF TypeInv
<1>8. PhaseInv'
  BY <1>2 DEF PhaseInv, ServerAlive
<1>9. JoinInv'
  BY <1>2 DEF JoinInv, Alive
<1>10. WorkersInv'
  <2>1. pc = "join_workers" => ~(i < place)
    BY <1>4 DEF WorkersInv
  <2>2. pc \in {"join_workers", "err", "panicked"}
    BY <1>4 DEF WorkersInv
  <2> QED
    BY <1>2, <1>4, <2>1, <2>2 DEF WorkersInv
<1>11. LogInv'
  BY <1>2, <1>5 DEF LogInv, Logs
<1>12. BroadcastInv'
  BY <1>2 DEF BroadcastInv, Alive
<1>13. CauseInv'
  BY <1>2 DEF CauseInv
<1>14. ServeInv'
  BY <1>2, <1>6 DEF ServeInv
<1> QED
  BY <1>7, <1>8, <1>9, <1>10, <1>11, <1>12, <1>13, <1>14

\* A log without senders: every thread has ended, and run_node has returned or
\* has dropped its own sender.
LEMMA NoSenders ==
    ASSUME TypeInv, NEW l, Senders(l) = 0
    PROVE  AllEnded /\ ~MainHolds(l)
<1> DEFINE T == {i \in DOMAIN threads : Alive(i)}
           W == {i \in DOMAIN workers : workers[i].st = "running"}
           s == IF ServerAlive THEN 1 ELSE 0
           m == IF MainHolds(l) THEN 1 ELSE 0
<1>1. /\ DOMAIN threads = 1 .. Len(threads) /\ Len(threads) \in Nat
      /\ DOMAIN workers = 1 .. Len(workers) /\ Len(workers) \in Nat
  BY DEF TypeInv
<1>2. IsFiniteSet(1 .. Len(threads)) /\ IsFiniteSet(1 .. Len(workers))
  BY <1>1, FS_Interval
<1>3. T \subseteq 1 .. Len(threads) /\ W \subseteq 1 .. Len(workers)
  BY <1>1
<1>4. Cardinality(T) + Cardinality(W) + s + m = 0
  BY DEF Senders
<1>5. s \in {0, 1} /\ m \in {0, 1} /\ (ServerAlive => s = 1) /\ (MainHolds(l) => m = 1)
  OBVIOUS
<1>6. T = {} => \A i \in DOMAIN threads : ~Alive(i)
  OBVIOUS
<1>7. W = {} => \A i \in DOMAIN workers : workers[i].st # "running"
  OBVIOUS
<1> HIDE DEF T, W, s, m
<1>8. IsFiniteSet(T) /\ IsFiniteSet(W)
  BY <1>2, <1>3, FS_Subset
<1>9. Cardinality(T) \in Nat /\ Cardinality(W) \in Nat
  BY <1>8, FS_CardinalityType
<1>10. Cardinality(T) = 0 /\ Cardinality(W) = 0 /\ s = 0 /\ m = 0
  <2>1. \A a, b \in Nat : \A c, d \in {0, 1} :
          a + b + c + d = 0 => a = 0 /\ b = 0 /\ c = 0 /\ d = 0
    OBVIOUS
  <2> QED
    BY <1>4, <1>5, <1>9, <2>1
<1>11. T = {} /\ W = {}
  BY <1>8, <1>10, FS_EmptySet
<1> QED
  BY <1>5, <1>6, <1>7, <1>10, <1>11 DEF AllEnded

LEMMA LoggerKeepsInv ==
    ASSUME LifeInv, LoggerSteps
    PROVE  LifeInv'
<1> USE DEF LifeInv
<1>1. PICK l \in Logs : LoggerEnds(l, Senders(l))
  BY DEF LoggerSteps
<1>2. /\ UNCHANGED <<pc, launch, config, ips, window, place, joining, outbound, failed, told, broadcasts>>
      /\ UNCHANGED <<peers, workers, sockets, finish, threads, handles, server>>
  BY DEF LoggerSteps, Rest, startVars, loopVars, walletVars, handshakeVars, peersVars, serverVars
<1>3. /\ Senders(l) = 0 /\ loggers' = [loggers EXCEPT ![l] = "ended"]
      /\ UNCHANGED <<closing, late>>
  BY <1>1 DEF LoggerEnds
<1>4. AllEnded /\ (Returned \/ closing # {})
  BY <1>3, NoSenders DEF MainHolds
<1>5. /\ loggers' \in [Logs -> {"off", "open", "ended"}]
      /\ \A k \in Logs : loggers[k] = "ended" => loggers'[k] = "ended"
  BY <1>3 DEF TypeInv
<1>6. Served' = Served
  BY <1>2 DEF Served
<1>7. TypeInv'
  BY <1>2, <1>3, <1>5 DEF TypeInv
<1>8. PhaseInv'
  BY <1>2, <1>3 DEF PhaseInv, ServerAlive
<1>9. JoinInv'
  BY <1>2 DEF JoinInv, Alive
<1>10. WorkersInv'
  BY <1>2 DEF WorkersInv
<1>11. LogInv'
  <2>1. AllEnded' /\ (Returned' \/ closing' # {})
    BY <1>2, <1>3, <1>4 DEF AllEnded, Returned, Alive, ServerAlive
  <2>2. \A k \in 1 .. 3 : LogNames[k] \in Logs
    BY DEF LogNames, Logs
  <2> QED
    BY <1>2, <1>3, <1>5, <2>1, <2>2 DEF LogInv
<1>12. BroadcastInv'
  BY <1>2 DEF BroadcastInv, Alive
<1>13. CauseInv'
  BY <1>2 DEF CauseInv
<1>14. ServeInv'
  BY <1>2, <1>6 DEF ServeInv
<1> QED
  BY <1>7, <1>8, <1>9, <1>10, <1>11, <1>12, <1>13, <1>14

--------------------------------------------------------------------------------
(***************************************************************************)
(* The start-up.                                                           *)
(***************************************************************************)
\* handshake_with_nodes gives each thread a part of the list.
LEMMA SpawnTypes ==
    ASSUME ips \in Seq(Ips), ips # <<>>, NEW n \in Nat, SpawnWorkers(ips, n)
    PROVE  workers' \in Seq(WorkerStates)
<1> DEFINE L == Len(ips)
           size == IF n = 0 THEN L ELSE (L + n - 1) \div n
           End(i) == IF size * i > L THEN L ELSE size * i
           K == (L + size - 1) \div size
           chunks == [i \in 1 .. K |-> SubSeq(ips, size * (i - 1) + 1, End(i))]
           amount == IF Len(chunks) < n THEN Len(chunks) ELSE n
<1>1. chunks = Chunks(ips, n)
  BY DEF Chunks
<1>2. workers' = [i \in 1 .. amount |-> [nodes |-> chunks[i], st |-> "running"]]
  BY <1>1 DEF SpawnWorkers
<1>3. L \in Nat /\ L > 0
  OBVIOUS
<1> HIDE DEF L
<1>4. size \in Nat /\ size > 0
  <2>1. CASE n = 0
    BY <1>3, <2>1
  <2>2. CASE n # 0
    BY <1>3, <2>2
  <2> QED
    BY <2>1, <2>2
<1> HIDE DEF size
<1>5. K \in Nat
  BY <1>3, <1>4
<1>6. ASSUME NEW i \in 1 .. K PROVE SubSeq(ips, size * (i - 1) + 1, End(i)) \in Seq(Ips)
  <2> DEFINE m == size * (i - 1)
             e == size * i
  <2>1. m \in Nat
    <3>1. i - 1 \in Nat
      BY <1>5
    <3>2. \A a, b \in Nat : a * b \in Nat
      OBVIOUS
    <3> QED
      BY <1>4, <3>1, <3>2
  <2>2. e \in Int
    BY <1>4, <1>5
  <2> HIDE DEF m, e
  <2>3. \A from_1, to \in Int : from_1 >= 1 /\ to <= Len(ips) => SubSeq(ips, from_1, to) \in Seq(Ips)
    OBVIOUS
  <2>4. m + 1 \in Int /\ m + 1 >= 1
    BY <2>1
  <2>5. (IF e > L THEN L ELSE e) \in Int /\ (IF e > L THEN L ELSE e) <= L
    BY <1>3, <2>2
  <2> QED
    BY <2>3, <2>4, <2>5 DEF L, m, e
<1> HIDE DEF K, End
<1>7. Len(chunks) = K /\ \A i \in 1 .. K : chunks[i] \in Seq(Ips)
  BY <1>5, <1>6
<1> HIDE DEF chunks
<1>8. amount \in Nat /\ amount <= K
  BY <1>5, <1>7
<1> HIDE DEF amount
<1>9. \A i \in 1 .. amount : [nodes |-> chunks[i], st |-> "running"] \in WorkerStates
  <2>1. \A i \in 1 .. amount : i \in 1 .. K
    BY <1>5, <1>8
  <2> QED
    BY <1>7, <2>1 DEF WorkerStates
<1> QED
  BY <1>2, <1>8, <1>9

\* Before the threads of the nodes exist there is little a step can disturb.
LEMMA EarlyKeepsInv ==
    ASSUME LifeInv, pc \in BeforeThreads, pc' \in BeforeThreads \cup {"err", "panicked"},
           TypeInv', WorkersInv', UNCHANGED <<finish, threads, handles, server, closing, late, outbound, told>>,
           loggers' = loggers \/ loggers' = [l \in Logs |-> "open"],
           pc' \in BeforeThreads \ {"join_workers"} => place' = 1
    PROVE  LifeInv'
<1> USE DEF LifeInv
<1>1. /\ threads = <<>> /\ outbound = 0 /\ server.at = "none" /\ ~finish
      /\ Served = {} /\ server.amount = 0 /\ closing = {} /\ ~server.stop
  BY DEF PhaseInv, ServeInv, BeforeThreads, Closing
<1>2. \A l \in Logs : loggers'[l] # "ended"
  BY <1>1 DEF LogInv, Returned, BeforeThreads
<1>3. Served' = {}
  BY <1>1 DEF Served
<1>4. PhaseInv'
  BY <1>1 DEF PhaseInv, BeforeThreads, Working, ThreadsJoined, Closing
<1>5. JoinInv'
  BY <1>1 DEF JoinInv, BeforeThreads, Working, ThreadsJoined
<1>6. LogInv'
  BY <1>1, <1>2 DEF LogInv, BeforeThreads, Logs
<1>7. BroadcastInv'
  BY <1>1 DEF BroadcastInv, BeforeThreads
<1>8. CauseInv'
  BY <1>1 DEF CauseInv
<1>9. ServeInv'
  <2>1. config'["MAX_CONNECTIONS"] \in Nat
    <3>1. ConfigOK(config')
      BY DEF TypeInv
    <3> QED
      BY <3>1, ConfigAssumption DEF ConfigOK
  <2>2. Cardinality(Served') = 0
    BY <1>3, FS_EmptySet
  <2> QED
    BY <1>1, <1>3, <2>1, <2>2 DEF ServeInv
<1> QED
  BY <1>4, <1>5, <1>6, <1>7, <1>8, <1>9

LEMMA StartKeepsInv ==
    ASSUME LifeInv, Start \/ ReadConfig \/ SetUpLoggers \/ GetActiveNodes
    PROVE  LifeInv'
<1> USE DEF LifeInv, startVars, loopVars, walletVars, handshakeVars, allPeersVars, peersVars,
            serverVars, logVars, BeforeThreads
<1>1. CASE Start
  <2>1. /\ pc = "button" /\ pc' = "config"
        /\ UNCHANGED <<launch, config, ips, place, joining, outbound, failed, told, workers>>
        /\ UNCHANGED <<finish, threads, handles, server, loggers, closing, late>>
    BY <1>1 DEF Start
  <2>2. TypeInv'
    BY <2>1 DEF TypeInv
  <2>3. WorkersInv'
    BY <2>1 DEF WorkersInv
  <2>4. place' = 1
    BY <2>1 DEF PhaseInv
  <2> QED
    BY <2>1, <2>2, <2>3, <2>4, EarlyKeepsInv
<1>2. CASE ReadConfig
  <2>1. /\ pc = "config" /\ pc' \in {"loggers", "err"}
        /\ \E argc : config' = from(argc, Files[launch.file]).config
        /\ UNCHANGED <<launch, ips, place, joining, outbound, failed, told, workers>>
        /\ UNCHANGED <<finish, threads, handles, server, loggers, closing, late>>
    BY <1>2 DEF ReadConfig
  <2>2. launch.file \in DOMAIN Files
    BY LifecycleAssumption DEF TypeInv
  <2>3. ConfigOK(config')
    BY <2>1, <2>2, ConfigRead
  <2>4. TypeInv'
    BY <2>1, <2>3 DEF TypeInv
  <2>5. WorkersInv'
    BY <2>1 DEF WorkersInv
  <2>6. place' = 1
    BY <2>1 DEF PhaseInv
  <2> QED
    BY <2>1, <2>4, <2>5, <2>6, EarlyKeepsInv
<1>3. CASE SetUpLoggers
  <2>1. /\ pc = "loggers" /\ pc' \in {"seed", "err"}
        /\ loggers' = loggers \/ loggers' = [l \in Logs |-> "open"]
        /\ UNCHANGED <<launch, config, ips, place, joining, outbound, failed, told, workers>>
        /\ UNCHANGED <<finish, threads, handles, server, closing, late>>
    BY <1>3 DEF SetUpLoggers, set_up_loggers
  <2>2. TypeInv'
    BY <2>1 DEF TypeInv
  <2>3. WorkersInv'
    BY <2>1 DEF WorkersInv
  <2>4. place' = 1
    BY <2>1 DEF PhaseInv
  <2> QED
    BY <2>1, <2>2, <2>3, <2>4, EarlyKeepsInv
<1>4. CASE GetActiveNodes
  <2>1. PICK answer \in Resolutions :
          LET nodes == get_active_nodes_from_dns_seed(config, answer)
          IN  /\ pc' = IF nodes.ok THEN "handshake" ELSE "err"
              /\ ips' = IF nodes.ok THEN nodes.ips ELSE <<>>
    BY <1>4 DEF GetActiveNodes
  <2>2. /\ pc = "seed" /\ pc' \in {"handshake", "err"}
        /\ UNCHANGED <<launch, config, place, joining, outbound, failed, told, workers>>
        /\ UNCHANGED <<finish, threads, handles, server, loggers, closing, late>>
    BY <1>4, <2>1 DEF GetActiveNodes
  <2>3. ips' \in Seq(Ips)
    <3>1. get_active_nodes_from_dns_seed(config, answer).ips \in Seq(Ips)
      BY ActiveNodes DEF TypeInv
    <3>2. <<>> \in Seq(Ips)
      OBVIOUS
    <3> QED
      BY <2>1, <3>1, <3>2
  <2>4. TypeInv'
    BY <2>2, <2>3 DEF TypeInv
  <2>5. WorkersInv'
    BY <2>2 DEF WorkersInv
  <2>6. place' = 1
    BY <2>2 DEF PhaseInv
  <2> QED
    BY <2>2, <2>4, <2>5, <2>6, EarlyKeepsInv
<1> QED
  BY <1>1, <1>2, <1>3, <1>4

LEMMA ConnectKeepsInv ==
    ASSUME LifeInv, StartHandshake \/ JoinWorker
    PROVE  LifeInv'
<1> USE DEF LifeInv, startVars, loopVars, walletVars, handshakeVars, allPeersVars, peersVars,
            serverVars, logVars, BeforeThreads
<1>1. CASE StartHandshake
  <2>1. /\ pc = "handshake"
        /\ UNCHANGED <<launch, config, ips, place, joining, outbound, failed, told>>
        /\ UNCHANGED <<finish, threads, handles, server, loggers, closing, late>>
        /\ \/ pc' = "panicked" /\ UNCHANGED workers
           \/ ips # <<>> /\ pc' = "join_workers" /\ SpawnWorkers(ips, config["N_THREADS"])
    BY <1>1 DEF StartHandshake, ChunksPanic
  <2>2. place = 1
    BY <2>1 DEF PhaseInv
  <2>3. workers' \in Seq(WorkerStates)
    <3>1. ips \in Seq(Ips) /\ config["N_THREADS"] \in Nat /\ workers \in Seq(WorkerStates)
      BY DEF TypeInv, ConfigOK
    <3> QED
      BY <2>1, <3>1, SpawnTypes
  <2>4. TypeInv'
    BY <2>1, <2>3 DEF TypeInv
  <2>5. WorkersInv'
    <3>1. \A i \in DOMAIN workers' : ~(i < 1)
      BY <2>3
    <3> QED
      BY <2>1, <2>2, <3>1 DEF WorkersInv
  <2> QED
    BY <2>1, <2>4, <2>5, EarlyKeepsInv
<1>2. CASE JoinWorker
  <2>1. /\ pc = "join_workers" /\ pc' \in {"join_workers", "download", "err"}
        /\ \/ place > Len(workers) /\ pc' = "download" /\ place' = 1
           \/ /\ place <= Len(workers) /\ workers[place].st = "ok"
              /\ place' = place + 1 /\ pc' = "join_workers"
           \/ pc' = "err" /\ UNCHANGED place
        /\ UNCHANGED <<launch, config, ips, joining, outbound, failed, told, workers>>
        /\ UNCHANGED <<finish, threads, handles, server, loggers, closing, late>>
    BY <1>2 DEF JoinWorker
  <2>2. place \in Nat \ {0} /\ DOMAIN workers = 1 .. Len(workers) /\ Len(workers) \in Nat
    BY DEF TypeInv
  <2>3. place' \in Nat \ {0}
    BY <2>1, <2>2
  <2>4. TypeInv'
    BY <2>1, <2>3 DEF TypeInv
  <2>5. WorkersInv'
    <3>1. \A i \in DOMAIN workers : i < place => workers[i].st = "ok"
      BY <2>1 DEF WorkersInv
    <3>2. CASE place > Len(workers) /\ pc' = "download"
      <4>1. \A i \in DOMAIN workers : i < place
        BY <2>2, <3>2
      <4> QED
        BY <2>1, <3>1, <3>2, <4>1 DEF WorkersInv
    <3>3. CASE workers[place].st = "ok" /\ place' = place + 1 /\ pc' = "join_workers"
      <4>1. \A i \in DOMAIN workers : i < place + 1 => i < place \/ i = place
        BY <2>2
      <4> QED
        BY <2>1, <3>1, <3>3, <4>1 DEF WorkersInv
    <3>4. CASE pc' = "err"
      BY <2>1, <3>4 DEF WorkersInv
    <3> QED
      BY <2>1, <3>2, <3>3, <3>4
  <2> QED
    BY <2>1, <2>4, <2>5, EarlyKeepsInv
<1> QED
  BY <1>1, <1>2

\* Node::new: one thread, and one handle, for every connection.
LEMMA DownloadKeepsInv ==
    ASSUME LifeInv, DownloadAndListen
    PROVE  LifeInv'
<1> USE DEF LifeInv
<1>1. /\ pc = "download"
      /\ UNCHANGED <<launch, config, ips, place, joining, failed, told, workers>>
      /\ UNCHANGED <<server, loggers, closing, late>>
  BY DEF DownloadAndListen, startVars, loopVars, serverVars, logVars
<1>2. CASE pc' \in {"err", "panicked"} /\ UNCHANGED <<peersVars, outbound>>
  <2>1. pc' \in {"err", "panicked"} /\ UNCHANGED <<finish, threads, handles, outbound>>
    BY <1>2 DEF peersVars
  <2>2. TypeInv'
    BY <1>1, <2>1 DEF TypeInv
  <2>3. WorkersInv'
    BY <2>1 DEF WorkersInv
  <2> QED
    BY <1>1, <2>1, <2>2, <2>3, EarlyKeepsInv DEF BeforeThreads
<1>3. ASSUME NEW left \in 1 .. Len(sockets), NEW timeouts \in [1 .. left -> BOOLEAN],
             pc' = "server", SpawnThreads(timeouts), outbound' = left
      PROVE  LifeInv'
  <2>1. left \in Nat
    OBVIOUS
  <2>2. /\ threads' = [i \in 1 .. left |-> Thread(FALSE, timeouts[i])]
        /\ handles' = [i \in 1 .. left |-> i] /\ finish' = finish
    BY <1>3 DEF SpawnThreads
  <2>3. ASSUME NEW i \in 1 .. left
        PROVE  /\ Thread(FALSE, timeouts[i]) \in ThreadStates
               /\ Thread(FALSE, timeouts[i]).accepted = FALSE
    BY DEF Thread, ThreadStates, ThreadPlaces
  <2>4. /\ threads' \in Seq(ThreadStates) /\ Len(threads') = left /\ DOMAIN threads' = 1 .. left
        /\ \A i \in 1 .. left : threads'[i].accepted = FALSE
    <3> DEFINE t(i) == Thread(FALSE, timeouts[i])
    <3>1. threads' = [i \in 1 .. left |-> t(i)]
      BY <2>2
    <3>2. \A i \in 1 .. left : t(i) \in ThreadStates /\ t(i).accepted = FALSE
      BY <2>3
    <3> HIDE DEF t
    <3>3. threads' \in Seq(ThreadStates) /\ Len(threads') = left /\ DOMAIN threads' = 1 .. left
      BY <2>1, <3>1, <3>2
    <3>4. \A i \in 1 .. left : threads'[i] = t(i)
      BY <3>1
    <3> QED
      BY <3>2, <3>3, <3>4
  <2>5. /\ handles' \in Seq(Nat) /\ Len(handles') = left /\ DOMAIN handles' = 1 .. left
        /\ \A i \in 1 .. left : handles'[i] = i
    BY <2>1, <2>2
  <2>6. Served' = {}
    BY <2>4 DEF Served
  <2>7. /\ server.at = "none" /\ server.amount = 0 /\ ~finish /\ closing = {} /\ ~server.stop
    BY <1>1 DEF PhaseInv, ServeInv, BeforeThreads, Closing
  <2>8. \A l \in Logs : loggers[l] # "ended"
    BY <1>1, <2>7 DEF LogInv, Returned
  <2>9. told = "none"
    BY <1>1 DEF PhaseInv, BeforeThreads
  <2>10. TypeInv'
    BY <1>1, <1>3, <2>1, <2>4, <2>5 DEF TypeInv, Working
  <2>11. PhaseInv'
    BY <1>1, <1>3, <2>2, <2>7 DEF PhaseInv, BeforeThreads, Working, ThreadsJoined, Closing
  <2>12. JoinInv'
    BY <1>3, <2>4, <2>5 DEF JoinInv, BeforeThreads, Working, ThreadsJoined
  <2>13. WorkersInv'
    BY <1>1, <1>3 DEF WorkersInv
  <2>14. LogInv'
    BY <1>1, <1>3, <2>8 DEF LogInv, Logs
  <2>15. BroadcastInv'
    BY <1>1, <1>3, <2>1, <2>4, <2>9 DEF BroadcastInv
  <2>16. CauseInv'
    BY <1>1, <1>3, <2>7 DEF CauseInv
  <2>17. ServeInv'
    <3>1. config["MAX_CONNECTIONS"] \in Nat
      BY ConfigAssumption DEF TypeInv, ConfigOK
    <3>2. Cardinality(Served') = 0
      BY <2>6, FS_EmptySet
    <3> QED
      BY <1>1, <2>6, <2>7, <3>1, <3>2 DEF ServeInv
  <2> QED
    BY <2>10, <2>11, <2>12, <2>13, <2>14, <2>15, <2>16, <2>17
<1> QED
  BY <1>1, <1>2, <1>3 DEF DownloadAndListen

--------------------------------------------------------------------------------
(***************************************************************************)
(* run_node while it serves.                                               *)
(***************************************************************************)
\* The loggers run while run_node does.
LEMMA LoggersRun ==
    ASSUME LifeInv, ~Returned, pc \notin Closing, NEW l \in Logs
    PROVE  loggers[l] # "ended"
BY DEF LifeInv, LogInv, PhaseInv

LEMMA ServerStartKeepsInv ==
    ASSUME LifeInv, StartServer
    PROVE  LifeInv'
<1> USE DEF LifeInv
<1>1. /\ pc = "server" /\ pc' = "serving" /\ server' = [server EXCEPT !.at = "bind"]
      /\ UNCHANGED <<launch, config, ips, place, joining, outbound, failed, told, workers>>
      /\ UNCHANGED <<finish, threads, handles, loggers, closing, late>>
  BY DEF StartServer, NodeServer_new, startVars, loopVars, walletVars, handshakeVars, peersVars, logVars
<1>2. /\ server.at = "none" /\ server.amount = 0 /\ Served = {} /\ closing = {} /\ ~server.stop
      /\ DOMAIN server = {"at", "amount", "stop"}
  BY <1>1 DEF PhaseInv, ServeInv, TypeInv, Closing, BeforeThreads
<1>3. /\ DOMAIN server' = {"at", "amount", "stop"} /\ server'.at = "bind"
      /\ server'.amount = server.amount /\ server'.stop = server.stop
  BY <1>1, <1>2
<1>4. \A l \in Logs : loggers[l] # "ended"
  BY <1>1, LoggersRun DEF Returned, Closing
<1>5. Served' = Served
  BY <1>1 DEF Served
<1>6. TypeInv'
  BY <1>1, <1>2, <1>3 DEF TypeInv, Working, ServerPlaces
<1>7. PhaseInv'
  BY <1>1, <1>2, <1>3 DEF PhaseInv, BeforeThreads, Working, ThreadsJoined, Closing
<1>8. JoinInv'
  BY <1>1 DEF JoinInv, BeforeThreads, Working, ThreadsJoined
<1>9. WorkersInv'
  BY <1>1 DEF WorkersInv
<1>10. LogInv'
  BY <1>1, <1>4 DEF LogInv, Logs
<1>11. BroadcastInv'
  BY <1>1 DEF BroadcastInv, Alive
<1>12. CauseInv'
  BY <1>1, <1>3 DEF CauseInv
<1>13. ServeInv'
  BY <1>1, <1>2, <1>3, <1>5 DEF ServeInv
<1> QED
  BY <1>6, <1>7, <1>8, <1>9, <1>10, <1>11, <1>12, <1>13

\* The window does not matter.
LEMMA SameKeepsInv ==
    ASSUME LifeInv, UNCHANGED <<pc, launch, config, ips, loopVars, walletVars, handshakeVars, allPeersVars>>
    PROVE  LifeInv'
<1> USE DEF LifeInv
<1>1. /\ UNCHANGED <<pc, launch, config, ips, place, joining, outbound, failed, told, workers>>
      /\ UNCHANGED <<finish, threads, handles, server, loggers, closing, late>>
  BY DEF loopVars, walletVars, handshakeVars, allPeersVars, peersVars, serverVars, logVars
<1>2. Served' = Served
  BY <1>1 DEF Served
<1>3. TypeInv' /\ PhaseInv' /\ JoinInv' /\ WorkersInv'
  BY <1>1 DEF TypeInv, PhaseInv, JoinInv, WorkersInv, Alive, ServerAlive
<1>4. LogInv'
  BY <1>1 DEF LogInv, AllEnded, Returned, Alive, ServerAlive
<1>5. BroadcastInv' /\ CauseInv' /\ ServeInv'
  BY <1>1, <1>2 DEF BroadcastInv, CauseInv, ServeInv, Alive
<1> QED
  BY <1>3, <1>4, <1>5

LEMMA ServingKeepsInv ==
    ASSUME LifeInv, BroadcastTx \/ BroadcastEnds \/ StopServing
    PROVE  LifeInv'
<1> USE DEF LifeInv
<1>1. /\ pc \in {"serving", "broadcast"} /\ pc' \in {"serving", "broadcast", "finish"}
      /\ UNCHANGED <<launch, config, ips, joining, outbound, workers>>
      /\ UNCHANGED <<finish, threads, handles, server, loggers, closing, late>>
  BY DEF BroadcastTx, BroadcastEnds, StopServing, startVars, loopVars, walletVars, handshakeVars,
         allPeersVars, peersVars, serverVars, logVars
<1>2. \A l \in Logs : loggers[l] # "ended"
  BY <1>1, LoggersRun DEF Returned, Closing
<1>3. Served' = Served
  BY <1>1 DEF Served
<1>4. TypeInv' /\ BroadcastInv'
  <2>1. CASE BroadcastTx
    <3>1. pc' = "broadcast" /\ failed' = 0 /\ place' = 1 /\ told' = told
      BY <2>1 DEF BroadcastTx
    <3>2. TypeInv'
      BY <1>1, <3>1 DEF TypeInv, Working
    <3>3. outbound \in Nat
      BY DEF TypeInv
    <3>4. BroadcastInv'
      BY <1>1, <3>1, <3>3 DEF BroadcastInv, Alive
    <3> QED
      BY <3>2, <3>4
  <2>2. CASE BroadcastEnds
    <3>1. /\ pc = "broadcast" /\ place > outbound /\ pc' = "serving" /\ place' = 1 /\ failed' = failed
          /\ told' = IF failed = outbound THEN "err" ELSE "ok"
      BY <2>2 DEF BroadcastEnds
    <3>2. outbound \in Nat /\ place \in Nat
      BY DEF TypeInv
    <3>3. place - 1 = outbound
      BY <3>1, <3>2 DEF BroadcastInv
    <3>4. TypeInv'
      BY <1>1, <3>1 DEF TypeInv, Working
    <3>5. failed = outbound => \A i \in 1 .. outbound : ~Alive(i)
      BY <3>1, <3>3 DEF BroadcastInv
    <3>6. BroadcastInv'
      BY <1>1, <3>1, <3>5 DEF BroadcastInv, Alive
    <3> QED
      BY <3>4, <3>6
  <2>3. CASE StopServing
    <3>1. pc' = "finish" /\ UNCHANGED <<place, failed, told>>
      BY <2>3 DEF StopServing, loopVars, walletVars
    <3> QED
      BY <1>1, <3>1 DEF TypeInv, BroadcastInv, Working, Alive
  <2> QED
    BY <2>1, <2>2, <2>3
<1>5. PhaseInv'
  BY <1>1 DEF PhaseInv, BeforeThreads, Working, ThreadsJoined, Closing, ServerAlive
<1>6. JoinInv'
  BY <1>1 DEF JoinInv, BeforeThreads, Working, ThreadsJoined
<1>7. WorkersInv'
  BY <1>1 DEF WorkersInv
<1>8. LogInv'
  BY <1>1, <1>2 DEF LogInv, Logs
<1>9. CauseInv'
  BY <1>1 DEF CauseInv
<1>10. ServeInv'
  BY <1>1, <1>3 DEF ServeInv
<1> QED
  BY <1>4, <1>5, <1>6, <1>7, <1>8, <1>9, <1>10

\* One sender of a broadcast: its thread is there, or the failure is counted.
LEMMA WriteKeepsInv ==
    ASSUME LifeInv, WriteToNode
    PROVE  LifeInv'
<1> USE DEF LifeInv
<1>1. /\ pc = "broadcast" /\ place <= outbound /\ place' = place + 1
      /\ UNCHANGED <<pc, launch, config, ips, joining, outbound, told, workers>>
      /\ UNCHANGED <<finish, handles, server, loggers, closing, late>>
  BY DEF WriteToNode, write_to_node, startVars, walletVars, handshakeVars, peersVars, serverVars, logVars
<1>2. /\ threads \in Seq(ThreadStates) /\ place \in Nat \ {0} /\ outbound \in Nat /\ failed \in Nat
      /\ outbound <= Len(threads) /\ failed < place
  BY <1>1 DEF TypeInv, BroadcastInv
<1>3. place \in DOMAIN threads
  BY <1>1, <1>2
<1>4. /\ Moved(place) /\ threads'[place].at = threads[place].at
      /\ \/ failed' = failed
         \/ failed' = failed + 1 /\ ~Alive(place)
  <2>1. CASE Alive(place)
    <3> DEFINE t == [threads[place] EXCEPT !.queue = threads[place].queue + 1]
    <3>1. threads' = [threads EXCEPT ![place] = t] /\ failed' = failed
      BY <2>1 DEF WriteToNode, write_to_node, CanWrite
    <3>2. threads[place] \in ThreadStates
      BY <1>2, <1>3
    <3>3. threads[place].queue + 1 \in Nat
      BY <3>2 DEF ThreadStates
    <3>4. t \in ThreadStates /\ t.accepted = threads[place].accepted /\ t.at = threads[place].at
      BY <3>2, <3>3, NewQueue
    <3> HIDE DEF t
    <3> QED
      BY <1>2, <1>3, <3>1, <3>4, NewThread
  <2>2. CASE ~Alive(place)
    <3>1. threads' = threads /\ failed' = failed + 1
      BY <2>2 DEF WriteToNode, CanWrite, peersVars
    <3> QED
      BY <1>2, <2>2, <3>1 DEF Moved
  <2> QED
    BY <2>1, <2>2
<1>5. \A i \in DOMAIN threads : threads'[i].at = threads[i].at
  BY <1>4 DEF Moved
<1>6. \A l \in Logs : loggers[l] # "ended"
  BY <1>1, LoggersRun DEF Returned, Closing
<1>7. Served' = Served
  BY <1>3, <1>4, MovedServed
<1>8. failed' \in Nat /\ place' \in Nat \ {0}
  BY <1>1, <1>2, <1>4
<1>9. TypeInv'
  BY <1>1, <1>4, <1>8 DEF TypeInv, Moved
<1>10. PhaseInv'
  BY <1>1 DEF PhaseInv, BeforeThreads, Working, ThreadsJoined, Closing, ServerAlive
<1>11. JoinInv'
  BY <1>1, <1>4 DEF JoinInv, BeforeThreads, Working, ThreadsJoined, Moved
<1>12. WorkersInv'
  BY <1>1 DEF WorkersInv
<1>13. LogInv'
  BY <1>1, <1>6 DEF LogInv, Logs
<1>14. BroadcastInv'
  <2>1. \A i \in 1 .. outbound : i \in DOMAIN threads
    BY <1>2
  <2>2. told = "err" => \A i \in 1 .. outbound : ~Alive(i)'
    BY <1>5, <2>1 DEF BroadcastInv, Alive
  <2>3. outbound <= Len(threads')
    BY <1>2, <1>4 DEF Moved
  <2>4. place + 1 <= outbound + 1
    BY <1>1, <1>2
  <2>5. failed' < place + 1
    BY <1>2, <1>4
  <2>6. ASSUME failed' = (place + 1) - 1 PROVE \A i \in 1 .. ((place + 1) - 1) : ~Alive(i)'
    <3>1. failed = place - 1 /\ ~Alive(place)
      BY <1>2, <1>4, <2>6
    <3>2. \A i \in 1 .. (place - 1) : ~Alive(i)
      BY <1>1, <3>1 DEF BroadcastInv
    <3>3. \A i \in 1 .. ((place + 1) - 1) : i \in 1 .. outbound /\ (i \in 1 .. (place - 1) \/ i = place)
      BY <1>1, <1>2
    <3> QED
      BY <1>5, <2>1, <3>1, <3>2, <3>3 DEF Alive
  <2> QED
    BY <1>1, <2>2, <2>3, <2>4, <2>5, <2>6 DEF BroadcastInv
<1>15. CauseInv'
  BY <1>1 DEF CauseInv
<1>16. ServeInv'
  BY <1>1, <1>7 DEF ServeInv
<1> QED
  BY <1>9, <1>10, <1>11, <1>12, <1>13, <1>14, <1>15, <1>16

--------------------------------------------------------------------------------
(***************************************************************************)
(* The shutdown.                                                           *)
(***************************************************************************)
LEMMA FinishKeepsInv ==
    ASSUME LifeInv, Finish
    PROVE  LifeInv'
<1> USE DEF LifeInv
<1>1. /\ UNCHANGED <<launch, config, ips, outbound, failed, told, workers>>
      /\ UNCHANGED <<threads, server, loggers, closing, late>>
  BY DEF Finish, SetFinish, TakeHandles, startVars, walletVars, handshakeVars, serverVars, logVars
<1>2. \/ pc = "finish" /\ pc' = "take" /\ finish' = TRUE /\ UNCHANGED <<handles, place, joining>>
      \/ /\ pc = "take" /\ pc' = "join_threads" /\ joining' = handles /\ place' = 1
         /\ handles' = <<>> /\ UNCHANGED finish
  BY DEF Finish, SetFinish, TakeHandles, loopVars
<1>3. \A l \in Logs : loggers[l] # "ended"
  BY <1>2, LoggersRun DEF Returned, Closing
<1>4. Served' = Served
  BY <1>1 DEF Served
<1>5. TypeInv'
  <2>1. <<>> \in Seq(Nat) /\ handles \in Seq(Nat) /\ joining \in Seq(Nat) /\ place \in Nat \ {0}
    BY DEF TypeInv
  <2>2. handles' \in Seq(Nat) /\ joining' \in Seq(Nat) /\ place' \in Nat \ {0}
    <3>1. CASE UNCHANGED <<handles, place, joining>>
      BY <2>1, <3>1
    <3>2. CASE joining' = handles /\ place' = 1 /\ handles' = <<>>
      <4>1. joining' \in Seq(Nat) /\ handles' \in Seq(Nat)
        BY <2>1, <3>2, Zenon
      <4> QED
        BY <3>2, <4>1
    <3> QED
      BY <1>2, <3>1, <3>2
  <2>3. pc' \in {"take", "join_threads"}
    BY <1>2
  <2> QED
    BY <1>1, <2>2, <2>3 DEF TypeInv
<1>6. PhaseInv'
  BY <1>1, <1>2 DEF PhaseInv, BeforeThreads, Working, ThreadsJoined, Closing, ServerAlive
<1>7. JoinInv'
  <2>1. CASE pc = "finish"
    <3>1. pc' = "take" /\ handles' = handles
      BY <1>2, <2>1
    <3>2. Len(handles) = Len(threads) /\ \A i \in DOMAIN handles : handles[i] = i
      BY <2>1 DEF JoinInv, Working
    <3> QED
      BY <1>1, <3>1, <3>2 DEF JoinInv, ThreadsJoined
  <2>2. CASE pc = "take"
    <3>1. /\ DOMAIN handles = 1 .. Len(handles) /\ DOMAIN threads = 1 .. Len(threads)
          /\ Len(handles) \in Nat
      BY DEF TypeInv
    <3>2. Len(handles) = Len(threads) /\ \A i \in DOMAIN handles : handles[i] = i
      BY <2>2 DEF JoinInv
    <3>3. /\ \A k \in DOMAIN handles : ~(k < 1)
          /\ \A i \in DOMAIN threads : ~(i > Len(handles))
      BY <3>1, <3>2
    <3>4. Len(handles) <= Len(threads)
      BY <3>1, <3>2
    <3>5. /\ pc' = "join_threads" /\ joining' = handles /\ place' = 1
      BY <1>2, <2>2
    <3> QED
      BY <1>1, <3>2, <3>3, <3>4, <3>5 DEF JoinInv, BeforeThreads, Working, ThreadsJoined
  <2> QED
    BY <1>2, <2>1, <2>2
<1>8. WorkersInv'
  BY <1>1, <1>2 DEF WorkersInv
<1>9. LogInv'
  BY <1>1, <1>2, <1>3 DEF LogInv, Logs
<1>10. BroadcastInv'
  BY <1>1, <1>2 DEF BroadcastInv, Alive
<1>11. CauseInv'
  BY <1>1, <1>2 DEF CauseInv
<1>12. ServeInv'
  BY <1>1, <1>4 DEF ServeInv
<1> QED
  BY <1>5, <1>6, <1>7, <1>8, <1>9, <1>10, <1>11, <1>12

LEMMA JoinKeepsInv ==
    ASSUME LifeInv, JoinThread
    PROVE  LifeInv'
<1> USE DEF LifeInv
<1>1. /\ pc = "join_threads"
      /\ UNCHANGED <<launch, config, ips, joining, outbound, failed, told, workers>>
      /\ UNCHANGED <<finish, threads, handles, server, loggers, closing, late>>
  BY DEF JoinThread, startVars, walletVars, handshakeVars, allPeersVars, peersVars, serverVars, logVars
<1>2. \/ place > Len(joining) /\ pc' = "stop" /\ place' = place
      \/ /\ place <= Len(joining) /\ threads[joining[place]].at = "ended"
         /\ place' = place + 1 /\ pc' = "join_threads"
      \/ /\ place <= Len(joining) /\ threads[joining[place]].at = "panicked"
         /\ pc' = "err" /\ place' = place
  BY <1>1 DEF JoinThread
<1>3. /\ place \in Nat \ {0} /\ DOMAIN joining = 1 .. Len(joining) /\ Len(joining) \in Nat
      /\ DOMAIN threads = 1 .. Len(threads) /\ Len(threads) \in Nat
  BY DEF TypeInv
<1>4. /\ Len(joining) <= Len(threads)
      /\ \A k \in DOMAIN joining : joining[k] = k /\ (k < place => threads[k].at = "ended")
      /\ \A i \in DOMAIN threads : i > Len(joining) /\ Alive(i) => threads[i].at = "top"
  BY <1>1 DEF JoinInv
<1>5. finish /\ server.at # "none" /\ ~server.stop /\ closing = {}
  BY <1>1 DEF PhaseInv, Closing
<1>6. \A l \in Logs : loggers[l] # "ended"
  BY <1>1, LoggersRun DEF Returned, Closing
<1>7. Served' = Served
  BY <1>1 DEF Served
<1>8. place' \in Nat \ {0}
  BY <1>2, <1>3
<1>9. TypeInv'
  BY <1>1, <1>2, <1>8 DEF TypeInv, ThreadsJoined
<1>10. PhaseInv'
  BY <1>1, <1>2, <1>5 DEF PhaseInv, BeforeThreads, Working, ThreadsJoined, Closing
<1>11. JoinInv'
  <2>1. CASE place > Len(joining) /\ pc' = "stop"
    <3>1. \A i \in DOMAIN threads : i > Len(joining) \/ (i \in DOMAIN joining /\ i < place)
      BY <1>3, <2>1
    <3>2. \A i \in DOMAIN threads : Alive(i) => threads[i].at = "top"
      BY <1>4, <3>1 DEF Alive
    <3> QED
      BY <1>1, <2>1, <3>2 DEF JoinInv, BeforeThreads, Working, Alive
  <2>2. CASE /\ place <= Len(joining) /\ threads[joining[place]].at = "ended"
             /\ place' = place + 1 /\ pc' = "join_threads"
    <3>1. place \in DOMAIN joining
      BY <1>3, <2>2
    <3>2. \A k \in DOMAIN joining : k < place + 1 => k < place \/ k = place
      BY <1>3
    <3>3. \A k \in DOMAIN joining : k < place + 1 => threads[k].at = "ended"
      BY <1>4, <2>2, <3>1, <3>2
    <3> QED
      BY <1>1, <1>4, <2>2, <3>3 DEF JoinInv, BeforeThreads, Working, ThreadsJoined, Alive
  <2>3. CASE pc' = "err"
    BY <2>3 DEF JoinInv, BeforeThreads, Working, ThreadsJoined
  <2> QED
    BY <1>2, <2>1, <2>2, <2>3
<1>12. WorkersInv'
  BY <1>1, <1>2 DEF WorkersInv
<1>13. LogInv'
  BY <1>1, <1>2, <1>6 DEF LogInv, Logs
<1>14. BroadcastInv'
  BY <1>1, <1>2 DEF BroadcastInv, Alive
<1>15. CauseInv'
  <2>1. ASSUME pc' = "err" PROVE \E i \in DOMAIN threads : threads[i].at = "panicked"
    <3>1. place \in DOMAIN joining /\ threads[joining[place]].at = "panicked"
      BY <1>2, <1>3, <2>1
    <3>2. joining[place] = place /\ place \in DOMAIN threads
      BY <1>3, <1>4, <3>1
    <3> QED
      BY <3>1, <3>2
  <2> QED
    BY <1>1, <2>1 DEF CauseInv
<1>16. ServeInv'
  BY <1>1, <1>7 DEF ServeInv
<1> QED
  BY <1>9, <1>10, <1>11, <1>12, <1>13, <1>14, <1>15, <1>16

LEMMA StopKeepsInv ==
    ASSUME LifeInv, StopServer \/ JoinServer
    PROVE  LifeInv'
<1> USE DEF LifeInv
<1>1. /\ UNCHANGED <<launch, config, ips, joining, outbound, failed, told, workers>>
      /\ UNCHANGED <<finish, threads, handles, loggers, closing, late>>
  BY DEF StopServer, JoinServer, startVars, loopVars, walletVars, handshakeVars, allPeersVars, peersVars,
         serverVars, logVars
<1>2. \/ pc = "stop" /\ ServerAlive /\ pc' = "join_server" /\ place' = place
           /\ server' = [server EXCEPT !.stop = TRUE]
      \/ pc = "stop" /\ ~ServerAlive /\ pc' = "err" /\ place' = place /\ server' = server
      \/ pc = "join_server" /\ ~ServerAlive /\ place' = 1 /\ server' = server
           /\ pc' = IF server.at = "ok" THEN "close" ELSE "err"
  BY DEF StopServer, JoinServer, loopVars, allPeersVars, serverVars
<1>3. /\ DOMAIN server = {"at", "amount", "stop"} /\ server.at \in ServerPlaces /\ place \in Nat \ {0}
      /\ server.at # "none" /\ finish /\ closing = {} /\ (pc = "stop" => ~server.stop)
  BY <1>2 DEF TypeInv, PhaseInv, Working, ThreadsJoined, Closing
<1>4. /\ DOMAIN server' = {"at", "amount", "stop"} /\ server'.at = server.at
      /\ server'.amount = server.amount
      /\ server'.stop = server.stop \/ pc' = "join_server"
  BY <1>2, <1>3
<1>5. pc \in {"stop", "join_server"} /\ pc' \in {"join_server", "close", "err"}
  BY <1>2
<1>6. \A l \in Logs : loggers[l] # "ended"
  BY <1>5, LoggersRun DEF Returned, Closing
<1>7. Served' = Served
  BY <1>1 DEF Served
<1>8. TypeInv'
  BY <1>1, <1>2, <1>3, <1>4 DEF TypeInv, ThreadsJoined
<1>9. PhaseInv'
  BY <1>1, <1>2, <1>3, <1>4 DEF PhaseInv, BeforeThreads, Working, ThreadsJoined, Closing, ServerAlive
<1>10. JoinInv'
  BY <1>1, <1>5 DEF JoinInv, BeforeThreads, Working, ThreadsJoined, Alive
<1>11. WorkersInv'
  BY <1>1, <1>5 DEF WorkersInv
<1>12. LogInv'
  <2>1. pc' = "close" => place' = 1
    BY <1>2
  <2>2. \A k \in 1 .. 3 : ~(k < 1)
    OBVIOUS
  <2> QED
    BY <1>1, <1>5, <1>6, <2>1, <2>2 DEF LogInv, Logs
<1>13. BroadcastInv'
  BY <1>1, <1>5 DEF BroadcastInv, Alive
<1>14. CauseInv'
  <2>1. ASSUME pc' = "err"
        PROVE  \/ server.at \in {"err", "panicked"}
               \/ server.at = "ok" /\ server.amount > config["MAX_CONNECTIONS"]
    BY <1>2, <1>3, <2>1 DEF CauseInv, ServerAlive, ServerPlaces
  <2>2. server'.at = "ok" /\ ~server'.stop => server.amount > config["MAX_CONNECTIONS"]
    BY <1>2, <1>3, <1>4 DEF CauseInv, ServerAlive
  <2> QED
    BY <1>1, <1>4, <2>1, <2>2 DEF CauseInv
<1>15. ServeInv'
  BY <1>1, <1>3, <1>4, <1>7 DEF ServeInv
<1> QED
  BY <1>8, <1>9, <1>10, <1>11, <1>12, <1>13, <1>14, <1>15

LEMMA CloseKeepsInv ==
    ASSUME LifeInv, CloseLogger
    PROVE  LifeInv'
<1> USE DEF LifeInv
<1>1. /\ UNCHANGED <<launch, config, ips, joining, outbound, failed, told, workers>>
      /\ UNCHANGED <<finish, threads, handles, server, loggers, late>>
  BY DEF CloseLogger, SendClosingLine, startVars, walletVars, handshakeVars, peersVars, serverVars, logVars
<1>2. \/ pc = "close" /\ pc' = "join_logger" /\ closing' = closing \cup {LogAt} /\ place' = place
      \/ pc = "join_logger" /\ loggers[LogAt] = "ended" /\ place = 3 /\ pc' = "ok"
           /\ UNCHANGED <<place, closing>>
      \/ pc = "join_logger" /\ loggers[LogAt] = "ended" /\ place # 3 /\ pc' = "close"
           /\ place' = place + 1 /\ UNCHANGED closing
  BY DEF CloseLogger, SendClosingLine, logVars
<1>3. LogAt = LogNames[place] /\ place \in 1 .. 3
  BY <1>2 DEF LogAt, LogNames, LogInv
<1>4. LogNames[1] = "info" /\ LogNames[2] = "error" /\ LogNames[3] = "message"
  BY DEF LogNames
<1>5. LogAt \in Logs
  BY <1>3, <1>4 DEF Logs
<1>6. Served' = Served
  BY <1>1 DEF Served
<1>7. place' \in Nat \ {0} /\ closing' \in SUBSET Logs
  BY <1>2, <1>3, <1>5 DEF TypeInv
<1>8. TypeInv'
  BY <1>1, <1>2, <1>7 DEF TypeInv, ThreadsJoined
<1>9. PhaseInv'
  BY <1>1, <1>2 DEF PhaseInv, BeforeThreads, Working, ThreadsJoined, Closing, ServerAlive
<1>10. JoinInv'
  BY <1>1, <1>2 DEF JoinInv, BeforeThreads, Working, ThreadsJoined, Alive
<1>11. WorkersInv'
  BY <1>1, <1>2 DEF WorkersInv
<1>12. LogInv'
  <2>1. /\ \A k \in 1 .. 3 : k < place => loggers[LogNames[k]] = "ended" /\ LogNames[k] \in closing
        /\ pc = "join_logger" => LogNames[place] \in closing
    BY <1>2 DEF LogInv
  <2>2. closing \subseteq closing' /\ (pc' = "ok" => closing # {})
    BY <1>2, <2>1
  <2>3. ASSUME NEW l \in Logs, loggers[l] = "ended"
        PROVE  AllEnded' /\ closing' # {}
    <3>1. AllEnded /\ (Returned \/ closing # {})
      BY <2>3 DEF LogInv
    <3>2. ~Returned
      BY <1>2 DEF Returned
    <3> QED
      BY <1>1, <2>2, <3>1, <3>2 DEF AllEnded, Alive, ServerAlive
  <2>4. CASE pc = "close"
    BY <1>1, <1>2, <1>3, <2>1, <2>3, <2>4 DEF LogInv
  <2>5. CASE pc = "join_logger" /\ place = 3
    <3>1. \A l \in Logs : loggers[l] = "ended" /\ l \in closing
      BY <1>2, <1>3, <1>4, <2>1, <2>5 DEF Logs
    <3> QED
      BY <1>1, <1>2, <2>3, <2>5, <3>1 DEF LogInv
  <2>6. CASE pc = "join_logger" /\ place # 3
    <3>1. place + 1 \in 1 .. 3 /\ \A k \in 1 .. 3 : k < place + 1 => k < place \/ k = place
      BY <1>3, <2>6
    <3>2. \A k \in 1 .. 3 : k < place + 1 => loggers[LogNames[k]] = "ended" /\ LogNames[k] \in closing
      BY <1>2, <1>3, <2>1, <2>6, <3>1
    <3>3. pc' = "close" /\ place' = place + 1 /\ closing' = closing
      BY <1>2, <2>6
    <3> QED
      BY <1>1, <2>3, <3>1, <3>2, <3>3 DEF LogInv
  <2> QED
    BY <1>2, <2>4, <2>5, <2>6
<1>13. BroadcastInv'
  BY <1>1, <1>2 DEF BroadcastInv, Alive
<1>14. CauseInv'
  BY <1>1, <1>2 DEF CauseInv
<1>15. ServeInv'
  BY <1>1, <1>6 DEF ServeInv
<1> QED
  BY <1>8, <1>9, <1>10, <1>11, <1>12, <1>13, <1>14, <1>15

--------------------------------------------------------------------------------
(***************************************************************************)
(* The settings of an accepted file.                                       *)
(***************************************************************************)
\* There are as many settings as check_number_of_attributes wants.
LEMMA SettingsCount == IsFiniteSet(Settings) /\ Cardinality(Settings) = AMOUNT_OF_ATTRIBUTES
<1> DEFINE names == <<"NUMBER_OF_NODES", "N_THREADS", "CONNECT_TIMEOUT", "BLOCKS_DOWNLOAD_PER_NODE",
                      "AMOUNT_OF_HEADERS_TO_STORE_IN_DISK", "HEIGHT_FIRST_BLOCK_TO_DOWNLOAD",
                      "START_STRING", "PROTOCOL_VERSION",
                      "CONNECT_TO_DNS_NODES", "READ_HEADERS_FROM_DISK", "DOWNLOAD_FULL_BLOCKCHAIN_FROM_SINGLE_NODE",
                      "DNS_SEED", "CUSTOM_NODES_IPS", "USER_AGENT", "ERROR_LOG_PATH", "INFO_LOG_PATH",
                      "MESSAGE_LOG_PATH", "DATE_FIRST_BLOCK_TO_DOWNLOAD", "DATE_FORMAT", "HEADERS_FILE",
                      "LOGS_FOLDER", "NET_PORT", "MAX_CONNECTIONS">>
<1>1. DOMAIN names = 1 .. 23
  OBVIOUS
<1>2. \A s \in Settings : \E i \in 1 .. 23 : names[i] = s
  BY DEF Settings, Unsigned, Signed, Bools, Texts
<1>3. \A i \in 1 .. 23 : names[i] \in Settings
  BY DEF Settings, Unsigned, Signed, Bools, Texts
<1>4. \A i, j \in 1 .. 23 : names[i] = names[j] => i = j
  OBVIOUS
<1>5. names = [i \in 1 .. 23 |-> names[i]]
  OBVIOUS
<1> HIDE DEF names
<1>6. names \in [1 .. 23 -> Settings]
  BY <1>1, <1>3, <1>5
<1>7. names \in Bijection(1 .. 23, Settings)
  BY <1>2, <1>4, <1>6 DEF Bijection, Injection, Surjection, IsInjective
<1>8. IsFiniteSet(1 .. 23) /\ Cardinality(1 .. 23) = 23
  <2>1. 1 \in Int /\ 23 \in Int /\ ~(1 > 23) /\ 23 - 1 + 1 = 23
    OBVIOUS
  <2>2. \A b \in Int : ~(1 > b) => IsFiniteSet(1 .. b) /\ Cardinality(1 .. b) = b - 1 + 1
    BY FS_Interval
  <2> QED
    BY <2>1, <2>2
<1> QED
  BY <1>7, <1>8, FS_Bijection DEF ExistsBijection, AMOUNT_OF_ATTRIBUTES

\* The lines among the first n that are settings, and what one of them sets.
Taken(lines, n) == {i \in 1 .. n : ~lines[i].comment}
NameOf(line) == line.fields[1]

\* As long as no line was refused, every line taken was counted, and every
\* setting has the value of its line, or the default one.
Read(lines, n) ==
    LET r == ReadLines(lines)[n]
        taken == Taken(lines, n)
    IN  r.ok => /\ IsFiniteSet(taken) /\ r.loaded = Cardinality(taken)
                /\ \A i \in taken : NameOf(lines[i]) \in Settings
                /\ (\A i, j \in taken : NameOf(lines[i]) = NameOf(lines[j]) => i = j)
                   => /\ \A i \in taken : r.config[NameOf(lines[i])] = lines[i].fields[2].v
                      /\ \A s \in Settings : (\A i \in taken : NameOf(lines[i]) # s) => r.config[s] = Default[s]

\* One line more: from_reader refuses it, skips it or takes its setting.
LEMMA ReadLineTakes ==
    ASSUME NEW lines, Len(lines) \in Nat, NEW n \in 0 .. (Len(lines) - 1),
           ReadOK(ReadLines(lines)[n]), Read(lines, n)
    PROVE  Read(lines, n + 1)
<1> DEFINE r == ReadLines(lines)[n]
           line == lines[n + 1]
           name == NameOf(line)
           value == line.fields[2]
           next == ReadLine(r, line)
           taken == Taken(lines, n)
           taken1 == Taken(lines, n + 1)
           Distinct(t) == \A i, j \in t : NameOf(lines[i]) = NameOf(lines[j]) => i = j
<1>1. ReadLines(lines)[n + 1] = next
  <2>1. n + 1 \in 1 .. Len(lines) /\ (n + 1) - 1 = n
    OBVIOUS
  <2> QED
    BY <2>1, ReadLinesDef
<1>2. SUFFICES ASSUME next.ok
               PROVE  /\ IsFiniteSet(taken1) /\ next.loaded = Cardinality(taken1)
                      /\ \A i \in taken1 : NameOf(lines[i]) \in Settings
                      /\ Distinct(taken1)
                         => /\ \A i \in taken1 : next.config[NameOf(lines[i])] = lines[i].fields[2].v
                            /\ \A s \in Settings : (\A i \in taken1 : NameOf(lines[i]) # s) => next.config[s] = Default[s]
  BY <1>1 DEF Read
<1>3. /\ DOMAIN r = {"ok", "loaded", "config"} /\ DOMAIN r.config = Settings
      /\ DOMAIN [r EXCEPT !.ok = FALSE] = {"ok", "loaded", "config"}
  BY DEF ReadOK
<1>4. ~([r EXCEPT !.ok = FALSE].ok)
  BY <1>3
<1>5. /\ r.ok
      /\ \/ line.comment /\ next = r
         \/ /\ ~line.comment /\ name \in Settings /\ Parses(name, value)
            /\ next = load_setting(r, name, value)
  <2>1. r.ok
    BY <1>2 DEF ReadLine
  <2>2. CASE line.comment
    BY <2>1, <2>2 DEF ReadLine
  <2>3. CASE ~line.comment
    BY <1>2, <1>4, <2>1, <2>3 DEF ReadLine, load_setting, NameOf
  <2> QED
    BY <2>1, <2>2, <2>3
<1>6. /\ IsFiniteSet(taken) /\ r.loaded = Cardinality(taken)
      /\ \A i \in taken : NameOf(lines[i]) \in Settings
      /\ Distinct(taken)
         => /\ \A i \in taken : r.config[NameOf(lines[i])] = lines[i].fields[2].v
            /\ \A s \in Settings : (\A i \in taken : NameOf(lines[i]) # s) => r.config[s] = Default[s]
  BY <1>5 DEF Read
<1>7. CASE line.comment /\ next = r
  <2>1. taken1 = taken
    BY <1>7 DEF Taken
  <2> QED
    BY <1>6, <1>7, <2>1
<1>8. CASE ~line.comment /\ name \in Settings /\ Parses(name, value) /\ next = load_setting(r, name, value)
  <2>1. taken1 = taken \cup {n + 1} /\ n + 1 \notin taken
    BY <1>8 DEF Taken
  <2>2. IsFiniteSet(taken1) /\ Cardinality(taken1) = Cardinality(taken) + 1
    BY <1>6, <2>1, FS_AddElement
  <2> DEFINE c == IF name = "CUSTOM_NODES_IPS" /\ value.v = <<>>
                  THEN r.config ELSE [r.config EXCEPT ![name] = value.v]
  <2>3. next.loaded = r.loaded + 1 /\ next.config = c
    BY <1>3, <1>8 DEF load_setting
  <2>4. \A s \in Settings \ {name} : c[s] = r.config[s]
    BY <1>3
  <2>5. c[name] = value.v \/ (name = "CUSTOM_NODES_IPS" /\ value.v = <<>> /\ c[name] = r.config[name])
    BY <1>3, <1>8
  <2> HIDE DEF c
  <2>6. ASSUME Distinct(taken1)
        PROVE  /\ \A i \in taken1 : next.config[NameOf(lines[i])] = lines[i].fields[2].v
               /\ \A s \in Settings : (\A i \in taken1 : NameOf(lines[i]) # s) => next.config[s] = Default[s]
    <3>1. Distinct(taken) /\ \A i \in taken : NameOf(lines[i]) # name
      BY <2>1, <2>6
    <3>2. /\ \A i \in taken : r.config[NameOf(lines[i])] = lines[i].fields[2].v
          /\ \A s \in Settings : (\A i \in taken : NameOf(lines[i]) # s) => r.config[s] = Default[s]
      BY <1>6, <3>1
    <3>3. \A i \in taken : c[NameOf(lines[i])] = lines[i].fields[2].v
      BY <1>6, <2>4, <3>1, <3>2
    <3>4. c[name] = value.v
      <4>1. "CUSTOM_NODES_IPS" \in Texts
        BY DEF Texts
      <4>2. name = "CUSTOM_NODES_IPS" => r.config[name] = <<>>
        BY <1>8, <3>1, <3>2, <4>1 DEF Default
      <4> QED
        BY <2>5, <4>2
    <3>5. \A s \in Settings : (\A i \in taken1 : NameOf(lines[i]) # s) => c[s] = Default[s]
      BY <2>1, <2>4, <3>2
    <3> QED
      BY <2>1, <2>3, <3>3, <3>4, <3>5
  <2>7. \A i \in taken1 : NameOf(lines[i]) \in Settings
    BY <1>6, <1>8, <2>1
  <2> QED
    BY <1>6, <2>2, <2>3, <2>6, <2>7
<1> QED
  BY <1>5, <1>7, <1>8

\* In a file that from_reader accepts, without a repeated setting, every
\* setting has its line.
LEMMA AcceptedFile ==
    ASSUME NEW f \in DOMAIN Files, NEW argc, from(argc, Files[f]).ok,
           \A i, j \in {k \in DOMAIN Files[f].lines : ~Files[f].lines[k].comment} :
              NameOf(Files[f].lines[i]) = NameOf(Files[f].lines[j]) => i = j
    PROVE  \A s \in Settings : \E i \in DOMAIN Files[f].lines :
              /\ ~Files[f].lines[i].comment /\ NameOf(Files[f].lines[i]) = s
              /\ from(argc, Files[f]).config[s] = Files[f].lines[i].fields[2].v
<1> DEFINE lines == Files[f].lines
           N == Len(lines)
           r == ReadLines(lines)[N]
           taken == Taken(lines, N)
<1>1. lines \in Seq(ToSet(lines)) /\ \A line \in ToSet(lines) :
         Len(line.fields) = 2 /\ line.fields[1] = "CUSTOM_NODES_IPS" => line.fields[2].v \in Seq(STRING)
  BY LifecycleAssumption
<1>2. r.ok /\ check_number_of_attributes(r.loaded) /\ from(argc, Files[f]).config = r.config
  BY DEF from, from_reader
<1>3. \A i, j \in {k \in DOMAIN lines : ~lines[k].comment} : NameOf(lines[i]) = NameOf(lines[j]) => i = j
  OBVIOUS
<1> SUFFICES \A s \in Settings : \E i \in DOMAIN lines :
                /\ ~lines[i].comment /\ NameOf(lines[i]) = s /\ r.config[s] = lines[i].fields[2].v
  BY <1>2
<1> HIDE DEF lines
<1>4. /\ N \in Nat /\ DOMAIN lines = 1 .. N
      /\ \A n \in 1 .. N : lines[n] \in ToSet(lines)
  BY <1>1
<1>5. /\ ReadLines(lines)[0] = NothingRead
      /\ \A n \in 1 .. N : ReadLines(lines)[n] = ReadLine(ReadLines(lines)[n - 1], lines[n])
  BY <1>4, ReadLinesDef
<1> DEFINE G == {n \in 0 .. N : ReadOK(ReadLines(lines)[n]) /\ Read(lines, n)}
<1>6. 0 \in G
  <2>1. Taken(lines, 0) = {}
    BY DEF Taken
  <2>2. NothingRead.loaded = 0 /\ NothingRead.config = Default
    BY DEF NothingRead
  <2>3. Read(lines, 0)
    BY <1>5, <2>1, <2>2, FS_EmptySet DEF Read
  <2> QED
    BY <1>4, <1>5, <2>3, DefaultOK
<1>7. ASSUME NEW n \in 0 .. (N - 1), n \in G PROVE n + 1 \in G
  <2>1. n + 1 \in 1 .. N /\ n + 1 \in 0 .. N /\ (n + 1) - 1 = n
    BY <1>4
  <2>2. ReadLines(lines)[n + 1] = ReadLine(ReadLines(lines)[n], lines[n + 1])
    BY <1>5, <2>1
  <2>3. ReadOK(ReadLines(lines)[n + 1])
    BY <1>1, <1>4, <1>7, <2>1, <2>2, LineKeepsTypes
  <2>4. Read(lines, n + 1)
    BY <1>4, <1>7, ReadLineTakes
  <2> QED
    BY <2>1, <2>3, <2>4
<1>8. Read(lines, N)
  <2> HIDE DEF G, N
  <2>1. 0 .. N \subseteq G
    BY <1>4, <1>6, <1>7, UpTo
  <2> QED
    BY <1>4, <2>1 DEF G
<1>9. taken = {k \in DOMAIN lines : ~lines[k].comment}
  BY <1>4 DEF Taken
<1>10. /\ IsFiniteSet(taken) /\ r.loaded = Cardinality(taken)
       /\ \A i \in taken : NameOf(lines[i]) \in Settings
       /\ \A i \in taken : r.config[NameOf(lines[i])] = lines[i].fields[2].v
  BY <1>2, <1>3, <1>8, <1>9 DEF Read
<1> DEFINE name == [i \in taken |-> NameOf(lines[i])]
<1>11. Cardinality(taken) = Cardinality(Settings)
  BY <1>2, <1>10, SettingsCount DEF check_number_of_attributes
<1>12. name \in Injection(taken, Settings)
  BY <1>3, <1>9, <1>10 DEF Injection, IsInjective
<1>13. name \in Surjection(taken, Settings)
  <2> HIDE DEF name, taken
  <2> QED
    BY <1>11, <1>12, SettingsCount, FS_Injection
<1>14. \A s \in Settings : \E i \in taken : NameOf(lines[i]) = s
  BY <1>13 DEF Surjection
<1> QED
  BY <1>9, <1>10, <1>14

--------------------------------------------------------------------------------
(***************************************************************************)
(* The parts of the list of nodes.                                         *)
(***************************************************************************)
\* Division rounds down.
LEMMA DivisionRoundsDown ==
    ASSUME NEW a \in Nat, NEW d \in Nat \ {0}
    PROVE  /\ a \div d \in Nat
           /\ d * (a \div d) <= a
           /\ a < d * (a \div d) + d
BY Z3

\* Division rounded up.
LEMMA DivisionUp ==
    ASSUME NEW a \in Nat \ {0}, NEW d \in Nat \ {0}
    PROVE  /\ (a + d - 1) \div d \in Nat \ {0}
           /\ a <= d * ((a + d - 1) \div d)
           /\ d * ((a + d - 1) \div d) < a + d
<1> DEFINE n == a + d - 1
           q == n \div d
           m == d * q
<1>1. n \in Nat
  OBVIOUS
<1>2. q \in Nat /\ m <= n /\ n < m + d
  BY <1>1, DivisionRoundsDown
<1>3. m \in Nat
  BY <1>2
<1>4. q # 0
  <2>1. d * 0 = 0
    OBVIOUS
  <2>2. m # 0
    <3> HIDE DEF m
    <3> QED
      BY <1>2, <1>3
  <2> QED
    BY <2>1, <2>2
<1> HIDE DEF m
<1>5. a <= m /\ m < a + d
  BY <1>2, <1>3
<1> QED
  BY <1>2, <1>4, <1>5 DEF m

\* The nodes of thread i are those of the list from From(i) + 1 to To(i).
ChunkSize == (Len(ips) + config["N_THREADS"] - 1) \div config["N_THREADS"]
From(i) == ChunkSize * (i - 1)
To(i) == IF ChunkSize * i > Len(ips) THEN Len(ips) ELSE ChunkSize * i
Parts == (Len(ips) + ChunkSize - 1) \div ChunkSize
Nonempty == ips # <<>> /\ config["N_THREADS"] \in Nat \ {0} /\ ips \in Seq(Ips)

\* The parts are not empty, one behind the other, and together the list.
LEMMA PartsCover ==
    ASSUME Nonempty
    PROVE  /\ Len(ips) \in Nat \ {0} /\ Parts \in 1 .. config["N_THREADS"]
           /\ \A i \in 1 .. Parts : From(i) \in Nat /\ To(i) \in Nat /\ From(i) < To(i) /\ To(i) <= Len(ips)
           /\ \A i, j \in 1 .. Parts : i < j => To(i) <= From(j)
           /\ \A h \in 1 .. Len(ips) : \E i \in 1 .. Parts : From(i) < h /\ h <= To(i)
<1> DEFINE L == Len(ips)
           n == config["N_THREADS"]
           c == ChunkSize
           K == Parts
<1>1. L \in Nat \ {0} /\ n \in Nat \ {0}
  BY DEF Nonempty
<1>2. c \in Nat \ {0} /\ L <= n * c /\ n * c < L + n
  BY <1>1, DivisionUp DEF ChunkSize
<1>3. K \in Nat \ {0} /\ L <= c * K /\ c * K < L + c
  <2>1. K = (L + c - 1) \div c
    BY DEF Parts
  <2> HIDE DEF K, c, L
  <2> QED
    BY <1>1, <1>2, <2>1, DivisionUp
<1>4. \A i : From(i) = c * (i - 1) /\ To(i) = IF c * i > L THEN L ELSE c * i
  BY DEF From, To
<1> HIDE DEF L, n, c, K
<1>5. K <= n
  <2> SUFFICES ASSUME K > n PROVE FALSE
    BY <1>1, <1>3
  <2>1. c * n <= c * (K - 1)
    BY <1>1, <1>2, <1>3
  <2>2. c * (K - 1) = c * K - c
    BY <1>2, <1>3
  <2> QED
    BY <1>1, <1>2, <1>3, <2>1, <2>2
<1>6. ASSUME NEW i \in 1 .. K
      PROVE  /\ c * (i - 1) \in Nat
             /\ c * i = c * (i - 1) + c
             /\ c * (i - 1) < L
  <2>1. i \in Nat /\ 1 <= i /\ i <= K
    BY <1>3
  <2>2. c * (i - 1) <= c * (K - 1)
    BY <1>2, <1>3, <2>1
  <2>3. c * (K - 1) = c * K - c
    BY <1>2, <1>3
  <2>4. c * (i - 1) \in Nat /\ c * i = c * (i - 1) + c
    BY <1>2, <2>1
  <2> QED
    BY <1>1, <1>2, <1>3, <2>2, <2>3, <2>4
<1>7. ASSUME NEW i \in 1 .. K
      PROVE  From(i) \in Nat /\ To(i) \in Nat /\ From(i) < To(i) /\ To(i) <= L /\ To(i) <= c * i
  <2> DEFINE x == c * (i - 1)
  <2>1. x \in Nat /\ x < L /\ c * i = x + c /\ From(i) = x /\ To(i) = IF c * i > L THEN L ELSE c * i
    BY <1>4, <1>6
  <2> HIDE DEF x
  <2> QED
    BY <1>1, <1>2, <2>1
<1>8. ASSUME NEW i \in 1 .. K, NEW j \in 1 .. K, i < j PROVE To(i) <= From(j)
  <2>1. i <= j - 1 /\ i \in Nat /\ j - 1 \in Nat
    BY <1>3, <1>8
  <2>2. c * i <= c * (j - 1)
    BY <1>2, <2>1
  <2>3. c * i \in Nat /\ c * (j - 1) \in Nat
    BY <1>2, <2>1
  <2>4. To(i) <= c * i /\ To(i) \in Nat
    BY <1>7
  <2>5. From(j) = c * (j - 1)
    BY <1>4
  <2> QED
    BY <2>2, <2>3, <2>4, <2>5
<1>9. ASSUME NEW h \in 1 .. L PROVE \E i \in 1 .. K : From(i) < h /\ h <= To(i)
  <2> DEFINE q == (h - 1) \div c
             y == c * q
  <2>1. h \in Int /\ 1 <= h /\ h <= L /\ h - 1 \in Nat
    BY <1>1
  <2>2. q \in Nat /\ y <= h - 1 /\ h - 1 < y + c
    BY <1>2, <2>1, DivisionRoundsDown
  <2>3. y \in Nat
    BY <1>2, <2>2
  <2>4. c * ((q + 1) - 1) = y /\ c * (q + 1) = y + c
    BY <1>2, <2>2
  <2>5. q + 1 <= K
    <3> SUFFICES ASSUME K <= q PROVE FALSE
      BY <1>3, <2>2
    <3>1. c * K <= y
      BY <1>2, <1>3, <2>2
    <3>2. c * K \in Nat
      BY <1>2, <1>3
    <3> HIDE DEF y
    <3> QED
      BY <1>1, <1>3, <2>1, <2>2, <2>3, <3>1, <3>2
  <2>6. q + 1 \in 1 .. K
    BY <1>3, <2>2, <2>5
  <2>7. From(q + 1) = y /\ To(q + 1) = IF y + c > L THEN L ELSE y + c
    BY <1>4, <2>4
  <2> HIDE DEF q, y
  <2>8. From(q + 1) < h /\ h <= To(q + 1)
    BY <1>1, <1>2, <2>1, <2>2, <2>3, <2>7
  <2> QED
    BY <2>6, <2>8
<1> QED
  BY <1>1, <1>3, <1>5, <1>7, <1>8, <1>9 DEF L, n, K

\* What handshake_with_nodes gives each thread.
LEMMA Spawned ==
    ASSUME Nonempty, SpawnWorkers(ips, config["N_THREADS"])
    PROVE  /\ sockets' = <<>> /\ peers' = peers
           /\ DOMAIN workers' = 1 .. Parts
           /\ \A i \in 1 .. Parts :
                /\ workers'[i].st = "running" /\ workers'[i].nodes \in Seq(Ips)
                /\ Len(workers'[i].nodes) = To(i) - From(i)
                /\ \A k \in 1 .. (To(i) - From(i)) : workers'[i].nodes[k] = ips[From(i) + k]
<1> DEFINE n == config["N_THREADS"]
           chunks == Chunks(ips, n)
           amount == IF Len(chunks) < n THEN Len(chunks) ELSE n
<1>0. Nonempty /\ n # 0
  BY DEF Nonempty
<1>1. chunks = [i \in 1 .. Parts |-> SubSeq(ips, From(i) + 1, To(i))]
  BY <1>0 DEF Chunks, Parts, ChunkSize, From, To
<1>2. /\ Len(ips) \in Nat \ {0} /\ Parts \in 1 .. n
      /\ \A i \in 1 .. Parts : From(i) \in Nat /\ To(i) \in Nat /\ From(i) < To(i) /\ To(i) <= Len(ips)
  BY PartsCover
<1>3. sockets' = <<>> /\ peers' = peers /\ workers' = [i \in 1 .. amount |-> [nodes |-> chunks[i], st |-> "running"]]
  BY DEF SpawnWorkers
<1>4. n \in Nat
  BY DEF Nonempty
<1> HIDE DEF n, chunks
<1>5. Len(chunks) = Parts
  BY <1>1, <1>2, <1>4
<1>6. amount = Parts
  BY <1>2, <1>4, <1>5
<1> HIDE DEF amount
<1>7. \A from_1, to \in Nat : from_1 < to /\ to <= Len(ips) =>
         /\ SubSeq(ips, from_1 + 1, to) \in Seq(Ips)
         /\ Len(SubSeq(ips, from_1 + 1, to)) = to - from_1
         /\ \A k \in 1 .. (to - from_1) : SubSeq(ips, from_1 + 1, to)[k] = ips[from_1 + k]
  <2>1. ips \in Seq(Ips)
    BY DEF Nonempty
  <2> QED
    BY <2>1
<1>8. ASSUME NEW i \in 1 .. Parts
      PROVE  /\ workers'[i].st = "running" /\ workers'[i].nodes \in Seq(Ips)
             /\ Len(workers'[i].nodes) = To(i) - From(i)
             /\ \A k \in 1 .. (To(i) - From(i)) : workers'[i].nodes[k] = ips[From(i) + k]
  <2> DEFINE a == From(i)
             b == To(i)
             part == SubSeq(ips, a + 1, b)
  <2>1. workers'[i].st = "running" /\ workers'[i].nodes = part
    BY <1>1, <1>3, <1>6
  <2>2. a \in Nat /\ b \in Nat /\ a < b /\ b <= Len(ips)
    BY <1>2
  <2> HIDE DEF a, b
  <2>3. /\ part \in Seq(Ips) /\ Len(part) = b - a
        /\ \A k \in 1 .. (b - a) : part[k] = ips[a + k]
    BY <1>7, <2>2
  <2> HIDE DEF part
  <2>4. /\ workers'[i].nodes \in Seq(Ips) /\ Len(workers'[i].nodes) = b - a
        /\ \A k \in 1 .. (b - a) : workers'[i].nodes[k] = ips[a + k]
    BY <2>1, <2>3
  <2> QED
    BY <2>1, <2>4 DEF a, b
<1> QED
  BY <1>3, <1>6, <1>8

--------------------------------------------------------------------------------
(***************************************************************************)
(* The threads of the handshake.                                           *)
(***************************************************************************)
\* The places of the list that its thread is done with: each thread has a rest.
Tried == {h \in 1 .. Len(ips) : \E i \in DOMAIN workers : From(i) < h /\ h <= To(i) - Len(workers[i].nodes)}

\* Each thread has the end of its part left; the nodes it is done with have
\* answered or failed, all of them if it returned an error.
PartsInv ==
    /\ Nonempty
    /\ DOMAIN workers = 1 .. Parts
    /\ \A i \in 1 .. Parts :
         LET w == workers[i]
         IN  /\ Len(w.nodes) <= To(i) - From(i)
             /\ \A k \in 1 .. Len(w.nodes) : w.nodes[k] = ips[(To(i) - Len(w.nodes)) + k]
             /\ w.st # "running" => w.nodes = <<>>
             /\ w.st = "err" => \A h \in 1 .. Len(ips) : From(i) < h /\ h <= To(i) => peers[ips[h]] = "down"
    /\ \A h \in Tried : peers[ips[h]] # "silent"

\* The list of connections has those of the nodes tried, each as often as it
\* was given.
SocketsInv ==
    /\ sockets \in Seq(Ips)
    /\ \A h \in Tried : peers[ips[h]] = "up" => sockets # <<>>
    /\ \A i \in DOMAIN workers : workers[i].st = "ok" => sockets # <<>>
    /\ \A ip \in Ips : Count(sockets, ip) = IF peers[ip] = "up" THEN Cardinality({h \in Tried : ips[h] = ip}) ELSE 0

\* The list of connections still is what the threads pushed to.
Connecting == pc \in {"join_workers", "download"} \/ \E i \in DOMAIN workers : workers[i].st = "running"

\* The threads of the handshake have parts of the list, and the connections
\* are known until initial_block_download gets them.
HandshakeInv ==
    /\ peers \in [Ips -> {"up", "down", "silent"}]
    /\ pc \in BeforeThreads \ {"join_workers", "download"} => workers = <<>>
    /\ pc \in {"join_workers", "download"} /\ config["N_THREADS"] > 0 => workers # <<>>
    /\ pc = "download" => \A i \in DOMAIN workers : workers[i].st = "ok"
    /\ workers # <<>> => PartsInv /\ (Connecting => SocketsInv)

\* The settings are those of the file until they are used.
ConfigInv == pc = "loggers" => \E argc : from(argc, Files[launch.file]).ok /\ config = from(argc, Files[launch.file]).config

\* How often an element is in a list, when one is appended.
LEMMA CountFacts ==
    ASSUME NEW s, IsList(s), NEW x
    PROVE  /\ Count(s, x) \in Nat
           /\ Count(<<>>, x) = 0
           /\ \A e : Count(Append(s, e), x) = IF e = x THEN Count(s, x) + 1 ELSE Count(s, x)
<1> DEFINE N == Len(s)
           T == {i \in DOMAIN s : s[i] = x}
<1>1. N \in Nat /\ DOMAIN s = 1 .. N
  BY DEF IsList
<1>2. IsFiniteSet(T) /\ Cardinality(T) \in Nat
  <2>1. T \subseteq Nat /\ \A i \in T : i <= N
    BY <1>1
  <2> HIDE DEF T, N
  <2>2. IsFiniteSet(T)
    BY <1>1, <2>1, FS_BoundedSetOfNaturals
  <2> QED
    BY <2>2, FS_CardinalityType
<1>3. Count(s, x) = Cardinality(T)
  BY DEF Count
<1>4. Count(<<>>, x) = 0
  <2>1. {i \in DOMAIN <<>> : <<>>[i] = x} = {}
    OBVIOUS
  <2> QED
    BY <2>1, FS_EmptySet DEF Count
<1>5. ASSUME NEW e PROVE Count(Append(s, e), x) = IF e = x THEN Count(s, x) + 1 ELSE Count(s, x)
  <2> DEFINE t == Append(s, e)
  <2>1. DOMAIN t = 1 .. (N + 1) /\ t[N + 1] = e /\ \A i \in 1 .. N : t[i] = s[i]
    BY ListAppend DEF IsList
  <2> HIDE DEF t
  <2>2. {i \in DOMAIN t : t[i] = x} = IF e = x THEN T \cup {N + 1} ELSE T
    BY <1>1, <2>1
  <2>3. N + 1 \notin T
    BY <1>1
  <2>4. Cardinality(T \cup {N + 1}) = Cardinality(T) + 1
    BY <1>2, <2>3, FS_AddElement
  <2> QED
    BY <1>3, <2>2, <2>4 DEF Count, t
<1> QED
  BY <1>2, <1>3, <1>4, <1>5

\* Part of a list's places is a finite set.
LEMMA PlacesFinite ==
    ASSUME NEW T, NEW N \in Nat, T \subseteq 1 .. N
    PROVE  IsFiniteSet(T) /\ Cardinality(T) \in Nat
<1>1. IsFiniteSet(1 .. N)
  BY FS_Interval
<1> QED
  BY <1>1, FS_Subset, FS_CardinalityType

\* connect_to_nodes has tried one more node.
LEMMA TriedMore ==
    ASSUME workers \in Seq(WorkerStates), PartsInv, NEW i \in DOMAIN workers, workers[i].nodes # <<>>,
           UNCHANGED <<ips, config>>, DOMAIN workers' = DOMAIN workers,
           \A j \in DOMAIN workers \ {i} : workers'[j] = workers[j],
           workers'[i].nodes = Tail(workers[i].nodes)
    PROVE  \E h \in 1 .. Len(ips) :
              /\ h \notin Tried /\ Tried' = Tried \cup {h} /\ Head(workers[i].nodes) = ips[h]
              /\ \A k \in 1 .. Len(workers'[i].nodes) :
                    workers'[i].nodes[k] = ips[(To(i) - Len(workers'[i].nodes)) + k]
              /\ Len(workers'[i].nodes) <= To(i) - From(i)
<1> DEFINE L == Len(ips)
           q == workers[i].nodes
           m == Len(q)
           h == (To(i) - m) + 1
<1>1. /\ Nonempty /\ DOMAIN workers = 1 .. Parts /\ i \in 1 .. Parts
      /\ m <= To(i) - From(i)
      /\ \A k \in 1 .. m : q[k] = ips[(To(i) - m) + k]
  BY DEF PartsInv
<1>2. /\ L \in Nat /\ Parts \in Nat
      /\ \A j \in 1 .. Parts : From(j) \in Nat /\ To(j) \in Nat /\ From(j) < To(j) /\ To(j) <= L
      /\ \A j, k \in 1 .. Parts : j < k => To(j) <= From(k)
  <2>1. config["N_THREADS"] \in Nat
    BY <1>1 DEF Nonempty
  <2>2. /\ L \in Nat /\ Parts \in 1 .. config["N_THREADS"]
        /\ \A j \in 1 .. Parts : From(j) \in Nat /\ To(j) \in Nat /\ From(j) < To(j) /\ To(j) <= L
        /\ \A j, k \in 1 .. Parts : j < k => To(j) <= From(k)
    BY <1>1, PartsCover
  <2>3. Parts \in Nat
    BY <2>1, <2>2
  <2> QED
    BY <2>2, <2>3
<1>a. \A j \in DOMAIN workers : workers[j].nodes \in Seq(Ips) /\ Len(workers[j].nodes) \in Nat
  <2> SUFFICES ASSUME NEW j \in DOMAIN workers PROVE workers[j].nodes \in Seq(Ips) /\ Len(workers[j].nodes) \in Nat
    OBVIOUS
  <2>1. workers[j] \in WorkerStates
    OBVIOUS
  <2>2. workers[j].nodes \in Seq(Ips)
    BY <2>1 DEF WorkerStates
  <2> QED
    BY <2>2
<1>b. q \in Seq(Ips) /\ q # <<>>
  BY <1>a
<1>3. m \in Nat \ {0} /\ Head(q) = q[1] /\ Len(Tail(q)) = m - 1 /\ \A k \in 1 .. (m - 1) : Tail(q)[k] = q[k + 1]
  <2> HIDE DEF q
  <2> QED
    BY <1>b
<1>4. /\ \A j : From(j)' = From(j) /\ To(j)' = To(j)
      /\ ips' = ips
  BY DEF From, To, ChunkSize
<1> HIDE DEF L, q, m
<1>5. h \in 1 .. L /\ From(i) < h /\ h <= To(i)
  BY <1>1, <1>2, <1>3
<1>6. Head(q) = ips[h]
  <2>1. 1 \in 1 .. m
    BY <1>3
  <2> QED
    BY <1>1, <1>3, <2>1
<1>7. h \notin Tried
  <2> SUFFICES ASSUME NEW j \in DOMAIN workers, From(j) < h, h <= To(j) - Len(workers[j].nodes) PROVE FALSE
    BY DEF Tried
  <2>1. CASE j = i
    BY <1>1, <1>2, <1>3, <2>1 DEF m, q
  <2>2. CASE j # i
    <3>1. j \in 1 .. Parts /\ From(j) \in Nat /\ To(j) \in Nat
      BY <1>1, <1>2
    <3>3. h <= To(j)
      <4>1. Len(workers[j].nodes) \in Nat
        BY <1>a, <3>1
      <4> DEFINE l == Len(workers[j].nodes)
      <4> HIDE DEF l
      <4>2. l \in Nat /\ h <= To(j) - l /\ h \in Int /\ To(j) \in Int
        BY <1>5, <3>1, <4>1 DEF l
      <4> QED
        BY <4>2
    <3>4. CASE j < i
      BY <1>1, <1>2, <1>5, <3>1, <3>3, <3>4
    <3>5. CASE i < j
      BY <1>1, <1>2, <1>5, <3>1, <3>5
    <3> QED
      BY <1>1, <1>2, <2>2, <3>1, <3>4, <3>5
  <2> QED
    BY <2>1, <2>2
<1>8. ASSUME NEW g \in 1 .. L PROVE g \in Tried' <=> g \in Tried \/ g = h
  <2>1. Len(workers'[i].nodes) = m - 1
    BY <1>3 DEF q
  <2>2. g \in Tried' <=> \E j \in DOMAIN workers : From(j) < g /\ g <= To(j) - Len(workers'[j].nodes)
    BY <1>4 DEF Tried, L
  <2>3. g \in Tried <=> \E j \in DOMAIN workers : From(j) < g /\ g <= To(j) - Len(workers[j].nodes)
    BY DEF Tried, L
  <2>4. \A j \in DOMAIN workers \ {i} : Len(workers'[j].nodes) = Len(workers[j].nodes)
    OBVIOUS
  <2>5. /\ From(i) < h /\ h = (To(i) - (m - 1))
        /\ g <= To(i) - (m - 1) <=> g <= To(i) - m \/ g = h
    <3> DEFINE t == To(i)
    <3>1. t \in Nat /\ m \in Nat /\ h = (t - m) + 1 /\ From(i) < h /\ g \in Nat
      BY <1>1, <1>2, <1>3, <1>5
    <3> HIDE DEF t, h
    <3>2. h = t - (m - 1) /\ (g <= t - (m - 1) <=> g <= t - m \/ g = h)
      BY <3>1
    <3> QED
      BY <3>1, <3>2 DEF t
  <2>6. Len(workers[i].nodes) = m
    BY DEF m, q
  <2> HIDE DEF h
  <2> QED
    BY <2>1, <2>2, <2>3, <2>4, <2>5, <2>6
<1>9. Tried' = Tried \cup {h}
  <2>1. Tried \subseteq 1 .. L /\ Tried' \subseteq 1 .. L
    BY <1>4 DEF Tried, L
  <2> HIDE DEF h
  <2> QED
    BY <1>5, <1>8, <2>1
<1>10. ASSUME NEW k \in 1 .. (m - 1) PROVE Tail(q)[k] = ips[(To(i) - (m - 1)) + k]
  <2> DEFINE t == To(i)
  <2>1. t \in Nat /\ m \in Nat
    BY <1>1, <1>2, <1>3
  <2>2. \A g \in 1 .. m : q[g] = ips[(t - m) + g]
    BY <1>1
  <2> HIDE DEF t
  <2>3. k + 1 \in 1 .. m /\ (t - m) + (k + 1) = (t - (m - 1)) + k
    BY <2>1
  <2>4. Tail(q)[k] = ips[(t - (m - 1)) + k]
    BY <1>3, <2>2, <2>3
  <2> QED
    BY <2>4 DEF t
<1>11. m - 1 <= To(i) - From(i)
  BY <1>1, <1>2, <1>3
<1>12. workers'[i].nodes = Tail(q) /\ Len(workers'[i].nodes) = m - 1
  BY <1>3 DEF q
<1> HIDE DEF h
<1> QED
  BY <1>5, <1>6, <1>7, <1>9, <1>10, <1>11, <1>12 DEF L, q

\* Before handshake_with_nodes.
EarlyPhases == BeforeThreads \ {"join_workers", "download"}

\* Before the handshake there are no threads.
LEMMA NoWorkersYet ==
    ASSUME HandshakeInv, workers' = <<>>, peers' = peers, pc' \notin {"join_workers", "download"}
    PROVE  HandshakeInv'
BY DEF HandshakeInv

\* Steps that only move run_node.
LEMMA SameHandshake ==
    ASSUME HandshakeInv, UNCHANGED <<ips, config, peers, workers>>,
           Connecting' => Connecting /\ sockets' = sockets,
           pc' \in EarlyPhases => pc \in EarlyPhases,
           pc' \in {"join_workers", "download"} => pc \in {"join_workers", "download"},
           pc' = "download" => \A i \in DOMAIN workers : workers[i].st = "ok"
    PROVE  HandshakeInv'
<1>1. /\ \A i : From(i)' = From(i) /\ To(i)' = To(i)
      /\ Parts' = Parts
  BY DEF From, To, Parts, ChunkSize
<1>2. Tried' = Tried
  BY <1>1 DEF Tried
<1>3. PartsInv => PartsInv'
  BY <1>1, <1>2 DEF PartsInv, Nonempty
<1>4. SocketsInv /\ Connecting' => SocketsInv'
  <2> SUFFICES ASSUME SocketsInv, Connecting' PROVE SocketsInv'
    OBVIOUS
  <2>1. sockets' = sockets
    OBVIOUS
  <2> QED
    BY <1>2, <2>1 DEF SocketsInv, Count
<1> QED
  BY <1>3, <1>4 DEF HandshakeInv, EarlyPhases

\* handshake_with_nodes gives its threads their parts.
LEMMA SpawnHandshake ==
    ASSUME LifeInv, HandshakeInv, ips # <<>>, SpawnWorkers(ips, config["N_THREADS"]),
           UNCHANGED <<ips, config>>, pc' = "join_workers"
    PROVE  HandshakeInv'
<1>1. ips \in Seq(Ips) /\ config["N_THREADS"] \in Nat
  BY DEF LifeInv, TypeInv, ConfigOK
<1>2. CASE config["N_THREADS"] = 0
  <2> DEFINE L == Len(ips)
  <2>1. L \in Nat \ {0}
    BY <1>1
  <2>2. (L + L - 1) \div L \in Nat
    <3>1. L + L - 1 \in Nat
      BY <2>1
    <3> QED
      BY <2>1, <3>1, DivisionRoundsDown
  <2>3. Len(Chunks(ips, 0)) = (L + L - 1) \div L
    <3>1. DOMAIN Chunks(ips, 0) = 1 .. ((L + L - 1) \div L)
      BY DEF Chunks
    <3>2. Chunks(ips, 0) \in Seq(Range(Chunks(ips, 0)))
      <4> DEFINE K == (L + L - 1) \div L
      <4>1. Chunks(ips, 0) = [i \in 1 .. K |-> Chunks(ips, 0)[i]]
        BY DEF Chunks
      <4> HIDE DEF K
      <4> QED
        BY <2>2, <4>1 DEF Range, K
    <3> HIDE DEF L
    <3> QED
      BY <2>2, <3>1, <3>2
  <2>4. workers' = <<>>
    <3> DEFINE chunks == Chunks(ips, 0)
               amount == IF Len(chunks) < 0 THEN Len(chunks) ELSE 0
    <3>1. workers' = [i \in 1 .. amount |-> [nodes |-> chunks[i], st |-> "running"]]
      BY <1>2 DEF SpawnWorkers
    <3>2. amount = 0
      BY <2>2, <2>3
    <3> HIDE DEF amount, chunks
    <3> QED
      BY <3>1, <3>2
  <2>5. peers' = peers
    BY DEF SpawnWorkers
  <2> QED
    BY <1>2, <2>4, <2>5 DEF HandshakeInv, BeforeThreads
<1>3. CASE config["N_THREADS"] # 0
  <2>1. Nonempty
    BY <1>1, <1>3 DEF Nonempty
  <2>2. /\ sockets' = <<>> /\ peers' = peers
        /\ DOMAIN workers' = 1 .. Parts
        /\ \A i \in 1 .. Parts :
             /\ workers'[i].st = "running" /\ workers'[i].nodes \in Seq(Ips)
             /\ Len(workers'[i].nodes) = To(i) - From(i)
             /\ \A k \in 1 .. (To(i) - From(i)) : workers'[i].nodes[k] = ips[From(i) + k]
    BY <2>1, Spawned
  <2>3. /\ Parts \in 1 .. config["N_THREADS"]
        /\ \A i \in 1 .. Parts : From(i) \in Nat /\ To(i) \in Nat /\ From(i) < To(i) /\ To(i) <= Len(ips)
    BY <2>1, PartsCover
  <2>4. /\ \A i : From(i)' = From(i) /\ To(i)' = To(i)
        /\ Parts' = Parts
    BY DEF From, To, Parts, ChunkSize
  <2>5. \A i \in 1 .. Parts : To(i) - Len(workers'[i].nodes) = From(i)
    BY <2>2, <2>3
  <2>6. Tried' = {}
    BY <2>2, <2>3, <2>4, <2>5 DEF Tried
  <2>7. PartsInv'
    <3>1. ASSUME NEW i \in 1 .. Parts
          PROVE  /\ Len(workers'[i].nodes) <= To(i) - From(i)
                 /\ \A k \in 1 .. Len(workers'[i].nodes) :
                      workers'[i].nodes[k] = ips[(To(i) - Len(workers'[i].nodes)) + k]
                 /\ workers'[i].st = "running"
      <4> DEFINE w == workers'[i].nodes
                 f == From(i)
                 t == To(i)
      <4>1. /\ Len(w) = t - f /\ workers'[i].st = "running" /\ f \in Nat /\ t \in Nat
            /\ \A k \in 1 .. (t - f) : w[k] = ips[f + k]
        BY <2>2, <2>3
      <4> HIDE DEF w, f, t
      <4>2. t - Len(w) = f /\ Len(w) <= t - f
        BY <4>1
      <4>3. \A k \in 1 .. Len(w) : w[k] = ips[(t - Len(w)) + k]
        BY <4>1, <4>2
      <4> QED
        BY <4>1, <4>2, <4>3 DEF w, f, t
    <3>2. Nonempty'
      BY <2>1 DEF Nonempty
    <3> QED
      BY <2>2, <2>4, <2>6, <3>1, <3>2 DEF PartsInv
  <2>8. SocketsInv'
    <3>1. \A x : Count(<<>>, x) = 0
      <4>1. IsList(<<>>)
        BY DEF IsList
      <4> QED
        BY <4>1, CountFacts
    <3>2. \A ip : {h \in Tried' : ips'[h] = ip} = {}
      BY <2>6
    <3>3. \A i \in DOMAIN workers' : workers'[i].st # "ok"
      BY <2>2
    <3>4. sockets' \in Seq(Ips)
      BY <2>2
    <3>5. \A ip : Count(sockets', ip) = 0
      BY <2>2, <3>1
    <3> QED
      BY <2>6, <3>2, <3>3, <3>4, <3>5, FS_EmptySet DEF SocketsInv, Count
  <2>9. workers' # <<>>
    <3>1. 1 \in DOMAIN workers'
      BY <1>1, <2>2, <2>3
    <3> QED
      BY <3>1
  <2> QED
    BY <2>2, <2>7, <2>8, <2>9 DEF HandshakeInv, BeforeThreads
<1> QED
  BY <1>2, <1>3

\* A node more, tried by one of the threads.
LEMMA ConnectHandshake ==
    ASSUME workers \in Seq(WorkerStates), HandshakeInv, NEW i \in DOMAIN workers, ConnectToNode(i),
           UNCHANGED <<pc, ips, config>>
    PROVE  HandshakeInv'
<1> DEFINE node == Head(workers[i].nodes)
<1>1. /\ workers[i].st = "running" /\ workers[i].nodes # <<>> /\ peers' = peers
      /\ peers[node] # "silent"
      /\ sockets' = IF peers[node] = "up" THEN Append(sockets, node) ELSE sockets
      /\ workers' = [workers EXCEPT ![i].nodes = Tail(@)]
  BY DEF ConnectToNode
<1>2. workers # <<>> /\ Connecting
  BY <1>1 DEF Connecting
<1>3. PartsInv /\ SocketsInv /\ peers \in [Ips -> {"up", "down", "silent"}]
  BY <1>2 DEF HandshakeInv
<1>4. /\ DOMAIN workers' = DOMAIN workers
      /\ \A j \in DOMAIN workers \ {i} : workers'[j] = workers[j]
  <2>1. WorkerStep(i)
    BY DEF WorkerStep
  <2> QED
    BY <2>1, WorkerMoves
<1>5. workers'[i].nodes = Tail(workers[i].nodes) /\ workers'[i].st = "running"
  <2>1. workers[i] \in WorkerStates
    OBVIOUS
  <2>2. DOMAIN workers[i] = {"nodes", "st"}
    BY <2>1 DEF WorkerStates
  <2>3. workers'[i] = [workers[i] EXCEPT !.nodes = Tail(@)]
    BY <1>1
  <2> QED
    BY <1>1, <2>2, <2>3
<1>6. PICK h \in 1 .. Len(ips) :
         /\ h \notin Tried /\ Tried' = Tried \cup {h} /\ node = ips[h]
         /\ \A k \in 1 .. Len(workers'[i].nodes) :
               workers'[i].nodes[k] = ips[(To(i) - Len(workers'[i].nodes)) + k]
         /\ Len(workers'[i].nodes) <= To(i) - From(i)
  BY <1>1, <1>3, <1>4, <1>5, TriedMore
<1> HIDE DEF node
<1>7. /\ \A j : From(j)' = From(j) /\ To(j)' = To(j)
      /\ Parts' = Parts /\ ips' = ips
  BY DEF From, To, Parts, ChunkSize
<1>8. ips \in Seq(Ips) /\ Len(ips) \in Nat /\ \A g \in 1 .. Len(ips) : ips[g] \in Ips
  BY <1>3 DEF PartsInv, Nonempty
<1>9. PartsInv'
  <2>1. Nonempty'
    BY <1>3, <1>7 DEF PartsInv, Nonempty
  <2>2. \A g \in Tried' : peers'[ips'[g]] # "silent"
    BY <1>1, <1>3, <1>6, <1>7 DEF PartsInv
  <2>3. ASSUME NEW j \in 1 .. Parts
        PROVE  /\ Len(workers'[j].nodes) <= To(j) - From(j)
               /\ \A k \in 1 .. Len(workers'[j].nodes) :
                    workers'[j].nodes[k] = ips[(To(j) - Len(workers'[j].nodes)) + k]
               /\ workers'[j].st # "running" => workers'[j].nodes = <<>>
               /\ workers'[j].st = "err" => \A g \in 1 .. Len(ips) : From(j) < g /\ g <= To(j) => peers[ips[g]] = "down"
    <3>1. j \in DOMAIN workers
      BY <1>3 DEF PartsInv
    <3>2. CASE j = i
      BY <1>5, <1>6, <3>2
    <3>3. CASE j # i
      <4>1. workers'[j] = workers[j]
        BY <1>4, <3>1, <3>3
      <4> QED
        BY <1>3, <4>1 DEF PartsInv
    <3> QED
      BY <3>2, <3>3
  <2>4. DOMAIN workers' = 1 .. Parts
    BY <1>3, <1>4 DEF PartsInv
  <2> QED
    BY <1>1, <1>7, <2>1, <2>2, <2>3, <2>4 DEF PartsInv
<1>10. node \in Ips
  BY <1>6, <1>8
<1>11. /\ sockets' \in Seq(Ips)
       /\ sockets # <<>> \/ peers[node] = "up" => sockets' # <<>>
       /\ \A ip : Count(sockets', ip) = IF peers[node] = "up" /\ ip = node THEN Count(sockets, ip) + 1 ELSE Count(sockets, ip)
  <2>1. sockets \in Seq(Ips) /\ IsList(sockets)
    BY <1>3, ListIs DEF SocketsInv
  <2>2. Append(sockets, node) \in Seq(Ips) /\ Append(sockets, node) # <<>>
    <3>1. \A s \in Seq(Ips), e \in Ips : Append(s, e) \in Seq(Ips)
      OBVIOUS
    <3>2. Len(Append(sockets, node)) = Len(sockets) + 1 /\ Len(sockets) \in Nat
      BY <2>1, ListAppend
    <3>3. Len(<<>>) = 0
      OBVIOUS
    <3>4. Len(Append(sockets, node)) # 0
      BY <3>2
    <3> QED
      BY <1>10, <2>1, <3>1, <3>3, <3>4
  <2>3. \A x, e : Count(Append(sockets, e), x) = IF e = x THEN Count(sockets, x) + 1 ELSE Count(sockets, x)
    BY <2>1, CountFacts
  <2> QED
    BY <1>1, <2>1, <2>2, <2>3
<1>12. SocketsInv'
  <2>1. \A g \in Tried' : peers[ips[g]] = "up" => sockets' # <<>>
    BY <1>3, <1>6, <1>11 DEF SocketsInv
  <2>2. \A j \in DOMAIN workers' : workers'[j].st = "ok" => sockets' # <<>>
    BY <1>3, <1>4, <1>5, <1>11 DEF SocketsInv
  <2>3. ASSUME NEW ip \in Ips
        PROVE  Count(sockets', ip) = IF peers[ip] = "up" THEN Cardinality({g \in Tried' : ips[g] = ip}) ELSE 0
    <3> DEFINE T == {g \in Tried : ips[g] = ip}
    <3>1. Count(sockets, ip) = IF peers[ip] = "up" THEN Cardinality(T) ELSE 0
      BY <1>3 DEF SocketsInv
    <3>2. {g \in Tried' : ips[g] = ip} = IF node = ip THEN T \cup {h} ELSE T
      BY <1>6
    <3>3. h \notin T
      BY <1>6
    <3>4. IsFiniteSet(T)
      <4>1. T \subseteq 1 .. Len(ips)
        BY DEF Tried
      <4> HIDE DEF T
      <4> QED
        BY <1>8, <4>1, PlacesFinite
    <3>5. Cardinality(T \cup {h}) = Cardinality(T) + 1
      BY <3>3, <3>4, FS_AddElement
    <3> HIDE DEF T
    <3> QED
      BY <1>11, <3>1, <3>2, <3>5
  <2> QED
    BY <1>1, <1>7, <1>11, <2>1, <2>2, <2>3 DEF SocketsInv
<1>13. /\ workers' # <<>>
       /\ pc \notin EarlyPhases /\ pc # "download"
  <2>1. workers' # <<>>
    BY <1>4
  <2> QED
    BY <1>1, <1>2, <2>1 DEF HandshakeInv, EarlyPhases
<1> QED
  BY <1>1, <1>3, <1>9, <1>12, <1>13 DEF HandshakeInv, EarlyPhases

\* A thread that has tried its nodes, and finds no connection in the list of
\* all threads, has found none of its own.
LEMMA TestHandshake ==
    ASSUME workers \in Seq(WorkerStates), HandshakeInv, NEW i \in DOMAIN workers, TestSockets(i),
           UNCHANGED <<pc, ips, config>>
    PROVE  HandshakeInv'
<1>1. /\ workers[i].st = "running" /\ workers[i].nodes = <<>> /\ peers' = peers /\ sockets' = sockets
      /\ workers' = [workers EXCEPT ![i].st = IF sockets = <<>> THEN "err" ELSE "ok"]
  BY DEF TestSockets
<1>2. workers # <<>> /\ Connecting
  BY <1>1 DEF Connecting
<1>3. PartsInv /\ SocketsInv /\ peers \in [Ips -> {"up", "down", "silent"}]
  BY <1>2 DEF HandshakeInv
<1>4. /\ DOMAIN workers' = DOMAIN workers
      /\ \A j \in DOMAIN workers \ {i} : workers'[j] = workers[j]
  <2>1. WorkerStep(i)
    BY DEF WorkerStep
  <2> QED
    BY <2>1, WorkerMoves
<1>5. workers'[i].nodes = <<>> /\ workers'[i].st = IF sockets = <<>> THEN "err" ELSE "ok"
  <2>1. workers[i] \in WorkerStates
    OBVIOUS
  <2>2. DOMAIN workers[i] = {"nodes", "st"}
    BY <2>1 DEF WorkerStates
  <2>3. workers'[i] = [workers[i] EXCEPT !.st = IF sockets = <<>> THEN "err" ELSE "ok"]
    BY <1>1
  <2> QED
    BY <1>1, <2>2, <2>3
<1>6. \A j \in DOMAIN workers : workers'[j].nodes = workers[j].nodes
  BY <1>1, <1>4, <1>5
<1>7. /\ \A j : From(j)' = From(j) /\ To(j)' = To(j)
      /\ Parts' = Parts /\ ips' = ips
  BY DEF From, To, Parts, ChunkSize
<1>8. Tried' = Tried
  BY <1>4, <1>6, <1>7 DEF Tried
<1>9. \A g \in 1 .. Len(ips) : ips[g] \in Ips
  BY <1>3 DEF PartsInv, Nonempty
<1>10. ASSUME sockets = <<>>, NEW g \in 1 .. Len(ips), From(i) < g, g <= To(i)
       PROVE  peers[ips[g]] = "down"
  <2>1. To(i) \in Nat
    BY <1>3, PartsCover DEF PartsInv
  <2>2. g \in Tried
    BY <1>1, <1>10, <2>1 DEF Tried
  <2> QED
    BY <1>3, <1>9, <1>10, <2>2 DEF PartsInv, SocketsInv
<1>11. PartsInv'
  <2>1. Nonempty'
    BY <1>3, <1>7 DEF PartsInv, Nonempty
  <2>2. ASSUME NEW j \in 1 .. Parts
        PROVE  /\ Len(workers'[j].nodes) <= To(j) - From(j)
               /\ \A k \in 1 .. Len(workers'[j].nodes) :
                    workers'[j].nodes[k] = ips[(To(j) - Len(workers'[j].nodes)) + k]
               /\ workers'[j].st # "running" => workers'[j].nodes = <<>>
               /\ workers'[j].st = "err" => \A g \in 1 .. Len(ips) : From(j) < g /\ g <= To(j) => peers[ips[g]] = "down"
    <3>1. j \in DOMAIN workers
      BY <1>3 DEF PartsInv
    <3>2. workers'[j].nodes = workers[j].nodes
      BY <1>6, <3>1
    <3>3. CASE j = i
      BY <1>3, <1>5, <1>10, <3>2, <3>3 DEF PartsInv
    <3>4. CASE j # i
      <4>1. workers'[j] = workers[j]
        BY <1>4, <3>1, <3>4
      <4> QED
        BY <1>3, <4>1 DEF PartsInv
    <3> QED
      BY <3>3, <3>4
  <2>3. DOMAIN workers' = 1 .. Parts
    BY <1>3, <1>4 DEF PartsInv
  <2> QED
    BY <1>1, <1>3, <1>7, <1>8, <2>1, <2>2, <2>3 DEF PartsInv
<1>12. SocketsInv'
  <2>1. \A j \in DOMAIN workers' : workers'[j].st = "ok" => sockets # <<>>
    BY <1>3, <1>4, <1>5 DEF SocketsInv
  <2> QED
    BY <1>1, <1>3, <1>7, <1>8, <2>1 DEF SocketsInv, Count
<1>13. /\ workers' # <<>>
       /\ pc \notin EarlyPhases /\ pc # "download"
  <2>1. workers' # <<>>
    BY <1>4
  <2> QED
    BY <1>1, <1>2, <2>1 DEF HandshakeInv, EarlyPhases
<1> QED
  BY <1>1, <1>3, <1>11, <1>12, <1>13 DEF HandshakeInv, EarlyPhases

--------------------------------------------------------------------------------
(***************************************************************************)
(* The theorems.                                                           *)
(***************************************************************************)
LEMMA LifeInit == Init => LifeInv
<1> SUFFICES ASSUME Init PROVE LifeInv
  OBVIOUS
<1>1. /\ pc \in {"config", "button"} /\ launch \in Launches /\ config = Default /\ ips = <<>> /\ place = 1
      /\ joining = <<>> /\ outbound = 0 /\ failed = 0 /\ told = "none" /\ workers = <<>>
      /\ finish = FALSE /\ threads = <<>> /\ handles = <<>>
      /\ server = [at |-> "none", amount |-> 0, stop |-> FALSE]
      /\ loggers = [l \in Logs |-> "off"] /\ closing = {} /\ late = {}
  BY DEF Init, PeersInit, LogInit
<1>2. /\ DOMAIN server = {"at", "amount", "stop"} /\ server.at = "none" /\ server.amount = 0
      /\ server.stop = FALSE
  BY <1>1
<1>3. TypeInv
  BY <1>1, <1>2, DefaultOK DEF TypeInv, BeforeThreads, ServerPlaces
<1>4. PhaseInv
  BY <1>1, <1>2 DEF PhaseInv, BeforeThreads, Working, ThreadsJoined, Closing
<1>5. JoinInv
  BY <1>1 DEF JoinInv, ThreadsJoined
<1>6. WorkersInv
  BY <1>1 DEF WorkersInv
<1>7. LogInv
  BY <1>1 DEF LogInv
<1>8. BroadcastInv
  BY <1>1 DEF BroadcastInv
<1>9. CauseInv
  BY <1>1, <1>2 DEF CauseInv
<1>10. ServeInv
  <2>1. Served = {}
    BY <1>1 DEF Served
  <2>2. Cardinality(Served) = 0
    BY <2>1, FS_EmptySet
  <2>3. config["MAX_CONNECTIONS"] \in Nat
    BY <1>3, ConfigAssumption DEF TypeInv, ConfigOK
  <2> QED
    BY <1>2, <2>1, <2>2, <2>3 DEF ServeInv
<1> QED
  BY <1>3, <1>4, <1>5, <1>6, <1>7, <1>8, <1>9, <1>10 DEF LifeInv

LEMMA LifeStep == LifeInv /\ [Next]_vars => LifeInv'
<1> SUFFICES ASSUME LifeInv, [Next]_vars PROVE LifeInv'
  OBVIOUS
<1>1. CASE Start \/ ReadConfig \/ SetUpLoggers \/ GetActiveNodes
  BY <1>1, StartKeepsInv
<1>2. CASE StartHandshake \/ JoinWorker
  BY <1>2, ConnectKeepsInv
<1>3. CASE DownloadAndListen
  BY <1>3, DownloadKeepsInv
<1>4. CASE StartServer
  BY <1>4, ServerStartKeepsInv
<1>5. CASE BroadcastTx \/ BroadcastEnds \/ StopServing
  BY <1>5, ServingKeepsInv
<1>6. CASE WriteToNode
  BY <1>6, WriteKeepsInv
<1>7. CASE Finish
  BY <1>7, FinishKeepsInv
<1>8. CASE JoinThread
  BY <1>8, JoinKeepsInv
<1>9. CASE StopServer \/ JoinServer
  BY <1>9, StopKeepsInv
<1>10. CASE CloseLogger
  BY <1>10, CloseKeepsInv
<1>11. CASE WorkerSteps
  BY <1>11, WorkerKeepsInv
<1>12. CASE (\E i \in DOMAIN threads : ThreadSteps(i)) \/ PeerSteps
  BY <1>12, ThreadKeepsInv DEF ThreadSteps, PeerSteps
<1>13. CASE ServerSteps \/ IncomingSteps
  BY <1>13, ServerStepsKeepInv, HandshakeKeepsInv DEF ServerSteps, IncomingSteps
<1>14. CASE LoggerSteps
  BY <1>14, LoggerKeepsInv
<1>15. CASE ShowMainWindow \/ CloseMainWindow \/ UNCHANGED vars
  <2>1. UNCHANGED <<pc, launch, config, ips, loopVars, walletVars, handshakeVars, allPeersVars>>
    BY <1>15 DEF ShowMainWindow, CloseMainWindow, vars, startVars
  <2> QED
    BY <2>1, SameKeepsInv
<1> QED
  BY <1>1, <1>2, <1>3, <1>4, <1>5, <1>6, <1>7, <1>8, <1>9, <1>10, <1>11, <1>12, <1>13, <1>14, <1>15
     DEF Next, Main, User

LEMMA Life == Spec => []LifeInv
BY LifeInit, LifeStep, PTL DEF Spec

\* By how much the server misses its limit, for every limit below the largest
\* number of its counter and every order of connections, messages and faults:
\* NodeServer::listen serves at most one connection more than MAX_CONNECTIONS.
THEOREM OneTooManyAtMost ==
    Spec => [](config["MAX_CONNECTIONS"] < MaxU8 => Cardinality(Served) <= config["MAX_CONNECTIONS"] + 1)
<1>1. LifeInv => (config["MAX_CONNECTIONS"] < MaxU8 => Cardinality(Served) <= config["MAX_CONNECTIONS"] + 1)
  BY DEF LifeInv, ServeInv
<1> QED
  BY <1>1, Life, PTL

\* After finish has returned Ok no thread of a node reads or handles a message,
\* also one that add_connection pushed after the handles had been taken; when
\* run_node returns Ok every thread has ended; and no line follows the closing
\* line of a log.
THEOREM ShutdownIsQuiet == Spec => []ShutdownQuiet
<1>1. LifeInv => ShutdownQuiet
  <2> SUFFICES ASSUME LifeInv PROVE ShutdownQuiet
    OBVIOUS
  <2>1. pc \in ThreadsJoined => \A i \in DOMAIN threads : Alive(i) => threads[i].at = "top"
    BY DEF LifeInv, JoinInv
  <2>2. late = {}
    BY DEF LifeInv, LogInv
  <2>3. ASSUME pc = "ok"
        PROVE  AllEnded /\ \A l \in Logs : loggers[l] = "ended" /\ l \in closing
    <3>1. \A l \in Logs : loggers[l] = "ended" /\ l \in closing
      BY <2>3 DEF LifeInv, LogInv
    <3>2. "info" \in Logs
      BY DEF Logs
    <3> QED
      BY <3>1, <3>2 DEF LifeInv, LogInv
  <2> QED
    BY <2>1, <2>2, <2>3 DEF ShutdownQuiet, AllEnded
<1> QED
  BY <1>1, Life, PTL

\* shut_down fails only for a thread that panicked, a server that failed or one
\* that had ended at its limit; broadcast_to_nodes fails only when the threads
\* of all nodes connected at start-up have ended.
THEOREM ErrorsHaveCauses == Spec => []ErrorsCaused
<1>1. LifeInv => ErrorsCaused
  BY DEF LifeInv, CauseInv, BroadcastInv, ErrorsCaused
<1> QED
  BY <1>1, Life, PTL

\* The start-up, on top of LifeInv.
StartupInv == HandshakeInv /\ ConfigInv

LEMMA StartupInit == Init => StartupInv
<1> SUFFICES ASSUME Init PROVE StartupInv
  OBVIOUS
<1>1. pc \in {"config", "button"} /\ workers = <<>> /\ peers \in Networks
  BY DEF Init
<1>2. peers \in [Ips -> {"up", "down", "silent"}]
  BY <1>1, LifecycleAssumption
<1> QED
  BY <1>1, <1>2 DEF StartupInv, HandshakeInv, ConfigInv, BeforeThreads

LEMMA StartupStep == LifeInv /\ StartupInv /\ [Next]_vars => StartupInv'
<1> SUFFICES ASSUME LifeInv, StartupInv, [Next]_vars PROVE StartupInv'
  OBVIOUS
<1> USE DEF StartupInv
<1>1. CASE Start \/ ReadConfig \/ SetUpLoggers \/ GetActiveNodes
  <2>1. /\ pc \in {"button", "config", "loggers", "seed"}
        /\ pc' \in {"config", "loggers", "err", "seed", "handshake"}
        /\ UNCHANGED <<peers, workers>>
    BY <1>1 DEF Start, ReadConfig, SetUpLoggers, GetActiveNodes, handshakeVars
  <2>2. workers' = <<>>
    BY <2>1 DEF HandshakeInv, BeforeThreads
  <2>3. HandshakeInv'
    BY <2>1, <2>2, NoWorkersYet
  <2>4. ConfigInv'
    <3> SUFFICES ASSUME pc' = "loggers"
                 PROVE  \E argc : from(argc, Files[launch'.file]).ok /\ config' = from(argc, Files[launch'.file]).config
      BY DEF ConfigInv
    <3>1. ReadConfig
      BY <1>1 DEF Start, SetUpLoggers, GetActiveNodes
    <3>2. /\ launch' = launch
          /\ \E argc : from(argc, Files[launch.file]).ok /\ config' = from(argc, Files[launch.file]).config
      BY <3>1 DEF ReadConfig
    <3> QED
      BY <3>2
  <2> QED
    BY <2>3, <2>4
<1>2. CASE StartHandshake
  <2>1. /\ pc = "handshake" /\ UNCHANGED <<ips, config>>
        /\ \/ pc' = "panicked" /\ UNCHANGED <<peers, workers>>
           \/ ips # <<>> /\ pc' = "join_workers" /\ SpawnWorkers(ips, config["N_THREADS"])
    BY <1>2 DEF StartHandshake, ChunksPanic, startVars, handshakeVars
  <2>2. workers = <<>>
    BY <2>1 DEF HandshakeInv, BeforeThreads
  <2>3. HandshakeInv'
    BY <2>1, <2>2, NoWorkersYet, SpawnHandshake
  <2> QED
    BY <2>1, <2>3 DEF ConfigInv
<1>3. CASE JoinWorker
  <2>1. /\ pc = "join_workers" /\ pc' \in {"join_workers", "download", "err"}
        /\ pc' = "download" => place > Len(workers)
        /\ UNCHANGED <<ips, config, peers, workers, sockets>>
    BY <1>3 DEF JoinWorker, startVars, handshakeVars
  <2>2. pc' = "download" => \A i \in DOMAIN workers : workers[i].st = "ok"
    <3>1. workers \in Seq(WorkerStates) /\ place \in Nat
      BY DEF LifeInv, TypeInv
    <3>2. \A i \in DOMAIN workers : i < place => workers[i].st = "ok"
      BY <2>1 DEF LifeInv, WorkersInv
    <3>3. place > Len(workers) => \A i \in DOMAIN workers : i < place
      BY <3>1
    <3> QED
      BY <2>1, <3>2, <3>3
  <2>3. Connecting' => Connecting
    BY <2>1 DEF Connecting
  <2>4. HandshakeInv'
    BY <2>1, <2>2, <2>3, SameHandshake DEF EarlyPhases, BeforeThreads
  <2> QED
    BY <2>1, <2>4 DEF ConfigInv
<1>4. CASE DownloadAndListen
  <2>1. /\ pc = "download" /\ pc' \in {"err", "panicked", "server"}
        /\ UNCHANGED <<ips, config, peers, workers>>
    BY <1>4 DEF DownloadAndListen, startVars
  <2>2. ~Connecting'
    BY <2>1 DEF Connecting, LifeInv, WorkersInv
  <2>3. HandshakeInv'
    BY <2>1, <2>2, SameHandshake DEF EarlyPhases, BeforeThreads
  <2> QED
    BY <2>1, <2>3 DEF ConfigInv
<1>5. CASE WorkerSteps
  <2>1. PICK i \in DOMAIN workers : WorkerStep(i)
    BY <1>5 DEF WorkerSteps
  <2>2. UNCHANGED <<pc, launch, ips, config>>
    BY <1>5 DEF WorkerSteps, startVars
  <2>3. workers \in Seq(WorkerStates)
    BY DEF LifeInv, TypeInv
  <2>4. HandshakeInv'
    BY <2>1, <2>2, <2>3, ConnectHandshake, TestHandshake DEF WorkerStep
  <2> QED
    BY <2>2, <2>4 DEF ConfigInv
<1>6. ASSUME UNCHANGED <<launch, ips, config, peers, workers, sockets>>,
             pc' = pc \/ pc' \notin BeforeThreads
      PROVE  StartupInv'
  <2>1. Connecting' => Connecting
    BY <1>6 DEF Connecting, BeforeThreads
  <2>2. pc' = "download" => \A i \in DOMAIN workers : workers[i].st = "ok"
    BY <1>6 DEF HandshakeInv, BeforeThreads
  <2>3. HandshakeInv'
    BY <1>6, <2>1, <2>2, SameHandshake DEF EarlyPhases, BeforeThreads
  <2> QED
    BY <1>6, <2>3 DEF ConfigInv, BeforeThreads
<1>7. CASE (\E i \in DOMAIN threads : ThreadSteps(i)) \/ PeerSteps \/ ServerSteps \/ IncomingSteps \/ LoggerSteps
           \/ ShowMainWindow \/ CloseMainWindow \/ UNCHANGED vars
  <2>1. UNCHANGED <<pc, launch, ips, config, peers, workers, sockets>>
    BY <1>7 DEF ThreadSteps, PeerSteps, ServerSteps, IncomingSteps, LoggerSteps, Rest, ShowMainWindow,
                CloseMainWindow, vars, startVars, handshakeVars
  <2> QED
    BY <1>6, <2>1
<1>8. CASE StartServer \/ BroadcastTx \/ BroadcastEnds \/ StopServing \/ WriteToNode
  <2>1. pc' \in {"serving", "broadcast", "finish"} \/ pc' = pc
    BY <1>8 DEF StartServer, BroadcastTx, BroadcastEnds, StopServing, WriteToNode
  <2>2. UNCHANGED <<launch, ips, config, peers, workers, sockets>>
    BY <1>8 DEF StartServer, BroadcastTx, BroadcastEnds, StopServing, WriteToNode, startVars, handshakeVars
  <2> QED
    BY <1>6, <2>1, <2>2 DEF BeforeThreads
<1>9. CASE Finish \/ JoinThread \/ StopServer \/ JoinServer \/ CloseLogger
  <2>1. pc' \in {"take", "join_threads", "stop", "err", "join_server", "close", "join_logger", "ok"} \/ pc' = pc
    BY <1>9 DEF Finish, JoinThread, StopServer, JoinServer, CloseLogger
  <2>2. UNCHANGED <<launch, ips, config, peers, workers, sockets>>
    BY <1>9 DEF Finish, JoinThread, StopServer, JoinServer, CloseLogger, startVars, handshakeVars
  <2> QED
    BY <1>6, <2>1, <2>2 DEF BeforeThreads
<1> QED
  BY <1>1, <1>2, <1>3, <1>4, <1>5, <1>7, <1>8, <1>9 DEF Next, Main, User

LEMMA Startup == Spec => [](LifeInv /\ StartupInv)
<1>1. LifeInv /\ StartupInv /\ LifeInv' /\ [Next]_vars => StartupInv'
  BY StartupStep
<1> QED
  BY <1>1, LifeInit, LifeStep, StartupInit, PTL DEF Spec

\* Config::from accepts a file in which no setting is repeated only if it has
\* all of them; handshake_with_nodes returns Ok with a connection to every node
\* of the list that answers and to no other, and with at least one; and
\* connect_to_nodes reports no connection only if all nodes of its part failed:
\* for every file, every list of nodes, every number of threads, every network
\* and every order of the threads.
THEOREM StartupIsRight == Spec => []StartupOutcome
<1>1. LifeInv /\ StartupInv => StartupOutcome
  <2> SUFFICES ASSUME LifeInv, StartupInv PROVE StartupOutcome
    OBVIOUS
  <2> USE DEF StartupInv
  <2>1. ASSUME pc = "loggers", \A i, j \in DOMAIN Given : Given[i][1] = Given[j][1] => i = j, NEW name \in Settings
        PROVE  \E i \in DOMAIN Given : Given[i][1] = name /\ config[name] = Given[i][2].v
    <3> DEFINE lines == Files[launch.file].lines
    <3>1. PICK argc : from(argc, Files[launch.file]).ok /\ config = from(argc, Files[launch.file]).config
      BY <2>1 DEF ConfigInv
    <3>2. launch.file \in DOMAIN Files
      BY LifecycleAssumption DEF LifeInv, TypeInv
    <3>3. /\ DOMAIN Given = {k \in DOMAIN lines : ~lines[k].comment}
          /\ \A i \in DOMAIN Given : Given[i] = lines[i].fields
      BY DEF Given
    <3>4. \A i, j \in {k \in DOMAIN lines : ~lines[k].comment} : NameOf(lines[i]) = NameOf(lines[j]) => i = j
      <4> HIDE DEF lines, StartupInv
      <4> SUFFICES ASSUME NEW i \in DOMAIN Given, NEW j \in DOMAIN Given, NameOf(lines[i]) = NameOf(lines[j])
                   PROVE  i = j
        BY <3>3
      <4>1. Given[i][1] = NameOf(lines[i]) /\ Given[j][1] = NameOf(lines[j])
        BY <3>3 DEF NameOf
      <4> QED
        BY <2>1, <4>1
    <3>5. PICK i \in DOMAIN lines :
            /\ ~lines[i].comment /\ NameOf(lines[i]) = name
            /\ from(argc, Files[launch.file]).config[name] = lines[i].fields[2].v
      BY <3>1, <3>2, <3>4, AcceptedFile
    <3> QED
      BY <3>1, <3>3, <3>5 DEF NameOf
  <2>2. ASSUME pc = "download", config["N_THREADS"] > 0
        PROVE  /\ sockets # <<>>
               /\ \A ip \in Ips : Count(sockets, ip) = IF peers[ip] = "up" THEN Count(ips, ip) ELSE 0
    <3>1. workers # <<>> /\ \A i \in DOMAIN workers : workers[i].st = "ok"
      BY <2>2 DEF HandshakeInv
    <3>2. PartsInv /\ SocketsInv
      BY <2>2, <3>1 DEF HandshakeInv, Connecting
    <3>3. /\ config["N_THREADS"] \in Nat /\ ips \in Seq(Ips) /\ DOMAIN ips = 1 .. Len(ips)
          /\ DOMAIN workers = 1 .. Parts
      BY <3>2 DEF PartsInv, Nonempty
    <3>4. /\ Parts \in 1 .. config["N_THREADS"]
          /\ \A i \in 1 .. Parts : To(i) \in Nat
          /\ \A h \in 1 .. Len(ips) : \E i \in 1 .. Parts : From(i) < h /\ h <= To(i)
      BY <3>2, PartsCover DEF PartsInv
    <3>5. \A i \in DOMAIN workers : workers[i].nodes = <<>>
      BY <3>1, <3>2, <3>3 DEF PartsInv
    <3>6. \A i \in DOMAIN workers : To(i) - Len(workers[i].nodes) = To(i)
      BY <3>3, <3>4, <3>5
    <3>7. Tried = DOMAIN ips
      BY <3>3, <3>4, <3>6 DEF Tried
    <3>8. 1 \in DOMAIN workers
      BY <3>3, <3>4
    <3>9. sockets # <<>>
      BY <3>1, <3>2, <3>8 DEF SocketsInv
    <3> QED
      BY <3>2, <3>7, <3>9 DEF SocketsInv, Count
  <2>3. ASSUME NEW i \in DOMAIN workers, workers[i].st = "err"
        PROVE  LET chunk == Chunks(ips, config["N_THREADS"])[i] IN \A k \in DOMAIN chunk : peers[chunk[k]] = "down"
    <3>1. PartsInv
      BY <2>3 DEF HandshakeInv
    <3>2. i \in 1 .. Parts /\ Nonempty /\ config["N_THREADS"] # 0
      BY <3>1 DEF PartsInv, Nonempty
    <3>3. Chunks(ips, config["N_THREADS"])[i] = SubSeq(ips, From(i) + 1, To(i))
      BY <3>2 DEF Chunks, Parts, ChunkSize, From, To
    <3>4. From(i) \in Nat /\ To(i) \in Nat /\ From(i) < To(i) /\ To(i) <= Len(ips)
      BY <3>2, PartsCover
    <3>5. \A h \in 1 .. Len(ips) : From(i) < h /\ h <= To(i) => peers[ips[h]] = "down"
      BY <2>3, <3>1, <3>2 DEF PartsInv
    <3>6. ips \in Seq(Ips)
      BY <3>2 DEF Nonempty
    <3> DEFINE a == From(i)
               b == To(i)
               chunk == SubSeq(ips, a + 1, b)
    <3>7. a \in Nat /\ b \in Nat /\ a < b /\ b <= Len(ips) /\ Len(ips) \in Nat
      BY <3>4, <3>6
    <3> HIDE DEF a, b
    <3>8. Len(chunk) = b - a /\ DOMAIN chunk = 1 .. Len(chunk)
      BY <3>6, <3>7
    <3>9. \A k \in 1 .. (b - a) : chunk[k] = ips[a + k]
      BY <3>6, <3>7
    <3> HIDE DEF chunk
    <3>10. \A k \in 1 .. (b - a) : a + k \in 1 .. Len(ips) /\ a < a + k /\ a + k <= b
      BY <3>7
    <3>11. \A h \in 1 .. Len(ips) : a < h /\ h <= b => peers[ips[h]] = "down"
      BY <3>5 DEF a, b
    <3>12. \A k \in DOMAIN chunk : peers[chunk[k]] = "down"
      BY <3>8, <3>9, <3>10, <3>11
    <3> QED
      BY <3>3, <3>12 DEF chunk, a, b
  <2> QED
    BY <2>1, <2>2, <2>3 DEF StartupOutcome
<1> QED
  BY <1>1, Startup, PTL
=============================================================================
